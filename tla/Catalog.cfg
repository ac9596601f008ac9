SPECIFICATION FairSpec
CONSTANTS
  Reader = {r1, r2}
  Key = {"leagues", "standings"}
  Job = {"logos", "tool", "standings"}
  MaxVersion <- MCMaxVersion
INVARIANTS StaleExplained
PROPERTIES EventuallyFresh ReadsSpec
