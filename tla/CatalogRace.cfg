SPECIFICATION Spec
CONSTANTS
  Reader = {r1, r2}
  Key = {"matches", "standings"}
  Job = {"live", "schedule", "standings"}
  MaxVersion <- MCMaxVersion
INVARIANTS StaleOnlyUntilEvicted
