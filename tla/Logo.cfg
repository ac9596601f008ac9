SPECIFICATION FairSpec
CONSTANTS
  League <- MCLeague
  Team <- MCTeam
  MatchTeam = "t1"
  Source <- MCSource
  logoWorkers = 1
  MaxChanges = 1
  MaxTroubles = 1
INVARIANTS NoBrokenLogo Answered
PROPERTIES LogoKept LogosHeal MatchLogoHeals RunEnds
