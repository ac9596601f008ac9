SPECIFICATION Spec
CONSTANTS
  Step = 30
  FirstRun = 30
  Start <- MCStart
  Length = 2880
  Kickoffs <- MCKickoffs
  Offers <- MCOffers
  MaxTroubles = 0
INVARIANTS DisplayDayFresh
