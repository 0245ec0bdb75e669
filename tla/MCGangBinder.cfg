SPECIFICATION Spec
CONSTANTS
  UnitOf <- UnitOfDef
  NodeFor <- NodeForDef
  VictimsOf <- VictimsOfDef
  MinMember <- MinMemberDef
  Gangs = {"g"}
  Victims = {"v"}
  Nobody = Nobody
  MaxJobs = 2
  MaxTrouble = 2
  MaxLag = 1
  MaxGroupLag = 3
CONSTRAINT TroubleWithTwo
INVARIANTS
  PodsAreKept
  
  TimedOutGangIsNotBound
  GangIsBoundTogether
CHECK_DEADLOCK FALSE
