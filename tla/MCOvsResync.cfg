SPECIFICATION Spec
CONSTANTS
  NodeCount = 2
  c1 = c1
  c2 = c2
  Controllers <- MCControllers
  Found <- MCFound
  NoController = NoController
  VmGroups = 2
  MaxExtra = 1
INVARIANTS
  TypeOK
  OneSwitchAtATime
  HandedBack
  GroupsDeleted
  NoFalseAlarm
PROPERTY
  LeftInSync
