SPECIFICATION Spec
CONSTANTS
  Group = {"vm1", "vm2"}
  Victim = "vm2"
  Newcomer = "vm4"
  Pings <- PairPings
  Ignored = 1
  MaxLines = 3
INVARIANTS
  TypeOK
  NoFalseAlarm
  LooksAtAllButUnfinished
  MonitorsJoined
PROPERTIES
  ReportSpec
  Ends
