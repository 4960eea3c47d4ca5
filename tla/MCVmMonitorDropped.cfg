SPECIFICATION Spec
CONSTANTS
  Group = {"vm1", "vm2", "vm3"}
  Victim = "vm2"
  Newcomer = "vm4"
  Pings <- AllPings
  Ignored = 0
  MaxLines = 1
INVARIANT
  TrafficNotInterrupted
