--------------------------- MODULE SubtestReport ---------------------------
(***************************************************************************)
(* What a testcase's report promises: subtests are reported one by one, a  *)
(* report is never taken back, and the verdict is PASS exactly as long as  *)
(* no failure was reported.                                                *)
(***************************************************************************)
EXTENDS Naturals

VARIABLES
  verdict,  \* "PASS" or "FAIL"
  passed,   \* subtests reported as passed
  failed    \* subtests reported as failed

Init == verdict = "PASS" /\ passed = 0 /\ failed = 0

ReportPass == passed' = passed + 1 /\ UNCHANGED <<verdict, failed>>

ReportFail == failed' = failed + 1 /\ verdict' = "FAIL" /\ UNCHANGED passed

Next == ReportPass \/ ReportFail

Spec == Init /\ [][Next]_<<verdict, passed, failed>>
=============================================================================
