------------------------------ MODULE Results ------------------------------
(***************************************************************************)
(* The Results object of a testcase (lib/results.py): the verdict, the     *)
(* list of reported subtests and their counts.  Only rows whose first      *)
(* column is PASS or FAIL are subtests; titles, separators and actions of  *)
(* the summary are text.  Components that report subtests extend this      *)
(* module and use its operators in their actions.                          *)
(***************************************************************************)
EXTENDS Naturals, Sequences

VARIABLES
  test_result,       \* "PASS" or "FAIL"
  details,           \* Seq([name, result]), the rows of the summary
  num_tests,         \* rows so far
  num_tests_failed   \* FAIL rows so far

resultsVars == <<test_result, details, num_tests, num_tests_failed>>

ResultsInit ==
  /\ test_result = "PASS" /\ details = <<>>
  /\ num_tests = 0 /\ num_tests_failed = 0

\* add_to_summary(2, "PASS" or "FAIL", test)
add_to_summary(result, test) ==
  /\ details' = Append(details, [name |-> test, result |-> result])
  /\ num_tests' = num_tests + 1
  /\ num_tests_failed' = num_tests_failed + (IF result = "FAIL" THEN 1 ELSE 0)

\* Mutant: the row is added and the verdict forgotten.
add_failure_RowOnly(test) ==
  add_to_summary("FAIL", test) /\ UNCHANGED test_result

add_failure(test) == add_to_summary("FAIL", test) /\ test_result' = "FAIL"

add_success(test) == add_to_summary("PASS", test) /\ UNCHANGED test_result

add_subtest(test, successful) ==
  IF successful THEN add_success(test) ELSE add_failure(test)

-----------------------------------------------------------------------------
ResultsTypeOK(Name) ==
  /\ test_result \in {"PASS", "FAIL"}
  /\ details \in Seq([name : Name, result : {"PASS", "FAIL"}])
  /\ num_tests \in Nat /\ num_tests_failed \in Nat

Report == INSTANCE SubtestReport
            WITH verdict <- test_result,
                 passed  <- num_tests - num_tests_failed,
                 failed  <- num_tests_failed

(***************************************************************************)
(* The report is the abstract one: compile_summary's status, the rows of   *)
(* its details and the counts are three views of the same subtests.        *)
(***************************************************************************)
ReportSpec == Report!Spec
=============================================================================
