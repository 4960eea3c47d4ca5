----------------------------- MODULE ResultsProofs -----------------------------
(***************************************************************************)
(* What a testcase does to its Results is what SubtestReport allows.       *)
(***************************************************************************)
EXTENDS Results, TLAPS

LEMMA AddSubtestStep ==
  ASSUME NEW Name, ResultsTypeOK(Name), NEW test \in Name, NEW ok \in BOOLEAN,
         add_subtest(test, ok)
  PROVE  /\ ResultsTypeOK(Name)'
         /\ details' = Append(details,
                         [name |-> test, result |-> IF ok THEN "PASS" ELSE "FAIL"])
         /\ Report!Next
<1>. DEFINE result == IF ok THEN "PASS" ELSE "FAIL"
            Row == [name : Name, result : {"PASS", "FAIL"}]
<1>1. /\ details' = Append(details, [name |-> test, result |-> result])
      /\ num_tests' = num_tests + 1
      /\ num_tests_failed' = num_tests_failed + (IF ok THEN 0 ELSE 1)
      /\ test_result' = IF ok THEN test_result ELSE "FAIL"
  BY DEF add_subtest, add_success, add_failure, add_to_summary
<1>2. details' \in Seq(Row)
  <2>1. [name |-> test, result |-> result] \in Row /\ details \in Seq(Row)
    BY DEF ResultsTypeOK
  <2>. HIDE DEF Row, result
  <2>. QED
    BY <1>1, <2>1
<1>3. num_tests' \in Nat /\ num_tests_failed' \in Nat
  BY <1>1 DEF ResultsTypeOK
<1>4. ResultsTypeOK(Name)'
  BY <1>1, <1>2, <1>3 DEF ResultsTypeOK
<1>5. Report!Next
  <2>1. num_tests \in Nat /\ num_tests_failed \in Nat
    BY DEF ResultsTypeOK
  <2>2. CASE ok
    BY <1>1, <2>1, <2>2 DEF Report!Next, Report!ReportPass
  <2>3. CASE ~ok
    BY <1>1, <2>1, <2>3 DEF Report!Next, Report!ReportFail
  <2>. QED
    BY <2>2, <2>3
<1>. QED
  BY <1>1, <1>4, <1>5

LEMMA SameResults ==
  ASSUME UNCHANGED resultsVars, NEW Name, ResultsTypeOK(Name)
  PROVE  /\ ResultsTypeOK(Name)'
         /\ details' = details
         /\ UNCHANGED <<test_result, num_tests - num_tests_failed, num_tests_failed>>
BY DEF resultsVars, ResultsTypeOK

LEMMA InitResults ==
  ASSUME ResultsInit, NEW Name
  PROVE  ResultsTypeOK(Name) /\ Report!Init
BY DEF ResultsInit, ResultsTypeOK, Report!Init
=============================================================================
