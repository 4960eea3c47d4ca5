------------------------ MODULE MCTestcaseLifecycle ------------------------
(***************************************************************************)
(* TestcaseLifecycle with the scripts of the repository's testcases.       *)
(***************************************************************************)
EXTENDS TestcaseLifecycle

S == INSTANCE TestcaseScripts

MCRes == S!AllRes
MCKind == S!AllKind
MCTestcase == S!AllTestcase
MCScript == S!AllScript
MCTryAt == S!AllTryAt
MCBreaks == S!AllBreaks
MCNeeds == S!AllNeeds
MCLeftovers == S!AllLeftovers
=============================================================================
