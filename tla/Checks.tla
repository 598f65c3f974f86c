------------------------------- MODULE Checks -------------------------------
(***************************************************************************)
(* What the modules about inputs share: Python's None, and validation as a *)
(* sequence of checks in the order the code makes them, of which the first *)
(* that failed is raised.                                                  *)
(***************************************************************************)
EXTENDS Naturals, Sequences

CONSTANT None

RaiseIf(failed, code) == IF failed THEN code ELSE "accepted"

FirstRefusal(checks) ==
    LET raised == {i \in DOMAIN checks : checks[i] # "accepted"}
    IN  IF raised = {} THEN "accepted"
        ELSE checks[CHOOSE i \in raised : \A j \in raised : i <= j]
=============================================================================
