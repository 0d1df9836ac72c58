---------------------------- MODULE MCRevocation ----------------------------
(* Two receipts of one issuer, in the order of their entries, and a clock  *)
(* that is slow, right, or faster than the policy tolerates.               *)
EXTENDS Revocation, TLC

CONSTANTS r1, r2, i1

OneIssuer == [r \in Receipts |-> i1]
Sorted == i1 :> 0 @@ r1 :> 1 @@ r2 :> 2
Skews == {-1, 0, 2}
============================================================================
