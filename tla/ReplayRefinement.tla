-------------------------- MODULE ReplayRefinement --------------------------
(***************************************************************************)
(* ReplayTransaction implements SingleUse: the consumer of a slot is the   *)
(* call whose reservation of it was committed; reservations, tokens and    *)
(* the order of the loops are invisible.                                   *)
(***************************************************************************)
EXTENDS ReplayTransaction

CONSTANTS Free, Prior

ASSUME OwnerAssumption == {Free, Prior} \cap Calls = {} /\ Free # Prior

Needs == [c \in Calls |-> {Slot(t) : t \in TokensOf(c)}]

Committers(s) ==
    {c \in Calls : \E t \in TokensOf(c) : res[t] = "committed" /\ Slot(t) = s}

Owner(s) ==
    IF Committers(s) # {} THEN CHOOSE c \in Committers(s) : TRUE
    ELSE IF s \in seen THEN Prior ELSE Free

Decision(c) ==
    IF Allowed(c) THEN "ALLOW" ELSE IF Denied(c) THEN "DENY" ELSE "pending"

SU == INSTANCE SingleUse WITH
    owner <- [s \in Slots |-> Owner(s)],
    decision <- [c \in Calls |-> Decision(c)]

(* Every behaviour of the transaction is one of the abstract single-use    *)
(* store: no double consumption, no ALLOW without sole ownership.          *)
ImplementsSingleUse == SU!Spec
============================================================================
