----------------------------- MODULE SingleUse -----------------------------
(***************************************************************************)
(* What the replay state promises its callers, without reservations,       *)
(* tokens, locks or errors: every one-time object (a slot: one nonce in    *)
(* one replay store) has at most one consumer, and a call is allowed only  *)
(* once it is the consumer of every slot it presents.  A call that is      *)
(* denied may or may not have consumed something; nothing is ever given    *)
(* back.  ReplayTransaction is shown to implement this module.             *)
(***************************************************************************)
CONSTANTS
    Calls,      \* verification calls (one per submitted request)
    Slots,      \* one-time objects
    Needs,      \* Needs[c]: the slots call c must consume
    Free,       \* nobody has consumed the slot
    Prior       \* consumed before, or by somebody who is not one of Calls

(* What the constants are taken to satisfy. *)
SingleUseAssumption ==
    /\ Needs \in [Calls -> SUBSET Slots]
    /\ \A c \in Calls : Needs[c] # {}
    /\ {Free, Prior} \cap Calls = {}
    /\ Free # Prior

VARIABLES
    owner,      \* owner[s]: who consumed slot s
    decision    \* decision[c]: what call c has answered

vars == <<owner, decision>>

TypeOK ==
    /\ owner \in [Slots -> Calls \cup {Free, Prior}]
    /\ decision \in [Calls -> {"pending", "ALLOW", "DENY"}]

Init ==
    /\ owner \in [Slots -> {Free, Prior}]
    /\ decision = [c \in Calls |-> "pending"]

\* Call c becomes the consumer of a slot it presents.
Consume(c, s) ==
    /\ decision[c] = "pending"
    /\ s \in Needs[c]
    /\ owner[s] = Free
    /\ owner' = [owner EXCEPT ![s] = c]
    /\ UNCHANGED decision

\* Somebody else uses the slot up.
Retire(s) ==
    /\ owner[s] = Free
    /\ owner' = [owner EXCEPT ![s] = Prior]
    /\ UNCHANGED decision

Allow(c) ==
    /\ decision[c] = "pending"
    /\ \A s \in Needs[c] : owner[s] = c
    /\ decision' = [decision EXCEPT ![c] = "ALLOW"]
    /\ UNCHANGED owner

Deny(c) ==
    /\ decision[c] = "pending"
    /\ decision' = [decision EXCEPT ![c] = "DENY"]
    /\ UNCHANGED owner

Next ==
    \/ \E c \in Calls : Allow(c) \/ Deny(c)
    \/ \E c \in Calls, s \in Slots : Consume(c, s)
    \/ \E s \in Slots : Retire(s)

Spec == Init /\ [][Next]_vars

----------------------------------------------------------------------------

(* An allowed call owns everything it presented. *)
AllowedOwnsAll ==
    \A c \in Calls : decision[c] = "ALLOW" => \A s \in Needs[c] : owner[s] = c

(* Two allowed calls never presented the same one-time object. *)
SingleUse ==
    \A c, d \in Calls :
        (c # d /\ decision[c] = "ALLOW" /\ decision[d] = "ALLOW")
            => Needs[c] \cap Needs[d] = {}

============================================================================
