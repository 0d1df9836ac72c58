------------------------- MODULE ReplayTransaction -------------------------
(***************************************************************************)
(* The anti-replay transaction at the end of verification                  *)
(* (orprg_eval/verifier.py) over the replay stores it is given             *)
(* (orprg_eval/replay.py, orprg_eval/persistent_replay.py), with any       *)
(* number of calls running in threads of their own.                        *)
(*                                                                         *)
(* A call presents one or two one-time objects: the receipt nonce and, if  *)
(* the policy asks for it, the capability nonce.  It reserves each in      *)
(* order, then commits each in order; if anything fails it releases what   *)
(* it reserved and denies.  Every method of a store is atomic (it runs     *)
(* under the store's lock, or in one SQLite write transaction); calls      *)
(* interleave between methods.                                             *)
(*                                                                         *)
(* The three stores keep the same two things: which nonces are used up     *)
(* (_seen, the list itself, rows with committed=1) and which are reserved  *)
(* under which random token (_reserved, rows with committed=0).  They      *)
(* differ in how a nonce is keyed, in who else may write to them, and in   *)
(* whether a method may fail.                                              *)
(***************************************************************************)
EXTENDS Naturals, Sequences

CONSTANTS
    Calls,          \* verification calls
    Stores, Domains, Nonces,
    Plan,           \* Plan[c]: the replay specs of call c, in order
    Standalone,     \* calls of verify_capability_token (a gateway's)
    ListStores,     \* stores that wrap a caller's used_nonces list
    FaultyStores,   \* stores whose methods may raise (SQLite: busy, disk, I/O)
    NoToken         \* "this slot is not reserved"

(* Where a nonce is looked up, and the code that denies it there. *)
ReplaySpec == [store : Stores, domain : Domains, nonce : Nonces,
               code : {"ANTI_REPLAY_FAILURE", "CAPABILITY_REPLAY"}]

(* One random token for every reserve() a call may make. *)
Tokens == UNION {{c} \X DOMAIN Plan[c] : c \in Calls}

SpecOf(t) == Plan[t[1]][t[2]]

(* A nonce is scoped by its replay domain, except in a list store, whose   *)
(* registry is keyed by the list and the raw nonce.                        *)
Key(spec) ==
    IF spec.store \in ListStores
    THEN <<spec.store, spec.nonce>>
    ELSE <<spec.store, spec.domain, spec.nonce>>

Slot(t) == Key(SpecOf(t))
Slots == {Slot(t) : t \in Tokens}
IsList(t) == SpecOf(t).store \in ListStores
MayRaise(t) == SpecOf(t).store \in FaultyStores

ASSUME PlanAssumption ==
    /\ Plan \in [Calls -> Seq(ReplaySpec)]
    /\ \A c \in Calls : Len(Plan[c]) > 0
    /\ NoToken \notin Tokens

VARIABLES
    seen,       \* slots that are used up
    reserved,   \* reserved[s]: the token that holds slot s, or NoToken
    res,        \* res[t]: the reservation object made with token t
    pc, idx,    \* which loop each call is in, and at which replay spec
    code        \* what a call is going to answer, once it knows

vars == <<seen, reserved, res, pc, idx, code>>
store == <<seen, reserved, res>>

Codes == {"none", "ALLOW", "ANTI_REPLAY_FAILURE", "CAPABILITY_REPLAY",
          "REPLAY_STATE_FAILURE", "CAPABILITY_TOKEN_INVALID_OR_MISSING"}

(* A reservation object does not exist, is active, was committed, was      *)
(* closed without committing, or was garbage-collected while active after  *)
(* its last release failed.                                                *)
ReservationStates == {"none", "active", "committed", "closed", "lost"}

Phases == {"check", "reserve", "commit", "decide", "release", "drop", "done"}

TypeOK ==
    /\ seen \subseteq Slots
    /\ reserved \in [Slots -> Tokens \cup {NoToken}]
    /\ res \in [Tokens -> ReservationStates]
    /\ pc \in [Calls -> Phases]
    /\ idx \in [Calls -> Nat]
    /\ \A c \in Calls : idx[c] \in DOMAIN Plan[c]
    /\ code \in [Calls -> Codes]

Init ==
    /\ seen \in SUBSET Slots
    /\ reserved = [s \in Slots |-> NoToken]
    /\ res = [t \in Tokens |-> "none"]
    /\ pc = [c \in Calls |-> "check"]
    /\ idx = [c \in Calls |-> 1]
    /\ code = [c \in Calls |-> "none"]

----------------------------------------------------------------------------
(* Control flow of one call. *)

Tok(c) == <<c, idx[c]>>

(* On to the next replay spec, or to the next loop after the last one. *)
Advance(c, next) ==
    IF idx[c] < Len(Plan[c])
    THEN idx' = [idx EXCEPT ![c] = @ + 1] /\ pc' = pc
    ELSE idx' = [idx EXCEPT ![c] = 1] /\ pc' = [pc EXCEPT ![c] = next]

(* The same downwards: reservations are released in reverse order. *)
Descend(c, next) ==
    IF idx[c] > 1
    THEN idx' = [idx EXCEPT ![c] = @ - 1] /\ pc' = pc
    ELSE idx' = [idx EXCEPT ![c] = Len(Plan[c])] /\ pc' = [pc EXCEPT ![c] = next]

(* Deny with a code.  verify_permit_receipt calls _release_all; the        *)
(* standalone capability check only drops its reservation object.          *)
Abort(c, why) ==
    /\ code' = [code EXCEPT ![c] = why]
    /\ pc' = [pc EXCEPT ![c] = IF c \in Standalone THEN "drop" ELSE "release"]
    /\ idx' = [idx EXCEPT ![c] = Len(Plan[c])]

StateFailure(c) ==
    IF c \in Standalone THEN "CAPABILITY_TOKEN_INVALID_OR_MISSING"
                        ELSE "REPLAY_STATE_FAILURE"

RefusalCode(c) ==
    IF c \in Standalone THEN "CAPABILITY_REPLAY" ELSE "ANTI_REPLAY_FAILURE"

----------------------------------------------------------------------------
(* The early look at a used_nonces list, without any lock and before       *)
(* anything is reserved.  A call with a store object has no such list.     *)

CheckPasses(c) ==
    /\ pc[c] = "check"
    /\ ~(IsList(Tok(c)) /\ Slot(Tok(c)) \in seen)
    /\ Advance(c, "reserve")
    /\ UNCHANGED <<store, code>>

CheckDenies(c) ==
    /\ pc[c] = "check"
    /\ IsList(Tok(c)) /\ Slot(Tok(c)) \in seen
    /\ code' = [code EXCEPT ![c] = SpecOf(Tok(c)).code]
    /\ pc' = [pc EXCEPT ![c] = "done"]
    /\ UNCHANGED <<store, idx>>

----------------------------------------------------------------------------
(* reserve() *)

(* Mutant: a store that forgets its reservations. *)
IsFreeIgnoringReservations(s) == s \notin seen

IsFree(s) == s \notin seen /\ reserved[s] = NoToken

(* Mutant: check-and-mark, the nonce is used up at once. *)
ReserveConsumes(c) ==
    /\ pc[c] = "reserve"
    /\ IsFree(Slot(Tok(c)))
    /\ seen' = seen \cup {Slot(Tok(c))}
    /\ res' = [res EXCEPT ![Tok(c)] = "committed"]
    /\ Advance(c, "decide")
    /\ UNCHANGED <<reserved, code>>

ReserveGranted(c) ==
    /\ pc[c] = "reserve"
    /\ IsFree(Slot(Tok(c)))
    /\ reserved' = [reserved EXCEPT ![Slot(Tok(c))] = Tok(c)]
    /\ res' = [res EXCEPT ![Tok(c)] = "active"]
    /\ Advance(c, "commit")
    /\ UNCHANGED <<seen, code>>

(* Mutant: a refused call gives everything back and tries again. *)
ReserveRetries(c) ==
    /\ pc[c] = "reserve"
    /\ ~IsFree(Slot(Tok(c)))
    /\ reserved' = [s \in Slots |->
            IF reserved[s] \in {c} \X DOMAIN Plan[c] THEN NoToken ELSE reserved[s]]
    /\ res' = [t \in Tokens |-> IF t[1] = c THEN "none" ELSE res[t]]
    /\ idx' = [idx EXCEPT ![c] = 1]
    /\ UNCHANGED <<seen, pc, code>>

ReserveRefused(c) ==
    /\ pc[c] = "reserve"
    /\ ~IsFree(Slot(Tok(c)))
    /\ Abort(c, SpecOf(Tok(c)).code)
    /\ UNCHANGED store

ReserveRaises(c) ==
    /\ pc[c] = "reserve"
    /\ MayRaise(Tok(c))
    /\ Abort(c, StateFailure(c))
    /\ UNCHANGED store

----------------------------------------------------------------------------
(* commit() of an active reservation *)

Holds(t) == reserved[Slot(t)] = t
Unreserve(t) ==
    IF Holds(t) THEN [reserved EXCEPT ![Slot(t)] = NoToken] ELSE reserved

(* Mutant: a commit that does not look at the list again. *)
CommitResultBlind(t) == IF Holds(t) THEN TRUE ELSE Slot(t) \in seen

(* With its token still in place a commit succeeds, unless a list store    *)
(* finds that somebody appended the nonce.  Without it, commit reports     *)
(* whether the nonce is used up, by whomever.                              *)
CommitResult(t) ==
    IF Holds(t) THEN ~(IsList(t) /\ Slot(t) \in seen) ELSE Slot(t) \in seen

(* Mutant: a commit that does not record the nonce as used. *)
CommitEffectUnrecorded(t, final) ==
    /\ reserved' = Unreserve(t)
    /\ seen' = seen
    /\ res' = [res EXCEPT ![t] = final]

CommitEffect(t, final) ==
    /\ reserved' = Unreserve(t)
    /\ seen' = IF Holds(t) THEN seen \cup {Slot(t)} ELSE seen
    /\ res' = [res EXCEPT ![t] = final]

CommitSucceeds(c) ==
    /\ pc[c] = "commit"
    /\ CommitResult(Tok(c))
    /\ CommitEffect(Tok(c), "committed")
    /\ Advance(c, "decide")
    /\ UNCHANGED code

CommitRefused(c) ==
    /\ pc[c] = "commit"
    /\ ~CommitResult(Tok(c))
    /\ CommitEffect(Tok(c), "closed")
    /\ Abort(c, RefusalCode(c))

(* Mutant: an error after the row has been updated. *)
CommitRaisesLate(c) ==
    /\ pc[c] = "commit"
    /\ MayRaise(Tok(c))
    /\ CommitEffect(Tok(c), "committed")
    /\ Abort(c, StateFailure(c))

CommitRaises(c) ==
    /\ pc[c] = "commit"
    /\ MayRaise(Tok(c))
    /\ Abort(c, StateFailure(c))
    /\ UNCHANGED store

Decide(c) ==
    /\ pc[c] = "decide"
    /\ code' = [code EXCEPT ![c] = "ALLOW"]
    /\ pc' = [pc EXCEPT ![c] = "done"]
    /\ UNCHANGED <<store, idx>>

----------------------------------------------------------------------------
(* release(), explicitly in _release_all and again from __del__ when the   *)
(* call returns and its reservation objects go away.                       *)

Releasing(c) == pc[c] \in {"release", "drop"}
(* Mutant: no second attempt when the reservation objects are dropped. *)
NextLoopWithoutDrop(c) == "done"

NextLoop(c) == IF pc[c] = "release" THEN "drop" ELSE "done"

ReleaseActive(c) ==
    /\ Releasing(c)
    /\ res[Tok(c)] = "active"
    /\ reserved' = Unreserve(Tok(c))
    /\ res' = [res EXCEPT ![Tok(c)] = "closed"]
    /\ Descend(c, NextLoop(c))
    /\ UNCHANGED <<seen, code>>

ReleaseRaises(c) ==
    /\ Releasing(c)
    /\ res[Tok(c)] = "active"
    /\ MayRaise(Tok(c))
    /\ res' = IF pc[c] = "drop" THEN [res EXCEPT ![Tok(c)] = "lost"] ELSE res
    /\ Descend(c, NextLoop(c))
    /\ UNCHANGED <<seen, reserved, code>>

ReleaseSkips(c) ==
    /\ Releasing(c)
    /\ res[Tok(c)] # "active"
    /\ Descend(c, NextLoop(c))
    /\ UNCHANGED <<store, code>>

----------------------------------------------------------------------------
(* The caller's list is an ordinary Python list: others may append to it   *)
(* without the registry.                                                   *)
ListAppend(t) ==
    /\ IsList(t)
    /\ Slot(t) \notin seen
    /\ seen' = seen \cup {Slot(t)}
    /\ UNCHANGED <<reserved, res, pc, idx, code>>

Step(c) ==
    \/ CheckPasses(c) \/ CheckDenies(c)
    \/ ReserveGranted(c) \/ ReserveRefused(c) \/ ReserveRaises(c)
    \/ CommitSucceeds(c) \/ CommitRefused(c) \/ CommitRaises(c)
    \/ Decide(c)
    \/ ReleaseActive(c) \/ ReleaseRaises(c) \/ ReleaseSkips(c)

Next == (\E c \in Calls : Step(c)) \/ (\E t \in Tokens : ListAppend(t))

Spec == Init /\ [][Next]_vars

----------------------------------------------------------------------------
(* What the transaction must guarantee. *)

Answered(c) == pc[c] = "done"
Allowed(c) == Answered(c) /\ code[c] = "ALLOW"
Denied(c) == Answered(c) /\ code[c] # "ALLOW"
TokensOf(c) == {c} \X DOMAIN Plan[c]

(* A live reservation object is the one the store has on record, so that   *)
(* its commit cannot be answered on behalf of another call; and a slot is  *)
(* on record for a dead object only if every release of it raised.         *)
TokenDiscipline ==
    \A t \in Tokens :
        /\ res[t] = "active" => Holds(t)
        /\ Holds(t) => res[t] = "active" \/ (res[t] = "lost" /\ MayRaise(t))

(* No nonce is committed for two reservations, in one call or in two: the  *)
(* concurrent submissions of one permit get at most one commit.            *)
SoleConsumer ==
    \A t, u \in Tokens :
        (res[t] = "committed" /\ res[u] = "committed" /\ Slot(t) = Slot(u)) => t = u

(* A call that answers ALLOW has used up every nonce it presented, and no  *)
(* other allowed call presented any of them.                               *)
AllowIsExclusive ==
    \A c \in Calls : Allowed(c) =>
        /\ \A t \in TokensOf(c) : res[t] = "committed" /\ Slot(t) \in seen
        /\ \A d \in Calls \ {c} : Allowed(d) =>
              {Slot(t) : t \in TokensOf(c)} \cap {Slot(t) : t \in TokensOf(d)} = {}

(* A call that has answered leaves no reservation behind, unless a store   *)
(* raised on each attempt to release it.                                   *)
NoReservationLeaks ==
    \A t \in Tokens : Answered(t[1]) /\ Holds(t) => res[t] = "lost"

(* Being refused a nonce that another call holds or has used costs         *)
(* nothing: the nonces reserved so far are all given back.  In particular  *)
(* a rejected capability does not consume the receipt nonce.               *)
RefusalConsumesNothing ==
    \A c \in Calls : \A t \in TokensOf(c) :
        Denied(c) /\ code[c] \in {"ANTI_REPLAY_FAILURE", "CAPABILITY_REPLAY"}
            => res[t] # "committed"

(* No denial consumes anything at all: "commit all reservations together   *)
(* or release them on denial" (replay.py).                                 *)
DenialConsumesNothing ==
    \A c \in Calls : \A t \in TokensOf(c) : Denied(c) => res[t] # "committed"

(* When a denial does consume nonces, it is the commit loop that stopped   *)
(* half-way: never the last nonce, and never a later one without those     *)
(* before it.                                                              *)
BurnIsProperPrefix ==
    \A c \in Calls : Denied(c) =>
        /\ res[<<c, Len(Plan[c])>>] # "committed"
        /\ \A i, j \in DOMAIN Plan[c] :
              i < j /\ res[<<c, j>>] = "committed" => res[<<c, i>>] = "committed"

(* Calls that stand in each other's way do not all lose: as receipts are   *)
(* reserved before capabilities, the last call to be refused was refused   *)
(* by one that commits, unless a store could not be used.                  *)
SomebodyWins ==
    (\A c \in Calls : Answered(c) /\ code[c] # StateFailure(c)) => seen # {}

(* A slot becomes used up only by the commit of the reservation that held  *)
(* it, or by an append to the caller's list; and it stays used up.         *)
HolderCommits ==
    /\ seen \subseteq seen'
    /\ \A t \in Tokens :
          (res[t] # "committed" /\ res'[t] = "committed")
             => Holds(t) /\ Slot(t) \notin seen /\ Slot(t) \in seen'

ConsumedByHolder == [][HolderCommits]_vars

----------------------------------------------------------------------------
(* The inductive invariant: what the reservation objects of a call look    *)
(* like at each point of its loops, and how they relate to the stores.     *)

Before(t) == t[2] < idx[t[1]]
After(t) == t[2] > idx[t[1]]

LoopShapeAt(t) ==
    /\ pc[t[1]] = "check" => res[t] = "none"
    /\ pc[t[1]] = "reserve" => res[t] = IF Before(t) THEN "active" ELSE "none"
    /\ pc[t[1]] = "commit" => res[t] = IF Before(t) THEN "committed" ELSE "active"
    /\ pc[t[1]] = "decide" => res[t] = "committed"
    /\ pc[t[1]] = "drop" /\ After(t) => res[t] # "active"
    /\ pc[t[1]] = "done" => res[t] # "active"

CodeShapeAt(c) ==
    /\ pc[c] \in {"check", "reserve", "commit", "decide"} => code[c] = "none"
    /\ pc[c] \in {"release", "drop"} => code[c] \notin {"none", "ALLOW"}
    /\ pc[c] = "done" => code[c] # "none"
    /\ Allowed(c) => \A t \in TokensOf(c) : res[t] = "committed"

LoopShape == \A t \in Tokens : LoopShapeAt(t)
CodeShape == \A c \in Calls : CodeShapeAt(c)

CommittedIsSeen == \A t \in Tokens : res[t] = "committed" => Slot(t) \in seen

(* Only the caller's list can change under a reservation. *)
ReservedIsFresh ==
    \A t \in Tokens : Holds(t) /\ ~IsList(t) => Slot(t) \notin seen

IInv ==
    /\ TypeOK
    /\ LoopShape
    /\ CodeShape
    /\ TokenDiscipline
    /\ CommittedIsSeen
    /\ ReservedIsFresh
    /\ SoleConsumer
============================================================================
