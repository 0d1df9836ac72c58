---------------------------- MODULE ReplayProofs ----------------------------
(***************************************************************************)
(* Theorems about ReplayTransaction for any set of calls, any plans, any   *)
(* mix of stores: its inductive invariant, the safety properties that      *)
(* follow from it, and the refinement of SingleUse.  The last part is      *)
(* about processes that crash (DurableReplay).                             *)
(***************************************************************************)
EXTENDS DurableReplay, ReplayRefinement, TLAPS

----------------------------------------------------------------------------
(* Facts about tokens and slots. *)

(* A token is a call and a position in its plan, and has a slot. *)
LEMMA TokenFacts ==
    /\ \A c \in Calls : \A i \in DOMAIN Plan[c] : <<c, i>> \in Tokens
    /\ \A t \in Tokens : /\ t = <<t[1], t[2]>>
                         /\ t[1] \in Calls
                         /\ t[2] \in DOMAIN Plan[t[1]]
                         /\ Slot(t) \in Slots
                         /\ SpecOf(t) \in ReplaySpec
    /\ \A c \in Calls : /\ Len(Plan[c]) \in Nat \ {0}
                        /\ DOMAIN Plan[c] = 1 .. Len(Plan[c])
<1>1. ASSUME NEW c \in Calls
      PROVE  /\ Len(Plan[c]) \in Nat \ {0}
             /\ DOMAIN Plan[c] = 1 .. Len(Plan[c])
  <2> DEFINE S == ReplaySpec
  <2>1. Plan[c] \in Seq(S) /\ Len(Plan[c]) > 0
    BY PlanAssumption
  <2> HIDE DEF S
  <2>2. QED
    BY <2>1
<1>2. \A c \in Calls : \A i \in DOMAIN Plan[c] : <<c, i>> \in Tokens
  BY DEF Tokens
<1>3. \A t \in Tokens : /\ t = <<t[1], t[2]>>
                        /\ t[1] \in Calls
                        /\ t[2] \in DOMAIN Plan[t[1]]
  BY DEF Tokens
<1>4. \A t \in Tokens : Slot(t) \in Slots
  BY DEF Slots
<1>5. \A t \in Tokens : SpecOf(t) \in ReplaySpec
  BY <1>1, <1>3, PlanAssumption DEF SpecOf
<1>6. QED
  BY <1>1, <1>2, <1>3, <1>4, <1>5

(* The tokens of a call. *)
LEMMA OwnTokens ==
    \A c \in Calls : \A t \in TokensOf(c) : t \in Tokens /\ t[1] = c
  BY TokenFacts DEF TokensOf

(* Every call has one to begin with. *)
LEMMA FirstToken ==
    \A c \in Calls : <<c, 1>> \in TokensOf(c) /\ <<c, 1>> \in Tokens
<1> SUFFICES ASSUME NEW c \in Calls PROVE 1 \in DOMAIN Plan[c]
  BY TokenFacts DEF TokensOf
<1> DEFINE n == Len(Plan[c])
<1>1. n \in Nat \ {0} /\ DOMAIN Plan[c] = 1 .. n
  BY TokenFacts
<1> HIDE DEF n
<1>2. QED
  BY <1>1

(* A list and a store object never share a slot. *)
LEMMA SlotKind ==
    \A t, u \in Tokens : Slot(t) = Slot(u) => (IsList(t) <=> IsList(u))
<1> SUFFICES ASSUME NEW t \in Tokens, NEW u \in Tokens, Slot(t) = Slot(u)
             PROVE  SpecOf(t).store = SpecOf(u).store
  BY DEF IsList
<1>1. \A v \in Tokens : Slot(v)[1] = SpecOf(v).store
  BY DEF Slot, Key
<1>2. QED
  BY <1>1

(* The token a call is working on. *)
LEMMA CurrentToken ==
    ASSUME TypeOK, NEW c \in Calls
    PROVE  /\ Tok(c) \in Tokens
           /\ Tok(c)[1] = c
           /\ Tok(c)[2] = idx[c]
           /\ Slot(Tok(c)) \in Slots
           /\ idx[c] \in 1 .. Len(Plan[c])
           /\ SpecOf(Tok(c)).code \in {"ANTI_REPLAY_FAILURE", "CAPABILITY_REPLAY"}
<1>1. idx[c] \in DOMAIN Plan[c]
  BY DEF TypeOK
<1>2. Tok(c) \in Tokens
  BY <1>1, TokenFacts DEF Tok
<1>3. QED
  BY <1>1, <1>2, TokenFacts DEF Tok, ReplaySpec

----------------------------------------------------------------------------
(* Types *)

(* The loop helpers keep the types of pc, idx and code.                    *)
LEMMA ControlTypes ==
    ASSUME TypeOK, NEW c \in Calls, NEW next \in Phases, NEW why \in Codes
    PROVE  /\ Advance(c, next) \/ Descend(c, next) =>
                /\ pc' \in [Calls -> Phases]
                /\ idx' \in [Calls -> Nat]
                /\ \A d \in Calls : idx'[d] \in DOMAIN Plan[d]
           /\ Abort(c, why) =>
                /\ pc' \in [Calls -> Phases]
                /\ idx' \in [Calls -> Nat]
                /\ \A d \in Calls : idx'[d] \in DOMAIN Plan[d]
                /\ code' \in [Calls -> Codes]
<1> DEFINE n == Len(Plan[c])
<1>1. /\ n \in Nat \ {0}
      /\ \A d \in Calls : idx[d] \in DOMAIN Plan[d]
      /\ idx[c] \in 1 .. n
      /\ DOMAIN Plan[c] = 1 .. n
      /\ 1 \in DOMAIN Plan[c] /\ n \in DOMAIN Plan[c]
  BY TokenFacts, CurrentToken DEF TypeOK
<1>2. ASSUME NEW i \in DOMAIN Plan[c], idx' = [idx EXCEPT ![c] = i]
      PROVE  idx' \in [Calls -> Nat] /\ \A d \in Calls : idx'[d] \in DOMAIN Plan[d]
  BY <1>1, <1>2 DEF TypeOK
<1>3. ASSUME Advance(c, next) PROVE \E i \in DOMAIN Plan[c] : idx' = [idx EXCEPT ![c] = i]
  BY <1>1, <1>3 DEF Advance
<1>4. ASSUME Descend(c, next) PROVE \E i \in DOMAIN Plan[c] : idx' = [idx EXCEPT ![c] = i]
  BY <1>1, <1>4 DEF Descend
<1>5. Advance(c, next) \/ Descend(c, next) => pc' \in [Calls -> Phases]
  BY DEF Advance, Descend, TypeOK
<1>6. Abort(c, why) => /\ pc' \in [Calls -> Phases]
                       /\ code' \in [Calls -> Codes]
                       /\ idx' = [idx EXCEPT ![c] = n]
  BY DEF Abort, TypeOK, Phases
<1>7. QED
  BY <1>1, <1>2, <1>3, <1>4, <1>5, <1>6

(* Every step keeps the types.                                             *)
LEMMA TypeStep == TypeOK /\ [Next]_vars => TypeOK'
<1> SUFFICES ASSUME TypeOK, [Next]_vars PROVE TypeOK'
  OBVIOUS
<1>1. CASE UNCHANGED vars
  BY <1>1 DEF vars, TypeOK
<1>2. ASSUME NEW t \in Tokens, ListAppend(t) PROVE TypeOK'
  BY <1>2, TokenFacts DEF ListAppend, TypeOK
<1>3. ASSUME NEW c \in Calls, Step(c) PROVE TypeOK'
  <2>0. /\ Tok(c) \in Tokens
        /\ Slot(Tok(c)) \in Slots
        /\ SpecOf(Tok(c)).code \in Codes
        /\ RefusalCode(c) \in Codes
        /\ StateFailure(c) \in Codes
        /\ NextLoop(c) \in Phases
        /\ {"reserve", "commit", "decide", "done"} \subseteq Phases
    BY CurrentToken DEF Codes, RefusalCode, StateFailure, NextLoop, Phases
  <2>1. CASE CheckPasses(c)
    BY <2>0, <2>1, ControlTypes DEF CheckPasses, TypeOK, store
  <2>2. CASE CheckDenies(c)
    BY <2>0, <2>2 DEF CheckDenies, TypeOK, store
  <2>3. CASE ReserveGranted(c)
    <3>1. reserved' \in [Slots -> Tokens \cup {NoToken}] /\ res' \in [Tokens -> ReservationStates]
      BY <2>0, <2>3 DEF ReserveGranted, TypeOK, ReservationStates
    <3>2. QED
      BY <2>0, <2>3, <3>1, ControlTypes DEF ReserveGranted, TypeOK
  <2>4. CASE ReserveRefused(c) \/ ReserveRaises(c) \/ CommitRaises(c)
    BY <2>0, <2>4, ControlTypes DEF ReserveRefused, ReserveRaises, CommitRaises, TypeOK, store
  <2>5. CASE CommitSucceeds(c) \/ CommitRefused(c)
    <3>1. /\ reserved' \in [Slots -> Tokens \cup {NoToken}]
          /\ res' \in [Tokens -> ReservationStates]
          /\ seen' \subseteq Slots
      BY <2>0, <2>5 DEF CommitSucceeds, CommitRefused, CommitEffect, Unreserve, TypeOK, ReservationStates
    <3>2. QED
      BY <2>0, <2>5, <3>1, ControlTypes DEF CommitSucceeds, CommitRefused, TypeOK
  <2>6. CASE Decide(c)
    BY <2>0, <2>6 DEF Decide, TypeOK, store, Codes
  <2>7. CASE ReleaseActive(c) \/ ReleaseRaises(c) \/ ReleaseSkips(c)
    <3>1. /\ reserved' \in [Slots -> Tokens \cup {NoToken}]
          /\ res' \in [Tokens -> ReservationStates]
      BY <2>0, <2>7 DEF ReleaseActive, ReleaseRaises, ReleaseSkips, Unreserve, TypeOK,
                        ReservationStates, store
    <3>2. QED
      BY <2>0, <2>7, <3>1, ControlTypes
      DEF ReleaseActive, ReleaseRaises, ReleaseSkips, TypeOK, store
  <2>8. QED
    BY <1>3, <2>1, <2>2, <2>3, <2>4, <2>5, <2>6, <2>7 DEF Step
<1>4. QED
  BY <1>1, <1>2, <1>3 DEF Next

(* Every variable keeps its type, in every behaviour. *)
THEOREM TypeCorrect == Spec => []TypeOK
<1>1. Init => TypeOK
  BY TokenFacts DEF Init, TypeOK, ReservationStates, Phases, Codes
<1>2. QED
  BY <1>1, TypeStep, PTL DEF Spec

----------------------------------------------------------------------------
(* What a step does to the control state, call by call. *)

(* Going up moves one call to its next replay spec or to its next loop.    *)
LEMMA AdvanceEffect ==
    ASSUME TypeOK, NEW c \in Calls, NEW next, Advance(c, next)
    PROVE  /\ \A d \in Calls \ {c} : pc'[d] = pc[d] /\ idx'[d] = idx[d]
           /\ \/ /\ idx[c] < Len(Plan[c])
                 /\ idx'[c] = idx[c] + 1
                 /\ pc'[c] = pc[c]
              \/ /\ idx[c] = Len(Plan[c])
                 /\ idx'[c] = 1
                 /\ pc'[c] = next
  BY CurrentToken, TokenFacts DEF Advance, TypeOK

(* Going down moves one call to the previous reservation or to its next    *)
(* loop.                                                                   *)
LEMMA DescendEffect ==
    ASSUME TypeOK, NEW c \in Calls, NEW next, Descend(c, next)
    PROVE  /\ \A d \in Calls \ {c} : pc'[d] = pc[d] /\ idx'[d] = idx[d]
           /\ \/ /\ idx[c] > 1
                 /\ idx'[c] = idx[c] - 1
                 /\ pc'[c] = pc[c]
              \/ /\ idx[c] = 1
                 /\ idx'[c] = Len(Plan[c])
                 /\ pc'[c] = next
  BY CurrentToken, TokenFacts DEF Descend, TypeOK

(* A denial sends one call to its last reservation, to release it.         *)
LEMMA AbortEffect ==
    ASSUME TypeOK, NEW c \in Calls, NEW why, Abort(c, why)
    PROVE  /\ \A d \in Calls \ {c} : /\ pc'[d] = pc[d]
                                     /\ idx'[d] = idx[d]
                                     /\ code'[d] = code[d]
           /\ pc'[c] \in {"release", "drop"}
           /\ idx'[c] = Len(Plan[c])
           /\ code'[c] = why
  BY DEF Abort, TypeOK

(* The denial codes a call can pass to Abort. *)
LEMMA DenialCodes ==
    ASSUME TypeOK, NEW c \in Calls
    PROVE  /\ SpecOf(Tok(c)).code \notin {"none", "ALLOW"}
           /\ RefusalCode(c) \notin {"none", "ALLOW"}
           /\ StateFailure(c) \notin {"none", "ALLOW"}
  BY CurrentToken DEF RefusalCode, StateFailure

----------------------------------------------------------------------------
(* The part of the invariant about the stores. *)

StoreInv == TokenDiscipline /\ CommittedIsSeen /\ ReservedIsFresh /\ SoleConsumer

(* It speaks of nothing but the stores. *)
LEMMA StoreFrame ==
    ASSUME StoreInv, UNCHANGED store
    PROVE  StoreInv'
  BY DEF StoreInv, store, TokenDiscipline, CommittedIsSeen, ReservedIsFresh,
         SoleConsumer, Holds

(* An append to a caller's list disturbs no reservation.                   *)
LEMMA AppendKeepsStore ==
    ASSUME TypeOK, StoreInv, NEW t \in Tokens, ListAppend(t)
    PROVE  StoreInv'
<1>1. /\ \A u \in Tokens : Slot(u) = Slot(t) => IsList(u)
      /\ seen' = seen \cup {Slot(t)}
      /\ reserved' = reserved /\ res' = res
  BY SlotKind DEF ListAppend
<1>2. QED
  BY <1>1 DEF StoreInv, TokenDiscipline, CommittedIsSeen, ReservedIsFresh,
              SoleConsumer, Holds

(* Granting a reservation: the slot was free, so nobody else is on record  *)
(* for it and it has not been used.                                        *)
LEMMA GrantKeepsStore ==
    ASSUME TypeOK, StoreInv, NEW c \in Calls, ReserveGranted(c),
           res[Tok(c)] = "none"
    PROVE  StoreInv'
<1> DEFINE t == Tok(c)
<1>1. t \in Tokens /\ Slot(t) \in Slots
  BY CurrentToken
<1>2. /\ Slot(t) \notin seen
      /\ reserved[Slot(t)] = NoToken
      /\ NoToken \notin Tokens
      /\ seen' = seen
  BY PlanAssumption DEF ReserveGranted, IsFree
<1>3. \A u \in Tokens : res'[u] = IF u = t THEN "active" ELSE res[u]
  BY <1>1 DEF ReserveGranted, TypeOK
<1>4. \A u \in Tokens : reserved'[Slot(u)] = IF Slot(u) = Slot(t) THEN t ELSE reserved[Slot(u)]
  BY <1>1, TokenFacts DEF ReserveGranted, TypeOK
<1> HIDE DEF t
<1>5. TokenDiscipline'
  BY <1>1, <1>2, <1>3, <1>4 DEF StoreInv, TokenDiscipline, Holds
<1>6. CommittedIsSeen' /\ SoleConsumer'
  BY <1>2, <1>3 DEF StoreInv, CommittedIsSeen, SoleConsumer
<1>7. ReservedIsFresh'
  BY <1>1, <1>2, <1>4 DEF StoreInv, ReservedIsFresh, Holds
<1>8. QED
  BY <1>5, <1>6, <1>7 DEF StoreInv

(* Taking the token of an active reservation off the record. *)
LEMMA UnreserveEffect ==
    ASSUME TypeOK, NEW t \in Tokens, Holds(t), reserved' = Unreserve(t)
    PROVE  \A u \in Tokens : reserved'[Slot(u)] =
               IF Slot(u) = Slot(t) THEN NoToken ELSE reserved[Slot(u)]
  BY TokenFacts DEF Unreserve, TypeOK

(* A commit that succeeds is of the reservation on record, and its slot    *)
(* was not used up.                                                        *)
LEMMA CommitKeepsStore ==
    ASSUME TypeOK, StoreInv, NEW c \in Calls,
           res[Tok(c)] = "active",
           \/ CommitResult(Tok(c)) /\ CommitEffect(Tok(c), "committed")
           \/ ~CommitResult(Tok(c)) /\ CommitEffect(Tok(c), "closed")
    PROVE  StoreInv' /\ (CommitResult(Tok(c)) => Slot(Tok(c)) \notin seen)
<1> DEFINE t == Tok(c)
<1>1. t \in Tokens /\ Slot(t) \in Slots /\ NoToken \notin Tokens
  BY CurrentToken, PlanAssumption
<1>2. Holds(t)
  BY <1>1 DEF StoreInv, TokenDiscipline
<1>3. CommitResult(t) => Slot(t) \notin seen
  BY <1>1, <1>2 DEF CommitResult, StoreInv, ReservedIsFresh
<1>4. \A u \in Tokens : res'[u] = IF u = t THEN (IF CommitResult(t) THEN "committed" ELSE "closed")
                                         ELSE res[u]
  BY <1>1 DEF CommitEffect, TypeOK
<1>5. seen' = seen \cup {Slot(t)}
  BY <1>2 DEF CommitEffect
<1>6. \A u \in Tokens : reserved'[Slot(u)] =
                          IF Slot(u) = Slot(t) THEN NoToken ELSE reserved[Slot(u)]
  BY <1>1, <1>2, UnreserveEffect DEF CommitEffect
<1> HIDE DEF t
<1>7. TokenDiscipline'
  BY <1>1, <1>2, <1>4, <1>6 DEF StoreInv, TokenDiscipline, Holds
<1>8. CommittedIsSeen'
  BY <1>4, <1>5 DEF StoreInv, CommittedIsSeen
<1>9. ReservedIsFresh'
  BY <1>1, <1>5, <1>6 DEF StoreInv, ReservedIsFresh, Holds
<1>10. SoleConsumer'
  BY <1>3, <1>4 DEF StoreInv, SoleConsumer, CommittedIsSeen
<1>11. QED
  BY <1>3, <1>7, <1>8, <1>9, <1>10 DEF StoreInv, t

(* Releasing takes only the releasing reservation off the record, or       *)
(* leaves it there when the store raises.                                  *)
LEMMA ReleaseKeepsStore ==
    ASSUME TypeOK, StoreInv, NEW c \in Calls,
           ReleaseActive(c) \/ ReleaseRaises(c) \/ ReleaseSkips(c)
    PROVE  StoreInv'
<1> DEFINE t == Tok(c)
<1>1. t \in Tokens /\ Slot(t) \in Slots /\ NoToken \notin Tokens
  BY CurrentToken, PlanAssumption
<1>2. CASE ReleaseActive(c)
  <2>1. Holds(t) /\ seen' = seen /\ res[t] = "active"
    BY <1>1, <1>2 DEF StoreInv, TokenDiscipline, ReleaseActive
  <2>2. \A u \in Tokens : res'[u] = IF u = t THEN "closed" ELSE res[u]
    BY <1>1, <1>2 DEF ReleaseActive, TypeOK
  <2>3. \A u \in Tokens : reserved'[Slot(u)] =
                            IF Slot(u) = Slot(t) THEN NoToken ELSE reserved[Slot(u)]
    BY <1>1, <1>2, <2>1, UnreserveEffect DEF ReleaseActive
  <2> HIDE DEF t
  <2>4. TokenDiscipline'
    BY <1>1, <2>1, <2>2, <2>3 DEF StoreInv, TokenDiscipline, Holds
  <2>5. CommittedIsSeen' /\ SoleConsumer'
    BY <2>1, <2>2 DEF StoreInv, CommittedIsSeen, SoleConsumer
  <2>6. ReservedIsFresh'
    BY <1>1, <2>1, <2>3 DEF StoreInv, ReservedIsFresh, Holds
  <2>7. QED
    BY <2>4, <2>5, <2>6 DEF StoreInv
<1>3. CASE ReleaseRaises(c)
  <2>1. /\ seen' = seen /\ reserved' = reserved
        /\ res[t] = "active" /\ MayRaise(t)
    BY <1>3 DEF ReleaseRaises
  <2>2. \A u \in Tokens : res'[u] = res[u] \/ (u = t /\ res'[u] = "lost")
    BY <1>1, <1>3 DEF ReleaseRaises, TypeOK
  <2> HIDE DEF t
  <2>3. QED
    BY <1>1, <2>1, <2>2 DEF StoreInv, TokenDiscipline, CommittedIsSeen,
                            ReservedIsFresh, SoleConsumer, Holds
<1>4. CASE ReleaseSkips(c)
  BY <1>4, StoreFrame DEF ReleaseSkips
<1>5. QED
  BY <1>2, <1>3, <1>4

----------------------------------------------------------------------------
(* The part of the invariant about the loops of each call. *)

ControlInv == LoopShape /\ CodeShape

(* The early look at a list happens before there is any reservation.       *)
LEMMA CheckKeepsControl ==
    ASSUME TypeOK, ControlInv, NEW c \in Calls, CheckPasses(c) \/ CheckDenies(c)
    PROVE  ControlInv'
<1>1. CASE CheckPasses(c)
  <2>1. Advance(c, "reserve") /\ res' = res /\ code' = code /\ pc[c] = "check"
    BY <1>1 DEF CheckPasses, store
  <2>2. LoopShape'
    BY <2>1, AdvanceEffect, TokenFacts
    DEF ControlInv, LoopShape, LoopShapeAt, Before, After
  <2>3. CodeShape'
    BY <2>1, AdvanceEffect, TokenFacts
    DEF ControlInv, CodeShape, CodeShapeAt, Allowed, Answered, TokensOf
  <2>4. QED
    BY <2>2, <2>3 DEF ControlInv
<1>2. CASE CheckDenies(c)
  <2>1. /\ res' = res /\ idx' = idx /\ pc[c] = "check"
        /\ \A d \in Calls \ {c} : pc'[d] = pc[d] /\ code'[d] = code[d]
        /\ pc'[c] = "done" /\ code'[c] = SpecOf(Tok(c)).code
    BY <1>2 DEF CheckDenies, store, TypeOK
  <2>2. LoopShape'
    BY <2>1, TokenFacts DEF ControlInv, LoopShape, LoopShapeAt, Before, After
  <2>3. CodeShape'
    BY <2>1, DenialCodes DEF ControlInv, CodeShape, CodeShapeAt, Allowed, Answered, TokensOf
  <2>4. QED
    BY <2>2, <2>3 DEF ControlInv
<1>3. QED
  BY <1>1, <1>2

(* A granted reservation extends the active prefix by one.                 *)
LEMMA GrantKeepsControl ==
    ASSUME TypeOK, ControlInv, NEW c \in Calls, ReserveGranted(c)
    PROVE  ControlInv'
<1>1. /\ Advance(c, "commit") /\ code' = code /\ pc[c] = "reserve"
      /\ \A u \in Tokens : res'[u] = IF u = Tok(c) THEN "active" ELSE res[u]
  BY CurrentToken DEF ReserveGranted, TypeOK
<1>2. \A d \in Calls \ {c} : pc'[d] = pc[d] /\ idx'[d] = idx[d]
  BY <1>1, AdvanceEffect
<1>3. ASSUME NEW u \in Tokens PROVE LoopShapeAt(u)'
  <2>1. /\ LoopShapeAt(u) /\ u[1] \in Calls /\ u[2] \in 1 .. Len(Plan[u[1]])
        /\ u = <<u[1], u[2]>>
    BY TokenFacts DEF ControlInv, LoopShape
  <2>2. CASE u[1] # c
    BY <1>1, <1>2, <2>1, <2>2 DEF LoopShapeAt, Before, After, Tok
  <2>3. CASE u[1] = c
    <3>1. u = Tok(c) <=> u[2] = idx[c]
      BY <2>1, <2>3 DEF Tok
    <3>2. Len(Plan[c]) \in Nat /\ idx[c] \in 1 .. Len(Plan[c])
      BY TokenFacts, CurrentToken
    <3>3. QED
      BY <1>1, <2>1, <2>3, <3>1, <3>2, AdvanceEffect DEF LoopShapeAt, Before, After
  <2>4. QED
    BY <2>2, <2>3
<1>4. ASSUME NEW d \in Calls PROVE CodeShapeAt(d)'
  <2>1. CASE d = c
    BY <1>1, <2>1, AdvanceEffect DEF ControlInv, CodeShape, CodeShapeAt, Allowed, Answered
  <2>2. CASE d # c
    <3>1. \A u \in TokensOf(d) : u \in Tokens /\ u # Tok(c)
      BY <2>2, TokenFacts DEF TokensOf, Tok
    <3>2. QED
      BY <1>1, <1>2, <2>2, <3>1 DEF ControlInv, CodeShape, CodeShapeAt, Allowed, Answered
  <2>3. QED
    BY <2>1, <2>2
<1>5. QED
  BY <1>3, <1>4 DEF ControlInv, LoopShape, CodeShape

(* A successful commit extends the committed prefix by one.                *)
LEMMA CommitKeepsControl ==
    ASSUME TypeOK, ControlInv, NEW c \in Calls, CommitSucceeds(c)
    PROVE  ControlInv'
<1>1. /\ Advance(c, "decide") /\ code' = code /\ pc[c] = "commit"
      /\ \A u \in Tokens : res'[u] = IF u = Tok(c) THEN "committed" ELSE res[u]
  BY CurrentToken DEF CommitSucceeds, CommitEffect, TypeOK
<1>2. \A d \in Calls \ {c} : pc'[d] = pc[d] /\ idx'[d] = idx[d]
  BY <1>1, AdvanceEffect
<1>3. ASSUME NEW u \in Tokens PROVE LoopShapeAt(u)'
  <2>1. /\ LoopShapeAt(u) /\ u[1] \in Calls /\ u[2] \in 1 .. Len(Plan[u[1]])
        /\ u = <<u[1], u[2]>>
    BY TokenFacts DEF ControlInv, LoopShape
  <2>2. CASE u[1] # c
    BY <1>1, <1>2, <2>1, <2>2 DEF LoopShapeAt, Before, After, Tok
  <2>3. CASE u[1] = c
    <3>1. u = Tok(c) <=> u[2] = idx[c]
      BY <2>1, <2>3 DEF Tok
    <3>2. Len(Plan[c]) \in Nat /\ idx[c] \in 1 .. Len(Plan[c])
      BY TokenFacts, CurrentToken
    <3>3. QED
      BY <1>1, <2>1, <2>3, <3>1, <3>2, AdvanceEffect DEF LoopShapeAt, Before, After
  <2>4. QED
    BY <2>2, <2>3
<1>4. ASSUME NEW d \in Calls PROVE CodeShapeAt(d)'
  <2>1. CASE d = c
    BY <1>1, <2>1, AdvanceEffect DEF ControlInv, CodeShape, CodeShapeAt, Allowed, Answered
  <2>2. CASE d # c
    <3>1. \A u \in TokensOf(d) : u \in Tokens /\ u # Tok(c)
      BY <2>2, TokenFacts DEF TokensOf, Tok
    <3>2. QED
      BY <1>1, <1>2, <2>2, <3>1 DEF ControlInv, CodeShape, CodeShapeAt, Allowed, Answered
  <2>3. QED
    BY <2>1, <2>2
<1>5. QED
  BY <1>3, <1>4 DEF ControlInv, LoopShape, CodeShape

(* A step that aborts touches at most the reservation being worked on. *)
LEMMA AbortKeepsControl ==
    ASSUME TypeOK, ControlInv, NEW c \in Calls,
           NEW why, why \notin {"none", "ALLOW"}, Abort(c, why),
           \A u \in Tokens : u # Tok(c) => res'[u] = res[u]
    PROVE  ControlInv'
<1>1. LoopShape'
  BY AbortEffect, TokenFacts, CurrentToken
  DEF ControlInv, LoopShape, LoopShapeAt, Before, After, Tok
<1>2. ASSUME NEW d \in Calls PROVE CodeShapeAt(d)'
  <2>1. CASE d = c
    BY <2>1, AbortEffect DEF CodeShapeAt, Allowed, Answered
  <2>2. CASE d # c
    <3>1. \A u \in TokensOf(d) : u \in Tokens /\ u # Tok(c)
      BY <2>2, TokenFacts DEF TokensOf, Tok
    <3>2. QED
      BY <2>2, <3>1, AbortEffect DEF ControlInv, CodeShape, CodeShapeAt, Allowed, Answered
  <2>3. QED
    BY <2>1, <2>2
<1>3. QED
  BY <1>1, <1>2 DEF ControlInv, CodeShape

(* ALLOW is answered when every reservation is committed.                  *)
LEMMA DecideKeepsControl ==
    ASSUME TypeOK, ControlInv, NEW c \in Calls, Decide(c)
    PROVE  ControlInv'
<1>1. /\ res' = res /\ idx' = idx /\ pc[c] = "decide"
      /\ \A d \in Calls \ {c} : pc'[d] = pc[d] /\ code'[d] = code[d]
      /\ pc'[c] = "done" /\ code'[c] = "ALLOW"
  BY DEF Decide, store, TypeOK
<1>2. LoopShape'
  BY <1>1, TokenFacts DEF ControlInv, LoopShape, LoopShapeAt, Before, After
<1>3. CodeShape'
  BY <1>1, OwnTokens DEF ControlInv, LoopShape, LoopShapeAt, CodeShape, CodeShapeAt,
                         Allowed, Answered
<1>4. QED
  BY <1>2, <1>3 DEF ControlInv

(* The release loops leave fewer and fewer active reservations behind.     *)
LEMMA ReleaseKeepsControl ==
    ASSUME TypeOK, ControlInv, NEW c \in Calls,
           ReleaseActive(c) \/ ReleaseRaises(c) \/ ReleaseSkips(c)
    PROVE  ControlInv'
<1>1. /\ Descend(c, NextLoop(c)) /\ code' = code
      /\ pc[c] \in {"release", "drop"}
      /\ \A u \in Tokens : u # Tok(c) => res'[u] = res[u]
      /\ pc[c] = "drop" => res'[Tok(c)] # "active"
      /\ Tok(c) \in Tokens /\ Tok(c)[1] = c
  BY CurrentToken
  DEF ReleaseActive, ReleaseRaises, ReleaseSkips, Releasing, TypeOK, store
<1>2. LoopShape'
  BY <1>1, DescendEffect, TokenFacts, CurrentToken
  DEF ControlInv, LoopShape, LoopShapeAt, Before, After, Tok, NextLoop
<1>3. CodeShape'
  BY <1>1, DescendEffect, TokenFacts
  DEF ControlInv, CodeShape, CodeShapeAt, Allowed, Answered, TokensOf, NextLoop
<1>4. QED
  BY <1>2, <1>3 DEF ControlInv

----------------------------------------------------------------------------
(* The inductive invariant *)

(* The invariant holds before any call.                                    *)
LEMMA InitInvariant == Init => IInv
<1> SUFFICES ASSUME Init PROVE IInv
  OBVIOUS
<1>1. TypeOK
  BY TokenFacts DEF Init, TypeOK, ReservationStates, Phases, Codes
<1>2. LoopShape /\ CodeShape
  BY TokenFacts DEF Init, LoopShape, LoopShapeAt, CodeShape, CodeShapeAt, Allowed, Answered
<1>3. TokenDiscipline /\ CommittedIsSeen /\ ReservedIsFresh /\ SoleConsumer
  BY TokenFacts, PlanAssumption
  DEF Init, TokenDiscipline, CommittedIsSeen, ReservedIsFresh, SoleConsumer, Holds
<1>4. QED
  BY <1>1, <1>2, <1>3 DEF IInv

(* Every step of a call and every append keeps the invariant.              *)
LEMMA InvariantStep == IInv /\ [Next]_vars => IInv'
<1> SUFFICES ASSUME IInv, [Next]_vars PROVE IInv'
  OBVIOUS
<1>0. TypeOK /\ TypeOK' /\ ControlInv /\ StoreInv
  BY TypeStep DEF IInv, ControlInv, StoreInv
<1>1. CASE UNCHANGED vars
  <2>1. StoreInv'
    BY <1>0, <1>1, StoreFrame DEF vars, store
  <2>2. ControlInv'
    BY <1>0, <1>1 DEF vars, ControlInv, LoopShape, LoopShapeAt, CodeShape, CodeShapeAt,
                      Allowed, Answered, Before, After
  <2>3. QED
    BY <1>0, <2>1, <2>2 DEF IInv, ControlInv, StoreInv
<1>2. ASSUME NEW t \in Tokens, ListAppend(t) PROVE IInv'
  <2>1. StoreInv'
    BY <1>0, <1>2, AppendKeepsStore
  <2>2. ControlInv'
    BY <1>0, <1>2 DEF ListAppend, ControlInv, LoopShape, LoopShapeAt, CodeShape, CodeShapeAt,
                      Allowed, Answered, Before, After
  <2>3. QED
    BY <1>0, <2>1, <2>2 DEF IInv, ControlInv, StoreInv
<1>3. ASSUME NEW c \in Calls, Step(c) PROVE ControlInv' /\ StoreInv'
  <2>0. /\ LoopShapeAt(Tok(c))
        /\ Tok(c) \in Tokens /\ Tok(c)[1] = c /\ Tok(c)[2] = idx[c]
        /\ idx[c] \in Nat
    BY <1>0, CurrentToken DEF ControlInv, LoopShape, TypeOK
  <2>1. CASE CheckPasses(c) \/ CheckDenies(c)
    BY <1>0, <2>1, CheckKeepsControl, StoreFrame DEF CheckPasses, CheckDenies
  <2>2. CASE ReserveGranted(c)
    <3>1. res[Tok(c)] = "none"
      BY <2>0, <2>2 DEF ReserveGranted, LoopShapeAt, Before
    <3>2. QED
      BY <1>0, <2>2, <3>1, GrantKeepsControl, GrantKeepsStore
  <2>3. CASE ReserveRefused(c) \/ ReserveRaises(c) \/ CommitRaises(c)
    <3>1. UNCHANGED store /\ res' = res
      BY <2>3 DEF ReserveRefused, ReserveRaises, CommitRaises, store
    <3>2. \E why : why \notin {"none", "ALLOW"} /\ Abort(c, why)
      BY <1>0, <2>3, DenialCodes DEF ReserveRefused, ReserveRaises, CommitRaises
    <3>3. QED
      BY <1>0, <3>1, <3>2, AbortKeepsControl, StoreFrame
  <2>4. CASE CommitSucceeds(c) \/ CommitRefused(c)
    <3>1. res[Tok(c)] = "active"
      BY <2>0, <2>4 DEF CommitSucceeds, CommitRefused, LoopShapeAt, Before
    <3>2. StoreInv'
      BY <1>0, <2>4, <3>1, CommitKeepsStore DEF CommitSucceeds, CommitRefused
    <3>3. CASE CommitSucceeds(c)
      BY <1>0, <3>2, <3>3, CommitKeepsControl
    <3>4. CASE CommitRefused(c)
      <4>1. /\ Abort(c, RefusalCode(c))
            /\ \A u \in Tokens : u # Tok(c) => res'[u] = res[u]
        BY <1>0, <3>4 DEF CommitRefused, CommitEffect, TypeOK
      <4>2. QED
        BY <1>0, <3>2, <4>1, DenialCodes, AbortKeepsControl
    <3>5. QED
      BY <2>4, <3>3, <3>4
  <2>5. CASE Decide(c)
    BY <1>0, <2>5, DecideKeepsControl, StoreFrame DEF Decide
  <2>6. CASE ReleaseActive(c) \/ ReleaseRaises(c) \/ ReleaseSkips(c)
    BY <1>0, <2>6, ReleaseKeepsControl, ReleaseKeepsStore
  <2>7. QED
    BY <1>3, <2>1, <2>2, <2>3, <2>4, <2>5, <2>6 DEF Step
<1>4. QED
  BY <1>0, <1>1, <1>2, <1>3 DEF Next, IInv, ControlInv, StoreInv

(* The inductive invariant holds in every behaviour. *)
THEOREM Invariance == Spec => []IInv
  BY InitInvariant, InvariantStep, PTL DEF Spec

----------------------------------------------------------------------------
(* What follows from it *)

(* A live reservation object is the one the store has on record; a dead    *)
(* one is on record only if all its releases raised.                       *)
THEOREM TokensAreKept == Spec => []TokenDiscipline
<1>1. IInv => TokenDiscipline
  BY DEF IInv
<1>2. QED
  BY <1>1, Invariance, PTL

(* However many calls present a nonce, at most one commits it. *)
THEOREM AtMostOneCommit == Spec => []SoleConsumer
<1>1. IInv => SoleConsumer
  BY DEF IInv
<1>2. QED
  BY <1>1, Invariance, PTL

(* A call that has answered holds nothing, unless every release raised. *)
THEOREM NothingLeaks == Spec => []NoReservationLeaks
<1>1. IInv => NoReservationLeaks
  BY DEF IInv, NoReservationLeaks, TokenDiscipline, LoopShape, LoopShapeAt, Answered
<1>2. QED
  BY <1>1, Invariance, PTL

(* Two allowed calls share no nonce, and each has used up all of its own. *)
LEMMA InvariantAllows == IInv => AllowIsExclusive
<1> SUFFICES ASSUME IInv, NEW c \in Calls, Allowed(c) PROVE
       /\ \A t \in TokensOf(c) : res[t] = "committed" /\ Slot(t) \in seen
       /\ \A d \in Calls \ {c} : Allowed(d) =>
             {Slot(t) : t \in TokensOf(c)} \cap {Slot(t) : t \in TokensOf(d)} = {}
  BY DEF AllowIsExclusive
<1>1. \A d \in Calls : Allowed(d) => \A t \in TokensOf(d) :
         t \in Tokens /\ res[t] = "committed" /\ t[1] = d
  BY TokenFacts DEF IInv, CodeShape, CodeShapeAt, TokensOf
<1>2. \A t \in TokensOf(c) : Slot(t) \in seen
  BY <1>1 DEF IInv, CommittedIsSeen
<1>3. ASSUME NEW d \in Calls \ {c}, Allowed(d),
             NEW t \in TokensOf(c), NEW u \in TokensOf(d), Slot(t) = Slot(u)
      PROVE  FALSE
  BY <1>1, <1>3 DEF IInv, SoleConsumer
<1>4. QED
  BY <1>1, <1>2, <1>3

(* Concurrent calls: two ALLOW answers never rest on the same nonce.       *)
THEOREM AllowsAreExclusive == Spec => []AllowIsExclusive
  BY InvariantAllows, Invariance, PTL

(* A nonce is used up only by the reservation that holds it, and stays so. *)
LEMMA HolderStep == IInv /\ [Next]_vars => [HolderCommits]_vars
<1> SUFFICES ASSUME IInv, Next PROVE HolderCommits
  OBVIOUS
<1>0. TypeOK /\ StoreInv
  BY DEF IInv, StoreInv
<1>1. ASSUME NEW t \in Tokens, ListAppend(t) PROVE HolderCommits
  BY <1>1 DEF ListAppend, HolderCommits
<1>2. ASSUME NEW c \in Calls, Step(c) PROVE HolderCommits
  <2>0. Tok(c) \in Tokens /\ LoopShapeAt(Tok(c)) /\ Tok(c)[1] = c
        /\ idx[c] \in Nat /\ Tok(c)[2] = idx[c]
    BY <1>0, CurrentToken DEF IInv, LoopShape, TypeOK
  <2>1. CASE CommitSucceeds(c) \/ CommitRefused(c)
    <3>1. res[Tok(c)] = "active"
      BY <2>0, <2>1 DEF CommitSucceeds, CommitRefused, LoopShapeAt, Before
    <3>2. Holds(Tok(c)) /\ (CommitResult(Tok(c)) => Slot(Tok(c)) \notin seen)
      BY <1>0, <2>0, <2>1, <3>1, CommitKeepsStore
      DEF CommitSucceeds, CommitRefused, StoreInv, TokenDiscipline
    <3>3. seen' = seen \cup {Slot(Tok(c))}
      BY <2>1, <3>2 DEF CommitSucceeds, CommitRefused, CommitEffect
    <3>4. \A u \in Tokens : res'[u] = "committed" => res[u] = "committed"
                            \/ (u = Tok(c) /\ CommitResult(u))
      BY <1>0, <2>0, <2>1 DEF CommitSucceeds, CommitRefused, CommitEffect, TypeOK
    <3>5. QED
      BY <3>2, <3>3, <3>4 DEF HolderCommits
  <2>2. CASE ~(CommitSucceeds(c) \/ CommitRefused(c))
    <3>1. seen' = seen /\ \A u \in Tokens : res'[u] = "committed" => res[u] = "committed"
      BY <1>0, <1>2, <2>0, <2>2
      DEF Step, CheckPasses, CheckDenies, ReserveGranted, ReserveRefused, ReserveRaises,
          CommitRaises, Decide, ReleaseActive, ReleaseRaises, ReleaseSkips, store, TypeOK
    <3>2. QED
      BY <3>1 DEF HolderCommits
  <2>3. QED
    BY <2>1, <2>2
<1>3. QED
  BY <1>1, <1>2 DEF Next

(* Every nonce that becomes used up is used up by its holder, and for      *)
(* ever.                                                                   *)
THEOREM HoldersConsume == Spec => ConsumedByHolder
  BY Invariance, HolderStep, PTL DEF Spec, ConsumedByHolder

----------------------------------------------------------------------------
(* What a denial costs *)

(* A reservation is committed only by a commit that succeeds, of a call    *)
(* that has no answer yet; and it stays committed.                         *)
LEMMA CommittedChange ==
    ASSUME IInv, NEW c \in Calls, Step(c)
    PROVE  /\ \A u \in Tokens : res'[u] = "committed" <=>
                  res[u] = "committed" \/ (CommitSucceeds(c) /\ u = Tok(c))
           /\ CommitSucceeds(c) => code[c] = "none" /\ code' = code
<1>1. TypeOK /\ Tok(c) \in Tokens /\ LoopShapeAt(Tok(c)) /\ CodeShapeAt(c)
      /\ Tok(c)[1] = c /\ Tok(c)[2] = idx[c] /\ idx[c] \in Nat
  BY CurrentToken DEF IInv, LoopShape, CodeShape, TypeOK
<1>2. CASE CommitSucceeds(c)
  BY <1>1, <1>2 DEF CommitSucceeds, CommitEffect, CodeShapeAt, TypeOK
<1>3. CASE CommitRefused(c)
  <2>1. res[Tok(c)] = "active"
    BY <1>1, <1>3 DEF CommitRefused, LoopShapeAt, Before
  <2>2. ~CommitSucceeds(c)
    BY <1>3 DEF CommitRefused, CommitSucceeds
  <2>3. QED
    BY <1>1, <1>3, <2>1, <2>2 DEF CommitRefused, CommitEffect, TypeOK
<1>4. CASE ReserveGranted(c)
  <2>1. res[Tok(c)] = "none" /\ ~CommitSucceeds(c)
    BY <1>1, <1>4 DEF ReserveGranted, CommitSucceeds, LoopShapeAt, Before
  <2>2. QED
    BY <1>1, <1>4, <2>1 DEF ReserveGranted, TypeOK
<1>5. CASE ReleaseActive(c) \/ ReleaseRaises(c)
  <2>1. res[Tok(c)] = "active" /\ ~CommitSucceeds(c)
    BY <1>5 DEF ReleaseActive, ReleaseRaises, CommitSucceeds, Releasing
  <2>2. QED
    BY <1>1, <1>5, <2>1 DEF ReleaseActive, ReleaseRaises, TypeOK
<1>6. CASE ~CommitSucceeds(c) /\ res' = res
  BY <1>6
<1>7. QED
  BY <1>2, <1>3, <1>4, <1>5, <1>6
  DEF Step, CheckPasses, CheckDenies, ReserveRefused, ReserveRaises, CommitRaises,
      Decide, ReleaseSkips, store

(* A call gets its denial while it checks, reserves or commits, and one    *)
(* that names a replay only from the first two or from a refused commit.   *)
LEMMA DenialChange ==
    ASSUME IInv, NEW c \in Calls, Step(c),
           NEW d \in Calls, code'[d] \notin {"none", "ALLOW"}, code'[d] # code[d]
    PROVE  /\ d = c
           /\ pc[c] \in {"check", "reserve", "commit"}
           /\ ~CommitSucceeds(c)
           /\ code'[c] \in {"ANTI_REPLAY_FAILURE", "CAPABILITY_REPLAY"} =>
                  pc[c] \in {"check", "reserve"} \/ CommitRefused(c)
<1>1. TypeOK
  BY DEF IInv
<1>2. CASE CheckDenies(c)
  BY <1>1, <1>2 DEF CheckDenies, CommitSucceeds, TypeOK
<1>3. CASE ReserveRefused(c) \/ ReserveRaises(c)
  BY <1>1, <1>3, AbortEffect DEF ReserveRefused, ReserveRaises, CommitSucceeds
<1>4. CASE CommitRefused(c)
  BY <1>1, <1>4, AbortEffect DEF CommitRefused, CommitSucceeds
<1>5. CASE CommitRaises(c) /\ ~CommitSucceeds(c)
  BY <1>1, <1>5, AbortEffect DEF CommitRaises, StateFailure
<1>6. CASE Decide(c)
  BY <1>1, <1>6 DEF Decide, TypeOK
<1>7. CASE code' = code
  BY <1>7
<1>8. QED
  BY <1>2, <1>3, <1>4, <1>5, <1>6, <1>7
  DEF Step, CheckPasses, ReserveGranted, CommitSucceeds, ReleaseActive, ReleaseRaises,
      ReleaseSkips

(* Within a call the nonces are committed in order, and a call that is     *)
(* going to deny has not committed its last one.                           *)
CommittedInOrder ==
    \A t, u \in Tokens :
        t[1] = u[1] /\ t[2] < u[2] /\ res[u] = "committed" => res[t] = "committed"

LastIsSpared ==
    \A t \in Tokens :
        code[t[1]] \notin {"none", "ALLOW"} /\ t[2] = Len(Plan[t[1]]) => res[t] # "committed"

(* Commits go in the order of the plan, and every step keeps it so.        *)
LEMMA OrderStep ==
    ASSUME IInv, CommittedInOrder, NEW c \in Calls, Step(c)
    PROVE  CommittedInOrder'
<1> SUFFICES ASSUME NEW t \in Tokens, NEW u \in Tokens,
                    t[1] = u[1], t[2] < u[2], res'[u] = "committed"
             PROVE  res'[t] = "committed"
  BY DEF CommittedInOrder
<1>1. CASE res[u] = "committed"
  BY <1>1, CommittedChange DEF CommittedInOrder
<1>2. CASE CommitSucceeds(c) /\ u = Tok(c)
  <2>1. t[1] = c /\ Before(t) /\ LoopShapeAt(t)
    BY <1>2, CurrentToken DEF Before, IInv, LoopShape
  <2>2. res[t] = "committed"
    BY <1>2, <2>1 DEF LoopShapeAt, CommitSucceeds
  <2>3. QED
    BY <2>2, CommittedChange
<1>3. QED
  BY <1>1, <1>2, CommittedChange

(* A call that is denied after a commit has stopped before its last one.   *)
LEMMA SparedStep ==
    ASSUME IInv, LastIsSpared, NEW c \in Calls, Step(c)
    PROVE  LastIsSpared'
<1> SUFFICES ASSUME NEW t \in Tokens, code'[t[1]] \notin {"none", "ALLOW"},
                    t[2] = Len(Plan[t[1]])
             PROVE  res'[t] # "committed"
  BY DEF LastIsSpared
<1>0. TypeOK /\ t[1] \in Calls
  BY TokenFacts DEF IInv
<1>1. CASE code'[t[1]] = code[t[1]]
  <2>1. res[t] # "committed"
    BY <1>1 DEF LastIsSpared
  <2>2. ~(CommitSucceeds(c) /\ t = Tok(c))
    BY <1>0, <1>1, CommittedChange, CurrentToken
  <2>3. QED
    BY <2>1, <2>2, CommittedChange
<1>2. CASE code'[t[1]] # code[t[1]]
  <2>1. t[1] = c /\ pc[c] \in {"check", "reserve", "commit"} /\ ~CommitSucceeds(c)
    BY <1>0, <1>2, DenialChange
  <2>2. LoopShapeAt(t) /\ ~(pc[c] = "commit" /\ Before(t))
    BY <1>0, <2>1, CurrentToken, TokenFacts DEF Before, IInv, LoopShape
  <2>3. res[t] # "committed"
    BY <2>1, <2>2 DEF LoopShapeAt
  <2>4. QED
    BY <2>1, <2>3, CommittedChange
<1>3. QED
  BY <1>1, <1>2

(* A denial that uses anything up stopped half-way through the commit      *)
(* loop (verifier.py, _commit_all): whatever raises, and whoever           *)
(* interferes, it uses up a proper prefix of its nonces.                   *)
THEOREM DenialsBurnPrefixes == Spec => []BurnIsProperPrefix
<1> DEFINE Burnt == CommittedInOrder /\ LastIsSpared
<1>1. Init => Burnt
  BY TokenFacts DEF Init, CommittedInOrder, LastIsSpared
<1>2. IInv /\ Burnt /\ [Next]_vars => Burnt'
  <2> SUFFICES ASSUME IInv, Burnt, [Next]_vars PROVE Burnt'
    OBVIOUS
  <2>1. CASE res' = res /\ code' = code
    BY <2>1 DEF CommittedInOrder, LastIsSpared
  <2>2. CASE \E c \in Calls : Step(c)
    BY <2>2, OrderStep, SparedStep
  <2>3. QED
    BY <2>1, <2>2 DEF Next, ListAppend, vars
<1>3. IInv /\ Burnt => BurnIsProperPrefix
  <2> SUFFICES ASSUME IInv, Burnt, NEW c \in Calls, Denied(c)
               PROVE  /\ res[<<c, Len(Plan[c])>>] # "committed"
                      /\ \A i, j \in DOMAIN Plan[c] :
                            i < j /\ res[<<c, j>>] = "committed" => res[<<c, i>>] = "committed"
    BY DEF BurnIsProperPrefix
  <2>1. code[c] \notin {"none", "ALLOW"}
    BY DEF IInv, CodeShape, CodeShapeAt, Denied, Answered
  <2>2. \A i \in DOMAIN Plan[c] : <<c, i>> \in Tokens
    BY TokenFacts
  <2>3. <<c, Len(Plan[c])>> \in Tokens
    BY <2>2, TokenFacts
  <2>4. res[<<c, Len(Plan[c])>>] # "committed"
    BY <2>1, <2>3 DEF LastIsSpared
  <2>5. ASSUME NEW i \in DOMAIN Plan[c], NEW j \in DOMAIN Plan[c],
               i < j, res[<<c, j>>] = "committed"
        PROVE  res[<<c, i>>] = "committed"
    BY <2>2, <2>5 DEF CommittedInOrder
  <2>6. QED
    BY <2>4, <2>5
<1>4. QED
  BY <1>1, <1>2, <1>3, Invariance, PTL DEF Spec

(* Without lists a call that is told "replayed" has been refused at        *)
(* reserve(), before it committed anything.                                *)
RefusedIsFree ==
    \A t \in Tokens :
        code[t[1]] \in {"ANTI_REPLAY_FAILURE", "CAPABILITY_REPLAY"} => res[t] # "committed"

(* A replayed nonce costs nothing, in any mix of memory and SQLite caches, *)
(* however their methods fail: in particular a replayed capability does    *)
(* not use up the receipt nonce that was reserved before it.               *)
THEOREM RefusalsAreFree ==
    ASSUME ListStores = {}
    PROVE  Spec => []RefusalConsumesNothing
<1>1. Init => RefusedIsFree
  BY TokenFacts DEF Init, RefusedIsFree
<1>2. IInv /\ RefusedIsFree /\ [Next]_vars => RefusedIsFree'
  <2> SUFFICES ASSUME IInv, RefusedIsFree, NEW c \in Calls, Step(c), NEW t \in Tokens,
                      code'[t[1]] \in {"ANTI_REPLAY_FAILURE", "CAPABILITY_REPLAY"}
               PROVE  res'[t] # "committed"
    BY DEF RefusedIsFree, Next, ListAppend, vars
  <2>0. TypeOK /\ t[1] \in Calls /\ LoopShapeAt(t)
    BY TokenFacts DEF IInv, LoopShape
  <2>1. CASE code'[t[1]] = code[t[1]]
    BY <2>0, <2>1, CommittedChange, CurrentToken DEF RefusedIsFree
  <2>2. CASE code'[t[1]] # code[t[1]]
    <3>1. t[1] = c /\ (pc[c] \in {"check", "reserve"} \/ CommitRefused(c)) /\ ~CommitSucceeds(c)
      BY <2>0, <2>2, DenialChange
    <3>2. ~CommitRefused(c)
      <4>1. CASE pc[c] = "commit"
        <5>0. Tok(c) \in Tokens /\ LoopShapeAt(Tok(c)) /\ Tok(c)[1] = c /\ ~Before(Tok(c))
          BY <2>0, CurrentToken DEF IInv, LoopShape, Before, TypeOK
        <5>1. res[Tok(c)] = "active"
          BY <4>1, <5>0 DEF LoopShapeAt
        <5>2. Holds(Tok(c)) /\ ~IsList(Tok(c))
          BY <5>0, <5>1 DEF IInv, TokenDiscipline, IsList
        <5>3. QED
          BY <5>2 DEF CommitRefused, CommitResult
      <4>2. QED
        BY <4>1 DEF CommitRefused
    <3>3. res[t] # "committed"
      BY <2>0, <3>1, <3>2 DEF LoopShapeAt
    <3>4. QED
      BY <3>1, <3>3, CommittedChange
  <2>3. QED
    BY <2>1, <2>2
<1>3. RefusedIsFree => RefusalConsumesNothing
  BY OwnTokens DEF RefusedIsFree, RefusalConsumesNothing
<1>4. QED
  BY <1>1, <1>2, <1>3, Invariance, PTL DEF Spec

----------------------------------------------------------------------------
(* Why calls do not all lose *)

Refused(c) == code[c] \in {"ANTI_REPLAY_FAILURE", "CAPABILITY_REPLAY"}

(* All plans go through the slots in one order. *)
Ranks(rank) ==
    /\ rank \in [Slots -> Nat]
    /\ \A t, u \in Tokens :
          t[1] = u[1] /\ t[2] < u[2] => rank[Slot(t)] < rank[Slot(u)]

(* Every reservation c ever had comes before one that e has now. *)
Ahead(rank, e, c) ==
    \E u \in Tokens :
        /\ u[1] = e /\ res[u] = "active"
        /\ \A t \in Tokens :
              t[1] = c /\ res[t] # "none" => rank[Slot(t)] < rank[Slot(u)]

(* Ahead of each call that was refused there is one still without a code.  *)
SomebodyAhead(rank) ==
    \A c \in Calls : Refused(c) =>
        \E e \in Calls : code[e] = "none" /\ Ahead(rank, e, c)

(* A nonce has been used up, or a store could not be used.                 *)
Excused == seen # {} \/ \E c \in Calls : code[c] = StateFailure(c)

(* The record of a slot is of a reservation of that slot.                  *)
RecordsFit == \A s \in Slots : reserved[s] # NoToken => Slot(reserved[s]) = s

CodesFit == \A c \in Calls : code[c] \in {"none", "ALLOW", StateFailure(c)} \/ Refused(c)

WinInv(rank) == RecordsFit /\ CodesFit /\ (Excused \/ SomebodyAhead(rank))

(* While nobody has used anything up and every store works, no call has    *)
(* committed, none has been refused a commit or by a look at a list.       *)
LEMMA UnexcusedSteps ==
    ASSUME IInv, NEW c \in Calls, Step(c), ~Excused'
    PROVE  /\ ~Excused
           /\ ~CheckDenies(c) /\ ~CommitSucceeds(c) /\ ~CommitRefused(c)
           /\ ~ReserveRaises(c) /\ ~CommitRaises(c) /\ ~Decide(c)
           /\ \A d \in Calls : code[d] # "ALLOW"
           /\ \A t \in Tokens : res[t] # "committed"
<1>0. /\ TypeOK /\ LoopShape /\ CodeShape /\ TokenDiscipline /\ CommittedIsSeen
      /\ Tok(c) \in Tokens /\ Tok(c)[1] = c /\ Tok(c)[2] = idx[c] /\ idx[c] \in Nat
      /\ LoopShapeAt(Tok(c)) /\ Slot(Tok(c)) \in Slots
      /\ RefusalCode(c) # StateFailure(c)
      /\ seen' = {}
  BY CurrentToken DEF IInv, LoopShape, TypeOK, RefusalCode, StateFailure, Excused
<1>1. seen = {}
  BY <1>0, HolderStep DEF HolderCommits, Next, vars
<1>2. \A t \in Tokens : res[t] # "committed"
  BY <1>0, <1>1 DEF CommittedIsSeen
<1>3. ASSUME NEW d \in Calls PROVE code[d] # "ALLOW"
  <2>1. CodeShapeAt(d) /\ pc[d] \in Phases
    BY <1>0 DEF CodeShape, TypeOK
  <2>2. \E t \in TokensOf(d) : t \in Tokens
    BY FirstToken
  <2>3. QED
    BY <1>2, <2>1, <2>2 DEF CodeShapeAt, Allowed, Answered, Phases
<1>4. ~CheckDenies(c)
  BY <1>1 DEF CheckDenies
<1>5. ~ReserveRaises(c) /\ ~CommitRaises(c)
  BY <1>0, AbortEffect DEF ReserveRaises, CommitRaises, Excused, StateFailure
<1>6. ASSUME pc[c] = "commit" PROVE Holds(Tok(c)) /\ CommitResult(Tok(c))
  BY <1>0, <1>1, <1>6 DEF LoopShapeAt, Before, TokenDiscipline, CommitResult
<1>7. ~CommitRefused(c)
  BY <1>6 DEF CommitRefused
<1>8. ~CommitSucceeds(c)
  BY <1>0, <1>6 DEF CommitSucceeds, CommitEffect
<1>9. ~Decide(c)
  BY <1>0, <1>2 DEF Decide, LoopShapeAt
<1>10. ~Excused
  <2>1. ASSUME NEW d \in Calls, code[d] = StateFailure(d) PROVE FALSE
    <3>1. code'[d] = code[d]
      <4>1. CASE d # c
        BY <1>0, <1>4, <1>5, <1>7, <1>8, <1>9, <4>1, AbortEffect
        DEF Step, CheckPasses, ReserveGranted, ReserveRefused, ReleaseActive, ReleaseRaises,
            ReleaseSkips
      <4>2. CASE d = c
        <5>1. CodeShapeAt(c)
          BY <1>0 DEF CodeShape
        <5>2. ~ReserveRefused(c)
          BY <2>1, <4>2, <5>1 DEF ReserveRefused, CodeShapeAt, StateFailure
        <5>3. QED
          BY <1>4, <1>5, <1>7, <1>8, <1>9, <5>2
          DEF Step, CheckPasses, ReserveGranted, ReleaseActive, ReleaseRaises, ReleaseSkips
      <4>3. QED
        BY <4>1, <4>2
    <3>2. QED
      BY <2>1, <3>1 DEF Excused, StateFailure
  <2>2. QED
    BY <1>1, <2>1 DEF Excused
<1>11. QED
  BY <1>2, <1>3, <1>4, <1>5, <1>7, <1>8, <1>9, <1>10

(* What is left is a call that goes its way, gets a reservation, is        *)
(* refused one, or gives one back.                                         *)
LEMMA UnexcusedEffect ==
    ASSUME IInv, NEW c \in Calls, Step(c), ~Excused'
    PROVE  \/ ReserveGranted(c)
           \/ ReserveRefused(c)
           \/ /\ code' = code
              /\ \A t \in Tokens : t[1] # c => res'[t] = res[t]
              /\ code[c] = "none" => res' = res
              /\ \A t \in Tokens : res'[t] = "none" <=> res[t] = "none"
<1>0. TypeOK /\ Tok(c) \in Tokens /\ Tok(c)[1] = c /\ CodeShapeAt(c)
  BY CurrentToken DEF IInv, CodeShape
<1>1. CASE CheckPasses(c)
  BY <1>1 DEF CheckPasses, store
<1>2. CASE ReleaseActive(c) \/ ReleaseRaises(c) \/ ReleaseSkips(c)
  <2>1. code' = code /\ code[c] # "none"
    BY <1>0, <1>2 DEF ReleaseActive, ReleaseRaises, ReleaseSkips, Releasing, CodeShapeAt
  <2>2. \A t \in Tokens : t # Tok(c) => res'[t] = res[t]
    BY <1>0, <1>2 DEF ReleaseActive, ReleaseRaises, ReleaseSkips, TypeOK, store
  <2>3. res'[Tok(c)] = "none" <=> res[Tok(c)] = "none"
    BY <1>0, <1>2 DEF ReleaseActive, ReleaseRaises, ReleaseSkips, TypeOK, store
  <2>4. QED
    BY <1>0, <2>1, <2>2, <2>3
<1>3. QED
  BY <1>1, <1>2, UnexcusedSteps DEF Step

(* Whoever is refused is so on account of a reservation that comes after   *)
(* all of its own, and somebody who has no code yet has it or is ahead of  *)
(* the one who has it.                                                     *)
LEMMA RefusedBehindSomebody ==
    ASSUME IInv, NEW rank, Ranks(rank), RecordsFit, CodesFit, SomebodyAhead(rank),
           NEW c \in Calls, ReserveRefused(c), ~Excused,
           \A d \in Calls : code[d] # "ALLOW"
    PROVE  \E e \in Calls \ {c} : code[e] = "none" /\ Ahead(rank, e, c)
<1> DEFINE s == Slot(Tok(c))
           h == reserved[Slot(Tok(c))]
<1>0. /\ TypeOK /\ LoopShape /\ CodeShape /\ TokenDiscipline
      /\ Tok(c) \in Tokens /\ Tok(c)[1] = c /\ Tok(c)[2] = idx[c] /\ s \in Slots
      /\ idx[c] \in Nat
      /\ seen = {}
      /\ \A t \in Tokens : rank[Slot(t)] \in Nat
  BY CurrentToken, TokenFacts DEF IInv, TypeOK, Excused, Ranks
<1>1. /\ h \in Tokens /\ h[1] \in Calls /\ Slot(h) = s /\ Holds(h)
      /\ res[h] \in {"active", "lost"}
  <2>1. h # NoToken
    BY <1>0 DEF ReserveRefused, IsFree
  <2>2. h \in Tokens /\ Slot(h) = s
    BY <1>0, <2>1 DEF TypeOK, RecordsFit
  <2>3. QED
    BY <1>0, <2>2, TokenFacts DEF TokenDiscipline, Holds
<1>2. ASSUME NEW t \in Tokens, t[1] = c, res[t] # "none"
      PROVE  rank[Slot(t)] < rank[s]
  <2>1. LoopShapeAt(t)
    BY <1>0 DEF LoopShape
  <2>2. t[2] < idx[c]
    BY <1>2, <2>1 DEF LoopShapeAt, ReserveRefused, Before
  <2>3. QED
    BY <1>0, <1>2, <2>2 DEF Ranks
<1>3. h[1] # c
  BY <1>0, <1>1, <1>2
<1>4. CASE code[h[1]] = "none"
  <2>1. res[h] = "active"
    <3>1. LoopShapeAt(h) /\ CodeShapeAt(h[1]) /\ pc[h[1]] \in Phases
      BY <1>0, <1>1 DEF LoopShape, CodeShape, TypeOK
    <3>2. pc[h[1]] \in {"check", "reserve", "commit", "decide"}
      BY <1>4, <3>1 DEF CodeShapeAt, Phases
    <3>3. QED
      BY <1>1, <3>1, <3>2 DEF LoopShapeAt
  <2>2. Ahead(rank, h[1], c)
    BY <1>1, <1>2, <2>1 DEF Ahead
  <2>3. QED
    BY <1>1, <1>3, <1>4, <2>2
<1>5. CASE code[h[1]] # "none"
  <2>1. Refused(h[1])
    BY <1>1, <1>5 DEF CodesFit, Excused
  <2>2. PICK e \in Calls : code[e] = "none" /\ Ahead(rank, e, h[1])
    BY <1>1, <2>1 DEF SomebodyAhead
  <2>3. PICK u \in Tokens :
           /\ u[1] = e /\ res[u] = "active"
           /\ \A t \in Tokens : t[1] = h[1] /\ res[t] # "none" => rank[Slot(t)] < rank[Slot(u)]
    BY <2>2 DEF Ahead
  <2>4. rank[s] < rank[Slot(u)]
    BY <1>1, <2>3
  <2>5. e # c
    BY <1>0, <1>2, <2>3, <2>4
  <2>6. \A t \in Tokens : t[1] = c /\ res[t] # "none" => rank[Slot(t)] < rank[Slot(u)]
    BY <1>0, <1>1, <1>2, <2>4
  <2>7. QED
    BY <2>2, <2>3, <2>5, <2>6 DEF Ahead
<1>6. QED
  BY <1>4, <1>5

(* What somebody is ahead of stays behind it, while neither gets or gives  *)
(* back a reservation.                                                     *)
LEMMA AheadStays ==
    ASSUME NEW rank, NEW c \in Calls, NEW e \in Calls, Ahead(rank, e, c),
           \A t \in Tokens : t[1] = e /\ res[t] = "active" => res'[t] = "active",
           \A t \in Tokens : t[1] = c /\ res'[t] # "none" => res[t] # "none"
    PROVE  Ahead(rank, e, c)'
<1>1. PICK u \in Tokens :
         /\ u[1] = e /\ res[u] = "active"
         /\ \A t \in Tokens : t[1] = c /\ res[t] # "none" => rank[Slot(t)] < rank[Slot(u)]
  BY DEF Ahead
<1>2. QED
  BY <1>1 DEF Ahead

(* Whoever is ahead of one that is ahead is ahead, too.                    *)
LEMMA AheadPasses ==
    ASSUME NEW rank, Ranks(rank), NEW c \in Calls, NEW d \in Calls, NEW e \in Calls,
           Ahead(rank, d, c), Ahead(rank, e, d)
    PROVE  Ahead(rank, e, c)
<1>0. \A t \in Tokens : rank[Slot(t)] \in Nat
  BY TokenFacts DEF Ranks
<1>1. PICK u \in Tokens :
         /\ u[1] = d /\ res[u] = "active"
         /\ \A t \in Tokens : t[1] = c /\ res[t] # "none" => rank[Slot(t)] < rank[Slot(u)]
  BY DEF Ahead
<1>2. PICK v \in Tokens :
         /\ v[1] = e /\ res[v] = "active"
         /\ \A t \in Tokens : t[1] = d /\ res[t] # "none" => rank[Slot(t)] < rank[Slot(v)]
  BY DEF Ahead
<1>3. rank[Slot(u)] < rank[Slot(v)]
  BY <1>1, <1>2
<1>4. QED
  BY <1>0, <1>1, <1>2, <1>3 DEF Ahead

(* A step of a call leaves somebody ahead of each that was refused.        *)
LEMMA SomebodyStaysAhead ==
    ASSUME IInv, NEW rank, Ranks(rank), WinInv(rank), NEW c \in Calls, Step(c), ~Excused'
    PROVE  SomebodyAhead(rank)'
<1>0. /\ TypeOK /\ Tok(c) \in Tokens /\ Tok(c)[1] = c
      /\ LoopShape /\ CodeShapeAt(c) /\ ~Excused /\ SomebodyAhead(rank)
      /\ \A d \in Calls : code[d] # "ALLOW"
  BY CurrentToken, UnexcusedSteps DEF IInv, CodeShape, WinInv
<1> SUFFICES ASSUME NEW d \in Calls, Refused(d)'
             PROVE  \E e \in Calls : code'[e] = "none" /\ Ahead(rank, e, d)'
  BY DEF SomebodyAhead
<1>1. CASE ReserveGranted(c)
  <2>1. code' = code /\ code[c] = "none"
    BY <1>0, <1>1 DEF ReserveGranted, CodeShapeAt
  <2>2. \A t \in Tokens : res'[t] = IF t = Tok(c) THEN "active" ELSE res[t]
    BY <1>0, <1>1 DEF ReserveGranted, TypeOK
  <2>3. Refused(d) /\ d # c
    BY <2>1 DEF Refused
  <2>4. PICK e \in Calls : code[e] = "none" /\ Ahead(rank, e, d)
    BY <1>0, <2>3 DEF SomebodyAhead
  <2>5. Ahead(rank, e, d)'
    BY <1>0, <2>2, <2>3, <2>4, AheadStays
  <2>6. QED
    BY <2>1, <2>4, <2>5
<1>2. CASE ReserveRefused(c)
  <2>1. res' = res /\ code[c] = "none" /\ \A e \in Calls \ {c} : code'[e] = code[e]
    BY <1>0, <1>2, AbortEffect DEF ReserveRefused, CodeShapeAt, store
  <2>2. PICK e \in Calls \ {c} : code[e] = "none" /\ Ahead(rank, e, c)
    BY <1>0, <1>2, RefusedBehindSomebody DEF WinInv
  <2>3. CASE d = c
    BY <2>1, <2>2, <2>3, AheadStays
  <2>4. CASE d # c
    <3>1. Refused(d)
      BY <2>1, <2>4 DEF Refused
    <3>2. PICK f \in Calls : code[f] = "none" /\ Ahead(rank, f, d)
      BY <1>0, <3>1 DEF SomebodyAhead
    <3>3. CASE f # c
      BY <2>1, <3>2, <3>3, AheadStays
    <3>4. CASE f = c
      <4>1. Ahead(rank, e, d)
        BY <2>2, <3>2, <3>4, AheadPasses
      <4>2. QED
        BY <2>1, <2>2, <4>1, AheadStays
    <3>5. QED
      BY <3>3, <3>4
  <2>5. QED
    BY <2>3, <2>4
<1>3. CASE /\ code' = code
           /\ \A t \in Tokens : t[1] # c => res'[t] = res[t]
           /\ code[c] = "none" => res' = res
           /\ \A t \in Tokens : res'[t] = "none" <=> res[t] = "none"
  <2>1. PICK e \in Calls : code[e] = "none" /\ Ahead(rank, e, d)
    BY <1>0, <1>3 DEF SomebodyAhead, Refused
  <2>2. Ahead(rank, e, d)'
    BY <1>3, <2>1, AheadStays
  <2>3. QED
    BY <1>3, <2>1, <2>2
<1>4. QED
  BY <1>1, <1>2, <1>3, UnexcusedEffect

(* Records are made for the slot that was asked for.                       *)
LEMMA RecordsStayFit ==
    ASSUME TypeOK, RecordsFit, NEW c \in Calls, Step(c)
    PROVE  RecordsFit'
<1>0. Tok(c) \in Tokens /\ Slot(Tok(c)) \in Slots
  BY CurrentToken
<1>1. CASE ReserveGranted(c)
  BY <1>0, <1>1 DEF ReserveGranted, RecordsFit, TypeOK
<1>2. CASE reserved' = reserved
  BY <1>2 DEF RecordsFit
<1>3. CASE reserved' = Unreserve(Tok(c))
  BY <1>0, <1>3 DEF Unreserve, RecordsFit, TypeOK
<1>4. QED
  BY <1>1, <1>2, <1>3
  DEF Step, CheckPasses, CheckDenies, ReserveRefused, ReserveRaises, CommitSucceeds,
      CommitRefused, CommitRaises, CommitEffect, Decide, ReleaseActive, ReleaseRaises,
      ReleaseSkips, store

(* A call answers ALLOW, with a refusal, or with its own code for a store  *)
(* that could not be used.                                                 *)
LEMMA CodesStayFit ==
    ASSUME TypeOK, CodesFit, NEW c \in Calls, Step(c)
    PROVE  CodesFit'
<1>1. SpecOf(Tok(c)).code \in {"ANTI_REPLAY_FAILURE", "CAPABILITY_REPLAY"}
  BY CurrentToken
<1>2. CASE code' = code
  BY <1>2 DEF CodesFit, Refused, StateFailure
<1>3. CASE \E why \in {SpecOf(Tok(c)).code, RefusalCode(c), StateFailure(c), "ALLOW"} :
               code' = [code EXCEPT ![c] = why]
  BY <1>1, <1>3 DEF CodesFit, Refused, StateFailure, RefusalCode, TypeOK
<1>4. QED
  BY <1>2, <1>3
  DEF Step, CheckPasses, CheckDenies, ReserveGranted, ReserveRefused, ReserveRaises,
      CommitSucceeds, CommitRefused, CommitRaises, Decide, ReleaseActive, ReleaseRaises,
      ReleaseSkips, Abort

(* Appending to a list uses a nonce up. *)
LEMMA WinStep ==
    ASSUME NEW rank, Ranks(rank)
    PROVE  IInv /\ WinInv(rank) /\ [Next]_vars => WinInv(rank)'
<1> SUFFICES ASSUME IInv, WinInv(rank), [Next]_vars PROVE WinInv(rank)'
  OBVIOUS
<1>1. CASE UNCHANGED vars
  BY <1>1 DEF vars, WinInv, RecordsFit, CodesFit, Refused, StateFailure, Excused,
              SomebodyAhead, Ahead
<1>2. ASSUME NEW t \in Tokens, ListAppend(t) PROVE WinInv(rank)'
  BY <1>2 DEF ListAppend, WinInv, RecordsFit, CodesFit, Refused, StateFailure, Excused
<1>3. ASSUME NEW c \in Calls, Step(c) PROVE WinInv(rank)'
  <2>1. RecordsFit' /\ CodesFit'
    BY <1>3, RecordsStayFit, CodesStayFit DEF IInv, WinInv
  <2>2. Excused' \/ SomebodyAhead(rank)'
    BY <1>3, SomebodyStaysAhead
  <2>3. QED
    BY <2>1, <2>2 DEF WinInv
<1>4. QED
  BY <1>1, <1>2, <1>3 DEF Next

(* Calls that stand in each other's way do not all lose, however many they *)
(* are and however often each nonce is presented: when all go through      *)
(* their slots in one order and every store works, all of them answered    *)
(* means that some nonce is used up.                                       *)
THEOREM SomebodyAlwaysWins ==
    ASSUME Calls # {}, NEW rank, Ranks(rank)
    PROVE  Spec => []SomebodyWins
<1>1. Init => WinInv(rank)
  BY DEF Init, WinInv, RecordsFit, CodesFit, Refused, StateFailure, SomebodyAhead
<1>2. IInv /\ WinInv(rank) => SomebodyWins
  <2> SUFFICES ASSUME IInv, WinInv(rank), seen = {},
                      \A c \in Calls : Answered(c) /\ code[c] # StateFailure(c)
               PROVE  FALSE
    BY DEF SomebodyWins
  <2>1. /\ CodeShape /\ CommittedIsSeen /\ SomebodyAhead(rank) /\ CodesFit
        /\ \A c \in Calls : code[c] # "none"
    BY DEF IInv, CodeShape, CodeShapeAt, Answered, WinInv, Excused
  <2>2. PICK c \in Calls : TRUE
    OBVIOUS
  <2>3. PICK t \in TokensOf(c) : t \in Tokens
    BY FirstToken
  <2>4. code[c] # "ALLOW"
    BY <2>1, <2>3 DEF CodeShape, CodeShapeAt, Allowed, CommittedIsSeen
  <2>5. Refused(c)
    BY <2>1, <2>4 DEF CodesFit
  <2>6. QED
    BY <2>1, <2>5 DEF SomebodyAhead
<1>3. QED
  BY <1>1, <1>2, WinStep, Invariance, PTL DEF Spec

(* The order of the code: a plan is a receipt, a capability, or one after  *)
(* the other, and no nonce is the receipt's in one such pair and the       *)
(* capability's in another.  For caches the two are of different domains   *)
(* (replay_domain); a caller would have to use one list for both.          *)
ReceiptsFirst ==
    /\ \A c \in Calls : Len(Plan[c]) <= 2
    /\ \A t, u \in Tokens :
          Len(Plan[t[1]]) = 2 /\ t[2] = 1 /\ u[2] = 2 => Slot(t) # Slot(u)

(* With receipts before capabilities somebody wins.                        *)
THEOREM ReceiptsFirstSomebodyWins ==
    ASSUME Calls # {}, ReceiptsFirst
    PROVE  Spec => []SomebodyWins
<1> DEFINE First(s) == \E t \in Tokens : Len(Plan[t[1]]) = 2 /\ t[2] = 1 /\ Slot(t) = s
           rank == [s \in Slots |-> IF First(s) THEN 0 ELSE 1]
<1>1. rank \in [Slots -> Nat]
  OBVIOUS
<1>2. ASSUME NEW t \in Tokens, NEW u \in Tokens, t[1] = u[1], t[2] < u[2]
      PROVE  rank[Slot(t)] < rank[Slot(u)]
  <2> DEFINE n == Len(Plan[t[1]])
  <2>1. n \in Nat /\ n <= 2 /\ t[2] \in 1 .. n /\ u[2] \in 1 .. n
    BY <1>2, TokenFacts DEF ReceiptsFirst
  <2> HIDE DEF n
  <2>2. n = 2 /\ t[2] = 1 /\ u[2] = 2
    BY <1>2, <2>1
  <2> USE DEF n
  <2>3. First(Slot(t)) /\ ~First(Slot(u))
    BY <2>2 DEF ReceiptsFirst
  <2>4. QED
    BY <2>3, TokenFacts
<1>3. Ranks(rank)
  <2> HIDE DEF rank
  <2>1. QED
    BY <1>1, <1>2 DEF Ranks
<1>4. QED
  BY <1>3, SomebodyAlwaysWins

----------------------------------------------------------------------------
(* The refinement of SingleUse *)

OwnerMap == [s \in Slots |-> Owner(s)]
DecisionMap == [c \in Calls |-> Decision(c)]

(* The owner of a slot is the call that committed it, if there is one. *)
LEMMA OwnerFacts ==
    ASSUME IInv
    PROVE  /\ \A t \in Tokens : res[t] = "committed" => Owner(Slot(t)) = t[1]
           /\ \A s \in Slots : s \notin seen => Owner(s) = Free
<1>1. ASSUME NEW t \in Tokens, res[t] = "committed" PROVE Owner(Slot(t)) = t[1]
  <2>1. t[1] \in Committers(Slot(t))
    BY <1>1, TokenFacts DEF Committers, TokensOf
  <2>2. \A c \in Committers(Slot(t)) : c = t[1]
    BY <1>1, OwnTokens DEF Committers, IInv, SoleConsumer
  <2>3. QED
    BY <2>1, <2>2 DEF Owner
<1>2. ASSUME NEW s \in Slots, s \notin seen PROVE Owner(s) = Free
  <2>1. Committers(s) = {}
    BY <1>2, OwnTokens DEF Committers, IInv, CommittedIsSeen
  <2>2. QED
    BY <1>2, <2>1 DEF Owner
<1>3. QED
  BY <1>1, <1>2

(* The owner changes only with the committed reservations and the used-up  *)
(* slots.                                                                  *)
LEMMA OwnerFrame ==
    ASSUME NEW s \in Slots, s \in seen' <=> s \in seen,
           \A t \in Tokens : Slot(t) = s =>
               (res'[t] = "committed" <=> res[t] = "committed")
    PROVE  Owner(s)' = Owner(s)
<1>1. Committers(s)' = Committers(s)
  BY OwnTokens DEF Committers
<1>2. QED
  BY <1>1 DEF Owner

(* Slots that are used up at the start have a prior owner.                 *)
LEMMA RefinementInit == Init => SU!Init
<1> SUFFICES ASSUME Init PROVE SU!Init
  OBVIOUS
<1>1. \A s \in Slots : Owner(s) \in {Free, Prior}
  BY OwnTokens DEF Init, Owner, Committers
<1>2. \A c \in Calls : Decision(c) = "pending"
  BY DEF Init, Decision, Allowed, Denied, Answered
<1>3. QED
  BY <1>1, <1>2 DEF SU!Init

(* A step of call c that changes no owner is invisible until c answers. *)
LEMMA QuietStep ==
    ASSUME OwnerMap' = OwnerMap, NEW c \in Calls,
           \A d \in Calls \ {c} : Decision(d)' = Decision(d),
           \/ Decision(c)' = Decision(c)
           \/ Decision(c) = "pending" /\ Decision(c)' = "DENY"
    PROVE  [SU!Next]_(SU!vars)
<1>1. CASE Decision(c)' = Decision(c)
  BY <1>1 DEF SU!vars, OwnerMap
<1>2. CASE Decision(c) = "pending" /\ Decision(c)' = "DENY"
  <2>1. DecisionMap' = [DecisionMap EXCEPT ![c] = "DENY"]
    BY <1>2 DEF DecisionMap
  <2>2. SU!Deny(c)
    BY <1>2, <2>1 DEF SU!Deny, OwnerMap, DecisionMap
  <2>3. QED
    BY <2>2 DEF SU!Next
<1>3. QED
  BY <1>1, <1>2

(* Decisions are a function of where the call is and what it answers. *)
LEMMA DecisionFrame ==
    ASSUME NEW c \in Calls,
           \/ pc'[c] = pc[c] /\ code'[c] = code[c]
           \/ pc'[c] # "done" /\ pc[c] # "done"
    PROVE  Decision(c)' = Decision(c)
  BY DEF Decision, Allowed, Denied, Answered

(* A commit is a Consume, an append a Retire, an answer an Allow or a      *)
(* Deny; everything else is invisible.                                     *)
LEMMA RefinementStep == IInv /\ IInv' /\ [Next]_vars => [SU!Next]_(SU!vars)
<1> SUFFICES ASSUME IInv, IInv', [Next]_vars PROVE [SU!Next]_(SU!vars)
  OBVIOUS
<1>0. TypeOK
  BY DEF IInv
<1>1. CASE UNCHANGED vars
  <2>1. \A s \in Slots : Owner(s)' = Owner(s)
    BY <1>1, OwnerFrame DEF vars
  <2>2. \A c \in Calls : Decision(c)' = Decision(c)
    BY <1>1, DecisionFrame DEF vars
  <2>3. QED
    BY <2>1, <2>2 DEF SU!vars
<1>2. ASSUME NEW t \in Tokens, ListAppend(t) PROVE SU!Next
  <2> DEFINE s == Slot(t)
  <2>1. s \in Slots /\ s \notin seen /\ seen' = seen \cup {s} /\ res' = res
    BY <1>2, TokenFacts DEF ListAppend
  <2>2. Owner(s) = Free
    BY <2>1, OwnerFacts
  <2>3. Owner(s)' = Prior
    <3>1. \A u \in Tokens : res'[u] = "committed" => Slot(u) # s
      BY <2>1 DEF IInv, CommittedIsSeen
    <3>2. Committers(s)' = {}
      BY <3>1, OwnTokens DEF Committers
    <3>3. QED
      BY <2>1, <3>2 DEF Owner
  <2>4. \A r \in Slots \ {s} : Owner(r)' = Owner(r)
    BY <2>1, OwnerFrame
  <2> HIDE DEF s
  <2>5. OwnerMap' = [OwnerMap EXCEPT ![s] = Prior]
    BY <2>1, <2>3, <2>4 DEF OwnerMap
  <2>6. \A c \in Calls : Decision(c)' = Decision(c)
    BY <1>2, DecisionFrame DEF ListAppend
  <2>7. SU!Retire(s)
    BY <2>1, <2>2, <2>5, <2>6 DEF SU!Retire, OwnerMap
  <2>8. QED
    BY <2>1, <2>7 DEF SU!Next
<1>3. ASSUME NEW c \in Calls, Step(c) PROVE [SU!Next]_(SU!vars)
  <2>0. Tok(c) \in Tokens /\ Slot(Tok(c)) \in Slots /\ LoopShapeAt(Tok(c))
        /\ Tok(c)[1] = c /\ idx[c] \in Nat /\ Tok(c)[2] = idx[c]
    BY <1>0, CurrentToken DEF IInv, LoopShape, TypeOK
  <2>1. CASE CommitSucceeds(c)
    <3>0. PICK t \in Tokens : t = Tok(c)
      BY <2>0
    <3> DEFINE s == Slot(t)
    <3>1. res[t] = "active" /\ s \in Slots
      BY <2>0, <2>1, <3>0 DEF CommitSucceeds, LoopShapeAt, Before
    <3>2. s \notin seen /\ Holds(t)
      BY <1>0, <2>0, <2>1, <3>0, <3>1, CommitKeepsStore
      DEF CommitSucceeds, IInv, StoreInv, TokenDiscipline
    <3>3. /\ seen' = seen \cup {s}
          /\ \A u \in Tokens : res'[u] = IF u = t THEN "committed" ELSE res[u]
      BY <1>0, <2>0, <2>1, <3>0, <3>2 DEF CommitSucceeds, CommitEffect, TypeOK
    <3>4. Owner(s) = Free
      BY <3>1, <3>2, OwnerFacts
    <3>5. Owner(s)' = c
      <4>1. res'[t] = "committed" /\ t \in TokensOf(c) /\ t[1] = c
        BY <2>0, <3>0, <3>3, TokenFacts DEF TokensOf
      <4>2. c \in Committers(s)'
        BY <4>1 DEF Committers
      <4>3. \A d \in Committers(s)' : d = c
        BY <4>1, OwnTokens DEF Committers, IInv, SoleConsumer
      <4>4. QED
        BY <4>2, <4>3 DEF Owner
    <3>6. \A r \in Slots \ {s} : Owner(r)' = Owner(r)
      BY <3>3, OwnerFrame
    <3>7. \A d \in Calls : Decision(d)' = Decision(d)
      BY <1>0, <2>1, AdvanceEffect, DecisionFrame DEF CommitSucceeds
    <3>8. Decision(c) = "pending"
      BY <2>1 DEF CommitSucceeds, Decision, Allowed, Denied, Answered
    <3>9. s \in Needs[c]
      BY <2>0, <3>0, TokenFacts DEF Needs, TokensOf
    <3> HIDE DEF s
    <3>10. OwnerMap' = [OwnerMap EXCEPT ![s] = c]
      BY <3>1, <3>5, <3>6 DEF OwnerMap
    <3>11. SU!Consume(c, s)
      BY <3>1, <3>4, <3>7, <3>8, <3>9, <3>10 DEF SU!Consume, OwnerMap
    <3>12. QED
      BY <3>1, <3>11 DEF SU!Next
  <2>2. CASE Decide(c)
    <3>1. /\ \A s \in Slots : Owner(s)' = Owner(s)
          /\ \A d \in Calls \ {c} : Decision(d)' = Decision(d)
      BY <1>0, <2>2, OwnerFrame, DecisionFrame DEF Decide, store, TypeOK
    <3>2. Decision(c) = "pending" /\ Decision(c)' = "ALLOW"
      BY <1>0, <2>2 DEF Decide, Decision, Allowed, Denied, Answered, TypeOK
    <3>3. \A t \in TokensOf(c) : Owner(Slot(t)) = c
      BY <2>2, OwnerFacts, OwnTokens DEF Decide, IInv, LoopShape, LoopShapeAt
    <3>4. \A s \in Needs[c] : s \in Slots /\ Owner(s) = c
      BY <3>3, OwnTokens, TokenFacts DEF Needs
    <3>5. DecisionMap' = [DecisionMap EXCEPT ![c] = "ALLOW"]
      BY <3>1, <3>2 DEF DecisionMap
    <3>6. SU!Allow(c)
      BY <3>1, <3>2, <3>4, <3>5 DEF SU!Allow, DecisionMap
    <3>7. QED
      BY <3>6 DEF SU!Next
  <2>3. CASE ~CommitSucceeds(c) /\ ~Decide(c)
    <3>1. /\ seen' = seen
          /\ \A u \in Tokens : res'[u] = "committed" <=> res[u] = "committed"
      <4>1. CASE CommitRefused(c)
        <5>1. res[Tok(c)] = "active" /\ Holds(Tok(c))
          BY <2>0, <4>1 DEF CommitRefused, LoopShapeAt, Before, IInv, TokenDiscipline
        <5>2. QED
          BY <1>0, <2>0, <4>1, <5>1 DEF CommitRefused, CommitEffect, CommitResult, TypeOK
      <4>2. CASE ReserveGranted(c)
        <5>1. res[Tok(c)] = "none"
          BY <2>0, <4>2 DEF ReserveGranted, LoopShapeAt, Before
        <5>2. QED
          BY <1>0, <2>0, <4>2, <5>1 DEF ReserveGranted, TypeOK
      <4>3. CASE ReleaseActive(c) \/ ReleaseRaises(c)
        BY <1>0, <2>0, <4>3 DEF ReleaseActive, ReleaseRaises, TypeOK
      <4>4. CASE \/ CheckPasses(c) \/ CheckDenies(c) \/ ReserveRefused(c)
                 \/ ReserveRaises(c) \/ CommitRaises(c) \/ ReleaseSkips(c)
        BY <4>4 DEF CheckPasses, CheckDenies, ReserveRefused, ReserveRaises,
                    CommitRaises, ReleaseSkips, store
      <4>5. QED
        BY <1>3, <2>3, <4>1, <4>2, <4>3, <4>4 DEF Step
    <3>2. OwnerMap' = OwnerMap
      <4>1. \A s \in Slots : Owner(s)' = Owner(s)
        BY <3>1, OwnerFrame
      <4>2. QED
        BY <4>1 DEF OwnerMap
    <3>3. /\ \A d \in Calls \ {c} : pc'[d] = pc[d] /\ code'[d] = code[d]
          /\ pc[c] # "done"
      <4>1. CASE CheckPasses(c) \/ ReserveGranted(c)
        BY <1>0, <4>1, AdvanceEffect DEF CheckPasses, ReserveGranted
      <4>2. CASE CheckDenies(c)
        BY <1>0, <4>2 DEF CheckDenies, TypeOK
      <4>3. CASE \/ ReserveRefused(c) \/ ReserveRaises(c)
                 \/ CommitRefused(c) \/ CommitRaises(c)
        BY <1>0, <4>3, AbortEffect
        DEF ReserveRefused, ReserveRaises, CommitRefused, CommitRaises
      <4>4. CASE ReleaseActive(c) \/ ReleaseRaises(c) \/ ReleaseSkips(c)
        BY <1>0, <4>4, DescendEffect
        DEF ReleaseActive, ReleaseRaises, ReleaseSkips, Releasing
      <4>5. QED
        BY <1>3, <2>3, <4>1, <4>2, <4>3, <4>4 DEF Step
    <3>4. \A d \in Calls \ {c} : Decision(d)' = Decision(d)
      BY <3>3, DecisionFrame
    <3>5. pc'[c] = "done" => code'[c] # "ALLOW"
      <4>1. CASE CheckDenies(c)
        BY <1>0, <4>1, DenialCodes DEF CheckDenies, TypeOK
      <4>2. CASE ReleaseActive(c) \/ ReleaseRaises(c) \/ ReleaseSkips(c)
        BY <4>2 DEF ReleaseActive, ReleaseRaises, ReleaseSkips, Releasing, IInv,
                    CodeShape, CodeShapeAt
      <4>3. CASE CheckPasses(c) \/ ReserveGranted(c)
        BY <1>0, <4>3, AdvanceEffect DEF CheckPasses, ReserveGranted
      <4>4. CASE \/ ReserveRefused(c) \/ ReserveRaises(c)
                 \/ CommitRefused(c) \/ CommitRaises(c)
        BY <1>0, <4>4, AbortEffect
        DEF ReserveRefused, ReserveRaises, CommitRefused, CommitRaises
      <4>5. QED
        BY <1>3, <2>3, <4>1, <4>2, <4>3, <4>4 DEF Step
    <3>6. \/ Decision(c)' = Decision(c)
          \/ Decision(c) = "pending" /\ Decision(c)' = "DENY"
      BY <3>3, <3>5 DEF Decision, Allowed, Denied, Answered
    <3>7. QED
      BY <3>2, <3>4, <3>6, QuietStep
  <2>4. QED
    BY <2>1, <2>2, <2>3
<1>4. QED
  BY <1>1, <1>2, <1>3 DEF Next

(* The calls and slots of a plan are what the abstract store asks for.     *)
LEMMA NeedsAreSlots == SU!SingleUseAssumption
<1>1. ASSUME NEW c \in Calls PROVE Needs[c] \in SUBSET Slots /\ Needs[c] # {}
  <2>1. /\ Needs[c] = {Slot(t) : t \in TokensOf(c)}
        /\ <<c, 1>> \in TokensOf(c)
    BY PlanAssumption DEF Needs, TokensOf
  <2>2. \A t \in TokensOf(c) : Slot(t) \in Slots
    BY OwnTokens, TokenFacts
  <2>3. Slot(<<c, 1>>) \in Needs[c]
    BY <2>1
  <2>4. QED
    BY <2>1, <2>2, <2>3
<1>2. QED
  BY <1>1, OwnerAssumption DEF SU!SingleUseAssumption, Needs

(* Every behaviour of the reserve/commit/release transaction is one of the *)
(* abstract single-use store.                                              *)
THEOREM Refinement == Spec => ImplementsSingleUse
<1>1. Spec => SU!Init /\ [][SU!Next]_(SU!vars)
  BY Invariance, RefinementInit, RefinementStep, PTL DEF Spec
<1>2. QED
  BY <1>1 DEF ImplementsSingleUse, SU!Spec

(* The abstract store keeps its promise: owners are never replaced, so an  *)
(* allowed call stays the owner of all it presented.                       *)
LEMMA OwnersStay ==
    /\ SU!Init => SU!TypeOK /\ SU!AllowedOwnsAll
    /\ SU!TypeOK /\ SU!AllowedOwnsAll /\ [SU!Next]_(SU!vars)
           => SU!TypeOK' /\ SU!AllowedOwnsAll'
<1> USE DEF SU!TypeOK, SU!AllowedOwnsAll
<1>1. SU!Init => SU!TypeOK /\ SU!AllowedOwnsAll
  BY DEF SU!Init
<1> SUFFICES ASSUME SU!TypeOK, SU!AllowedOwnsAll, [SU!Next]_(SU!vars)
             PROVE  SU!TypeOK' /\ SU!AllowedOwnsAll'
  BY <1>1
<1>2. CASE UNCHANGED SU!vars
  BY <1>2 DEF SU!vars
<1>3. ASSUME NEW c \in Calls, SU!Allow(c) \/ SU!Deny(c)
      PROVE  SU!TypeOK' /\ SU!AllowedOwnsAll'
  BY <1>3 DEF SU!Allow, SU!Deny
<1>4. ASSUME NEW c \in Calls, NEW s \in Slots, SU!Consume(c, s)
      PROVE  SU!TypeOK' /\ SU!AllowedOwnsAll'
  BY <1>4, NeedsAreSlots DEF SU!SingleUseAssumption, SU!Consume
<1>5. ASSUME NEW s \in Slots, SU!Retire(s)
      PROVE  SU!TypeOK' /\ SU!AllowedOwnsAll'
  BY <1>5, NeedsAreSlots DEF SU!SingleUseAssumption, SU!Retire
<1>6. QED
  BY <1>2, <1>3, <1>4, <1>5 DEF SU!Next

(* Whatever implements the abstract store: an allowed call owns every      *)
(* object it presented, and two allowed calls never presented the same.    *)
THEOREM ImplementorsAreSingleUse ==
    ImplementsSingleUse => [](SU!AllowedOwnsAll /\ SU!SingleUse)
<1>1. SU!AllowedOwnsAll => SU!SingleUse
  BY NeedsAreSlots DEF SU!SingleUseAssumption, SU!AllowedOwnsAll, SU!SingleUse
<1>2. QED
  BY <1>1, OwnersStay, PTL DEF ImplementsSingleUse, SU!Spec

(* So it is for the transaction.                                           *)
THEOREM TransactionIsSingleUse == Spec => [](SU!AllowedOwnsAll /\ SU!SingleUse)
  BY Refinement, ImplementorsAreSingleUse, PTL

----------------------------------------------------------------------------
(***************************************************************************)
(* The transaction in processes that crash: for any processes, calls,      *)
(* plans and stores and any number of crashes, what is on disk keeps its   *)
(* promise, and what a crash locks stays locked.                           *)
(*                                                                         *)
(* A crash breaks the invariant above in two ways: a call that has died is *)
(* in the middle of a loop with none of its reservations active, and a     *)
(* nonce of a memory store may be committed again after a restart.  So the *)
(* loops are spoken of for the living, and what is committed for slots on  *)
(* disk.                                                                   *)
(***************************************************************************)

(* The loops of a call that lives. *)
LivingLoops ==
    /\ \A t \in Tokens : t[1] \notin dead => LoopShapeAt(t)
    /\ \A c \in Calls : c \notin dead => CodeShapeAt(c)

(* A call that has died has no answer, and none of its reservation objects *)
(* is left.                                                                *)
DeadAreStill ==
    /\ dead \subseteq Calls
    /\ \A c \in dead : ~Answered(c)
    /\ \A t \in Tokens : t[1] \in dead => res[t] # "active"

(* What is on record fits its slot, and is of a reservation that is active *)
(* or can no longer be released.                                           *)
RecordsHaveHolders ==
    /\ \A s \in Slots : reserved[s] # NoToken => Slot(reserved[s]) = s
    /\ \A t \in Tokens : res[t] = "active" => Holds(t)
    /\ \A t \in Tokens : Holds(t) =>
           \/ res[t] = "active"
           \/ res[t] = "lost" /\ t[1] \in dead /\ Slot(t) \in Durable
           \/ res[t] = "lost" /\ t[1] \notin dead /\ MayRaise(t)

(* On disk a slot is committed once, and stays used up. *)
CommittedOnDisk ==
    /\ \A t \in Tokens : res[t] = "committed" /\ Slot(t) \in Durable => Slot(t) \in seen
    /\ \A t, u \in Tokens :
           /\ res[t] = "committed" /\ res[u] = "committed"
           /\ Slot(t) = Slot(u) /\ Slot(t) \in Durable
           => t = u

DurableStores == RecordsHaveHolders /\ CommittedOnDisk /\ ReservedIsFresh
DurableInv == TypeOK /\ LivingLoops /\ DeadAreStill /\ DurableStores

----------------------------------------------------------------------------
(* What a step of a living call does to its loops *)

(* A step of a call leaves the others alone, and all reservation objects   *)
(* but the one it works on.                                                *)
LEMMA OthersUntouched ==
    ASSUME TypeOK, NEW c \in Calls, Step(c)
    PROVE  /\ \A d \in Calls \ {c} : pc'[d] = pc[d] /\ idx'[d] = idx[d] /\ code'[d] = code[d]
           /\ \A u \in Tokens : u # Tok(c) => res'[u] = res[u]
<1>0. Tok(c) \in Tokens
  BY CurrentToken
<1>1. CASE CheckPasses(c)
  BY <1>1, AdvanceEffect DEF CheckPasses, store
<1>2. CASE CheckDenies(c) \/ Decide(c)
  BY <1>2 DEF CheckDenies, Decide, store, TypeOK
<1>3. CASE ReserveGranted(c)
  BY <1>0, <1>3, AdvanceEffect DEF ReserveGranted, TypeOK
<1>4. CASE ReserveRefused(c) \/ ReserveRaises(c) \/ CommitRaises(c)
  BY <1>4, AbortEffect DEF ReserveRefused, ReserveRaises, CommitRaises, store
<1>5. CASE CommitSucceeds(c)
  BY <1>0, <1>5, AdvanceEffect DEF CommitSucceeds, CommitEffect, TypeOK
<1>6. CASE CommitRefused(c)
  BY <1>0, <1>6, AbortEffect DEF CommitRefused, CommitEffect, TypeOK
<1>7. CASE ReleaseActive(c) \/ ReleaseRaises(c) \/ ReleaseSkips(c)
  <2>1. Descend(c, NextLoop(c)) /\ code' = code
    BY <1>7 DEF ReleaseActive, ReleaseRaises, ReleaseSkips
  <2>2. \A u \in Tokens : u # Tok(c) => res'[u] = res[u]
    BY <1>0, <1>7 DEF ReleaseActive, ReleaseRaises, ReleaseSkips, store, TypeOK
  <2> QED BY <2>1, <2>2, DescendEffect
<1> QED BY <1>1, <1>2, <1>3, <1>4, <1>5, <1>6, <1>7 DEF Step

(* The reservations of the stepping call are as its loop has them. *)
LEMMA OwnLoop ==
    ASSUME TypeOK, NEW c \in Calls, Step(c), CodeShapeAt(c),
           \A t \in Tokens : t[1] = c => LoopShapeAt(t)
    PROVE  /\ \A t \in Tokens : t[1] = c => LoopShapeAt(t)'
           /\ CodeShapeAt(c)'
<1>0. /\ Tok(c) \in Tokens /\ Tok(c)[1] = c /\ Tok(c)[2] = idx[c]
      /\ Len(Plan[c]) \in Nat /\ idx[c] \in 1 .. Len(Plan[c])
  BY CurrentToken, TokenFacts
<1>1. \A t \in Tokens : t[1] = c => /\ LoopShapeAt(t)
                                    /\ t[2] \in 1 .. Len(Plan[c])
                                    /\ t = Tok(c) <=> t[2] = idx[c]
  BY TokenFacts DEF Tok
<1>2. \A t \in TokensOf(c) : t \in Tokens /\ t[1] = c
  BY OwnTokens
<1>3. CASE CheckPasses(c)
  <2>1. Advance(c, "reserve") /\ res' = res /\ code' = code /\ pc[c] = "check"
    BY <1>3 DEF CheckPasses, store
  <2> QED
    BY <1>0, <1>1, <2>1, AdvanceEffect
    DEF LoopShapeAt, Before, After, CodeShapeAt, Allowed, Answered
<1>4. CASE CheckDenies(c)
  <2>1. /\ res' = res /\ idx' = idx /\ pc[c] = "check" /\ pc'[c] = "done"
        /\ code'[c] = SpecOf(Tok(c)).code
    BY <1>4 DEF CheckDenies, store, TypeOK
  <2> QED
    BY <1>1, <2>1, DenialCodes DEF LoopShapeAt, CodeShapeAt, Allowed, Answered
<1>5. CASE ReserveGranted(c)
  <2>1. /\ Advance(c, "commit") /\ code' = code /\ pc[c] = "reserve"
        /\ \A u \in Tokens : res'[u] = IF u = Tok(c) THEN "active" ELSE res[u]
    BY <1>0, <1>5 DEF ReserveGranted, TypeOK
  <2> QED
    BY <1>0, <1>1, <2>1, AdvanceEffect
    DEF LoopShapeAt, Before, After, CodeShapeAt, Allowed, Answered
<1>6. CASE CommitSucceeds(c)
  <2>1. /\ Advance(c, "decide") /\ code' = code /\ pc[c] = "commit"
        /\ \A u \in Tokens : res'[u] = IF u = Tok(c) THEN "committed" ELSE res[u]
    BY <1>0, <1>6 DEF CommitSucceeds, CommitEffect, TypeOK
  <2> QED
    BY <1>0, <1>1, <2>1, AdvanceEffect
    DEF LoopShapeAt, Before, After, CodeShapeAt, Allowed, Answered
<1>7. ASSUME NEW why, why \notin {"none", "ALLOW"}, Abort(c, why)
      PROVE  /\ \A t \in Tokens : t[1] = c => LoopShapeAt(t)'
             /\ CodeShapeAt(c)'
  BY <1>0, <1>1, <1>7, AbortEffect
  DEF LoopShapeAt, Before, After, CodeShapeAt, Allowed, Answered
<1>8. CASE ReserveRefused(c) \/ ReserveRaises(c) \/ CommitRefused(c) \/ CommitRaises(c)
  BY <1>7, <1>8, DenialCodes DEF ReserveRefused, ReserveRaises, CommitRefused, CommitRaises
<1>9. CASE Decide(c)
  <2>1. /\ res' = res /\ idx' = idx /\ pc[c] = "decide"
        /\ pc'[c] = "done" /\ code'[c] = "ALLOW"
    BY <1>9 DEF Decide, store, TypeOK
  <2> QED
    BY <1>1, <1>2, <2>1 DEF LoopShapeAt, CodeShapeAt, Allowed, Answered, TokensOf
<1>10. CASE ReleaseActive(c) \/ ReleaseRaises(c) \/ ReleaseSkips(c)
  <2>1. /\ Descend(c, NextLoop(c)) /\ code' = code
        /\ pc[c] \in {"release", "drop"}
        /\ \A u \in Tokens : u # Tok(c) => res'[u] = res[u]
        /\ pc[c] = "drop" => res'[Tok(c)] # "active"
    BY <1>0, <1>10 DEF ReleaseActive, ReleaseRaises, ReleaseSkips, Releasing, store, TypeOK
  <2> QED
    BY <1>0, <1>1, <2>1, DescendEffect
    DEF LoopShapeAt, Before, After, CodeShapeAt, Allowed, Answered, NextLoop
<1> QED BY <1>3, <1>4, <1>5, <1>6, <1>8, <1>9, <1>10 DEF Step

----------------------------------------------------------------------------
(* What a step of a living call does to the stores *)

(* A record changes only by the call that steps: it takes a free slot, or  *)
(* gives back its own.                                                     *)
LEMMA RecordChange ==
    ASSUME TypeOK, NEW c \in Calls, Step(c)
    PROVE  \A s \in Slots :
             \/ reserved'[s] = reserved[s]
             \/ s = Slot(Tok(c)) /\ reserved[s] = NoToken /\ reserved'[s] = Tok(c)
             \/ s = Slot(Tok(c)) /\ reserved[s] = Tok(c) /\ reserved'[s] = NoToken
<1>0. Tok(c) \in Tokens /\ Slot(Tok(c)) \in Slots
  BY CurrentToken
<1>1. CASE reserved' = reserved
  BY <1>1
<1>2. CASE reserved' = Unreserve(Tok(c))
  BY <1>0, <1>2 DEF Unreserve, Holds, TypeOK
<1>3. CASE ReserveGranted(c)
  BY <1>0, <1>3 DEF ReserveGranted, IsFree, TypeOK
<1> QED
  BY <1>1, <1>2, <1>3
  DEF Step, CheckPasses, CheckDenies, ReserveRefused, ReserveRaises, CommitSucceeds, CommitRefused,
      CommitRaises, CommitEffect, Decide, ReleaseActive, ReleaseRaises, ReleaseSkips, store

(* A reservation that is granted, on a slot that was free. *)
LEMMA GrantKeepsDisk ==
    ASSUME TypeOK, DurableStores, NEW c \in Calls, ReserveGranted(c), UNCHANGED dead
    PROVE  DurableStores'
<1> DEFINE t == Tok(c)
<1>1. t \in Tokens /\ Slot(t) \in Slots
  BY CurrentToken
<1>2. /\ Slot(t) \notin seen /\ reserved[Slot(t)] = NoToken
      /\ NoToken \notin Tokens /\ seen' = seen
  BY PlanAssumption DEF ReserveGranted, IsFree
<1>3. \A u \in Tokens : res'[u] = IF u = t THEN "active" ELSE res[u]
  BY <1>1 DEF ReserveGranted, TypeOK
<1>4. \A s \in Slots : reserved'[s] = IF s = Slot(t) THEN t ELSE reserved[s]
  BY <1>1 DEF ReserveGranted, TypeOK
<1>5. \A u \in Tokens : Slot(u) \in Slots
  BY TokenFacts
<1> HIDE DEF t
<1>6. RecordsHaveHolders'
  BY <1>1, <1>2, <1>3, <1>4, <1>5 DEF DurableStores, RecordsHaveHolders, Holds
<1>7. CommittedOnDisk'
  BY <1>2, <1>3 DEF DurableStores, CommittedOnDisk
<1>8. ReservedIsFresh'
  BY <1>1, <1>2, <1>4, <1>5 DEF DurableStores, ReservedIsFresh, Holds
<1> QED BY <1>6, <1>7, <1>8 DEF DurableStores

(* A commit of an active reservation, which is on record. *)
LEMMA CommitKeepsDisk ==
    ASSUME TypeOK, DurableStores, NEW c \in Calls, res[Tok(c)] = "active",
           CommitSucceeds(c) \/ CommitRefused(c), UNCHANGED dead
    PROVE  DurableStores'
<1> DEFINE t == Tok(c)
<1>1. t \in Tokens /\ Slot(t) \in Slots /\ NoToken \notin Tokens
  BY CurrentToken, PlanAssumption
<1>2. Holds(t)
  BY <1>1 DEF DurableStores, RecordsHaveHolders
<1>3. PICK final \in {"committed", "closed"} :
          CommitEffect(t, final) /\ (final = "committed" => CommitResult(t))
  BY DEF CommitSucceeds, CommitRefused
<1>4. final = "committed" => Slot(t) \notin seen
  BY <1>1, <1>2, <1>3 DEF CommitResult, DurableStores, ReservedIsFresh
<1>5. /\ \A u \in Tokens : res'[u] = IF u = t THEN final ELSE res[u]
      /\ seen' = seen \cup {Slot(t)}
  BY <1>1, <1>2, <1>3 DEF CommitEffect, TypeOK
<1>6. \A s \in Slots : reserved'[s] = IF s = Slot(t) THEN NoToken ELSE reserved[s]
  BY <1>1, <1>2, <1>3 DEF CommitEffect, Unreserve, TypeOK
<1>7. \A u \in Tokens : Slot(u) \in Slots
  BY TokenFacts
<1> HIDE DEF t
<1>8. RecordsHaveHolders'
  BY <1>1, <1>2, <1>5, <1>6, <1>7 DEF DurableStores, RecordsHaveHolders, Holds
<1>9. CommittedOnDisk'
  BY <1>4, <1>5 DEF DurableStores, CommittedOnDisk
<1>10. ReservedIsFresh'
  BY <1>1, <1>5, <1>6, <1>7 DEF DurableStores, ReservedIsFresh, Holds
<1> QED BY <1>8, <1>9, <1>10 DEF DurableStores

(* A release, which takes its own record away or raises. *)
LEMMA ReleaseKeepsDisk ==
    ASSUME TypeOK, DurableStores, NEW c \in Calls, c \notin dead,
           ReleaseActive(c) \/ ReleaseRaises(c), UNCHANGED dead
    PROVE  DurableStores'
<1> DEFINE t == Tok(c)
<1>1. t \in Tokens /\ Slot(t) \in Slots /\ NoToken \notin Tokens /\ t[1] = c
  BY CurrentToken, PlanAssumption
<1>2. Holds(t) /\ res[t] = "active"
  BY <1>1 DEF DurableStores, RecordsHaveHolders, ReleaseActive, ReleaseRaises
<1>3. \A u \in Tokens : Slot(u) \in Slots
  BY TokenFacts
<1>4. CASE ReleaseActive(c)
  <2>1. seen' = seen /\ \A u \in Tokens : res'[u] = IF u = t THEN "closed" ELSE res[u]
    BY <1>1, <1>4 DEF ReleaseActive, TypeOK
  <2>2. \A s \in Slots : reserved'[s] = IF s = Slot(t) THEN NoToken ELSE reserved[s]
    BY <1>1, <1>2, <1>4 DEF ReleaseActive, Unreserve, TypeOK
  <2>3. RecordsHaveHolders'
    BY <1>1, <1>2, <1>3, <2>1, <2>2 DEF DurableStores, RecordsHaveHolders, Holds
  <2>4. CommittedOnDisk' /\ ReservedIsFresh'
    BY <1>1, <1>3, <2>1, <2>2 DEF DurableStores, CommittedOnDisk, ReservedIsFresh, Holds
  <2> QED BY <2>3, <2>4 DEF DurableStores
<1>5. CASE ReleaseRaises(c)
  <2>1. /\ seen' = seen /\ reserved' = reserved /\ MayRaise(t)
        /\ \A u \in Tokens : res'[u] = res[u] \/ (u = t /\ res'[u] = "lost")
    BY <1>1, <1>5 DEF ReleaseRaises, TypeOK
  <2>2. RecordsHaveHolders'
    BY <1>1, <1>2, <2>1 DEF DurableStores, RecordsHaveHolders, Holds
  <2>3. CommittedOnDisk' /\ ReservedIsFresh'
    BY <1>1, <2>1 DEF DurableStores, CommittedOnDisk, ReservedIsFresh, Holds
  <2> QED BY <2>2, <2>3 DEF DurableStores
<1> QED BY <1>4, <1>5

(* Every step of a living call preserves the invariant. *)
LEMMA LivingStep == ASSUME DurableInv, NEW c \in Calls, DurableStep(c) PROVE DurableInv'
<1>0. /\ TypeOK /\ c \notin dead /\ Step(c) /\ UNCHANGED dead
      /\ Tok(c) \in Tokens /\ Tok(c)[1] = c /\ Tok(c)[2] = idx[c] /\ idx[c] \in Nat
  BY CurrentToken DEF DurableInv, DurableStep
<1>1. TypeOK'
  BY <1>0, TypeStep DEF Next
<1>2. LivingLoops'
  <2>1. ASSUME NEW t \in Tokens, t[1] \notin dead PROVE LoopShapeAt(t)'
    <3>1. CASE t[1] = c
      BY <1>0, <3>1, OwnLoop DEF DurableInv, LivingLoops
    <3>2. CASE t[1] # c
      <4>1. t[1] \in Calls /\ t # Tok(c) /\ LoopShapeAt(t)
        BY <1>0, <2>1, <3>2, TokenFacts DEF DurableInv, LivingLoops
      <4> QED BY <1>0, <3>2, <4>1, OthersUntouched DEF LoopShapeAt, Before, After
    <3> QED BY <3>1, <3>2
  <2>2. ASSUME NEW d \in Calls, d \notin dead PROVE CodeShapeAt(d)'
    <3>1. CASE d = c
      BY <1>0, <3>1, OwnLoop DEF DurableInv, LivingLoops
    <3>2. CASE d # c
      <4>1. \A u \in TokensOf(d) : u \in Tokens /\ u # Tok(c)
        BY <1>0, <3>2, OwnTokens
      <4>2. CodeShapeAt(d)
        BY <2>2 DEF DurableInv, LivingLoops
      <4> QED BY <1>0, <3>2, <4>1, <4>2, OthersUntouched DEF CodeShapeAt, Allowed, Answered
    <3> QED BY <3>1, <3>2
  <2> QED BY <1>0, <2>1, <2>2 DEF LivingLoops
<1>3. DeadAreStill'
  <2>1. \A d \in dead : d \in Calls \ {c}
    BY <1>0 DEF DurableInv, DeadAreStill
  <2>2. \A t \in Tokens : t[1] \in dead => t # Tok(c)
    BY <1>0
  <2> QED BY <1>0, <2>1, <2>2, OthersUntouched DEF DurableInv, DeadAreStill, Answered
<1>4. DurableStores'
  <2>0. DurableStores /\ LoopShapeAt(Tok(c))
    BY <1>0 DEF DurableInv, LivingLoops
  <2>1. CASE ReserveGranted(c)
    BY <1>0, <2>0, <2>1, GrantKeepsDisk
  <2>2. CASE CommitSucceeds(c) \/ CommitRefused(c)
    <3>1. res[Tok(c)] = "active"
      BY <1>0, <2>0, <2>2 DEF CommitSucceeds, CommitRefused, LoopShapeAt, Before
    <3> QED BY <1>0, <2>0, <2>2, <3>1, CommitKeepsDisk
  <2>3. CASE ReleaseActive(c) \/ ReleaseRaises(c)
    BY <1>0, <2>0, <2>3, ReleaseKeepsDisk
  <2>4. CASE UNCHANGED store
    BY <1>0, <2>0, <2>4
    DEF store, DurableStores, RecordsHaveHolders, CommittedOnDisk, ReservedIsFresh, Holds
  <2> QED
    BY <1>0, <2>1, <2>2, <2>3, <2>4
    DEF Step, CheckPasses, CheckDenies, ReserveRefused, ReserveRaises, CommitRaises, Decide,
        ReleaseSkips
<1> QED BY <1>1, <1>2, <1>3, <1>4 DEF DurableInv

----------------------------------------------------------------------------
(* What a crash does *)

(* A slot in the memory of a process is used by its calls only. *)
LEMMA MemoryIsOwn ==
    ASSUME NEW t \in Tokens, NEW p \in Processes, Slot(t) \in InMemory(p)
    PROVE  SpecOf(t).store \in Memory[p] /\ Host[t[1]] = p
<1>1. PICK u \in Tokens : SpecOf(u).store \in Memory[p] /\ Slot(u) = Slot(t)
  BY DEF InMemory
<1>2. \A v \in Tokens : Slot(v)[1] = SpecOf(v).store
  BY DEF Slot, Key
<1>3. SpecOf(t).store \in Memory[p]
  BY <1>1, <1>2
<1> QED BY <1>3, HostAssumption

(* A call that holds an active reservation is running. *)
LEMMA ActiveIsRunning ==
    ASSUME DurableInv, NEW t \in Tokens, res[t] = "active"
    PROVE  Running(t[1])
<1>1. t[1] \notin dead /\ LoopShapeAt(t)
  BY DEF DurableInv, DeadAreStill, LivingLoops
<1> QED BY <1>1 DEF LoopShapeAt, Running, Begun, Answered

(* A crash preserves the invariant: the calls it stops lose what they have *)
(* in hand, and their records stay where the disk has them.                *)
LEMMA CrashPreserves == ASSUME DurableInv, NEW p \in Processes, Crash(p) PROVE DurableInv'
<1> DEFINE gone == {c \in Calls : Running(c) /\ Host[c] = p}
<1>0. /\ TypeOK /\ dead' = dead \cup gone /\ seen' = seen \ InMemory(p)
      /\ UNCHANGED <<pc, idx, code>>
      /\ \A s \in Slots : reserved'[s] = IF s \in InMemory(p) THEN NoToken ELSE reserved[s]
      /\ \A t \in Tokens : res'[t] = IF t[1] \in gone /\ res[t] = "active" THEN "lost" ELSE res[t]
  BY DEF DurableInv, Crash
<1>1. TypeOK'
  <2>1. res' \in [Tokens -> ReservationStates]
    BY DEF Crash, DurableInv, TypeOK, ReservationStates
  <2>2. reserved' \in [Slots -> Tokens \cup {NoToken}]
    BY DEF Crash, DurableInv, TypeOK
  <2> QED BY <1>0, <2>1, <2>2 DEF TypeOK
<1>2. \A t \in Tokens : res[t] = "active" => Running(t[1])
  BY ActiveIsRunning
<1>3. \A t \in Tokens : t[1] \in Calls /\ Slot(t) \in Slots
  BY TokenFacts
<1>4. \A t \in Tokens : Slot(t) \in InMemory(p) => Host[t[1]] = p
  BY MemoryIsOwn
<1>5. \A t \in Tokens : t[1] \in gone /\ Slot(t) \notin InMemory(p) => Slot(t) \in Durable
  BY <1>3, MemoryIsOwn DEF Durable
<1>6. \A s \in Durable : s \notin InMemory(p)
  BY DEF Durable
<1>7. \A c \in gone : ~Answered(c) /\ c \notin dead /\ c \in Calls
  BY DEF Running
<1> HIDE DEF gone
<1>8. LivingLoops'
  <2>1. ASSUME NEW t \in Tokens, t[1] \notin dead' PROVE LoopShapeAt(t)'
    BY <1>0, <2>1 DEF DurableInv, LivingLoops, LoopShapeAt, Before, After
  <2>2. ASSUME NEW c \in Calls, c \notin dead' PROVE CodeShapeAt(c)'
    <3>1. CodeShapeAt(c) /\ \A t \in TokensOf(c) : t \in Tokens /\ t[1] \notin gone
      BY <1>0, <2>2, OwnTokens DEF DurableInv, LivingLoops
    <3> QED BY <1>0, <3>1 DEF CodeShapeAt, Allowed, Answered
  <2> QED BY <2>1, <2>2 DEF LivingLoops
<1>9. DeadAreStill'
  BY <1>0, <1>7 DEF DurableInv, DeadAreStill, Answered
<1>10. RecordsHaveHolders'
  <2>0. RecordsHaveHolders
    BY DEF DurableInv, DurableStores
  <2>1. NoToken \notin Tokens
    BY PlanAssumption
  <2>2. \A s \in Slots : reserved'[s] # NoToken => Slot(reserved'[s]) = s
    BY <1>0, <2>0 DEF RecordsHaveHolders
  <2>3. ASSUME NEW t \in Tokens, res'[t] = "active" PROVE Holds(t)'
    <3>1. res[t] = "active" /\ t[1] \notin gone
      BY <1>0, <2>3
    <3>2. Slot(t) \notin InMemory(p)
      BY <1>2, <1>3, <1>4, <3>1 DEF gone
    <3> QED BY <1>0, <1>3, <2>0, <3>1, <3>2 DEF RecordsHaveHolders, Holds
  <2>4. ASSUME NEW t \in Tokens, Holds(t)'
        PROVE  \/ res'[t] = "active"
               \/ res'[t] = "lost" /\ t[1] \in dead' /\ Slot(t) \in Durable
               \/ res'[t] = "lost" /\ t[1] \notin dead' /\ MayRaise(t)
    <3>1. Holds(t) /\ Slot(t) \notin InMemory(p)
      BY <1>0, <1>3, <2>1, <2>4 DEF Holds
    <3>2. CASE t[1] \in gone
      BY <1>0, <1>5, <1>7, <2>0, <3>1, <3>2 DEF RecordsHaveHolders
    <3>3. CASE t[1] \notin gone
      BY <1>0, <2>0, <3>1, <3>3 DEF RecordsHaveHolders
    <3> QED BY <3>2, <3>3
  <2> QED BY <2>2, <2>3, <2>4 DEF RecordsHaveHolders, Holds
<1>11. CommittedOnDisk'
  BY <1>0, <1>6 DEF DurableInv, DurableStores, CommittedOnDisk
<1>12. ReservedIsFresh'
  BY <1>0, <1>3, PlanAssumption DEF DurableInv, DurableStores, ReservedIsFresh, Holds
<1> QED BY <1>1, <1>8, <1>9, <1>10, <1>11, <1>12 DEF DurableInv, DurableStores

----------------------------------------------------------------------------
(* A file and memories to begin with satisfy the invariant: whatever is    *)
(* used up, nothing is reserved.                                           *)
LEMMA DurableInitEstablishes == DurableInit => DurableInv
<1> SUFFICES ASSUME DurableInit PROVE DurableInv
  OBVIOUS
<1>1. IInv /\ dead = {}
  BY InitInvariant DEF DurableInit
<1>2. LivingLoops /\ DeadAreStill
  BY <1>1 DEF IInv, LoopShape, CodeShape, LivingLoops, DeadAreStill
<1>3. RecordsHaveHolders
  BY PlanAssumption, TokenFacts
  DEF DurableInit, Init, RecordsHaveHolders, Holds
<1>4. CommittedOnDisk
  BY <1>1 DEF IInv, CommittedIsSeen, SoleConsumer, CommittedOnDisk
<1> QED BY <1>1, <1>2, <1>3, <1>4 DEF IInv, DurableInv, DurableStores

(* Every step of a call and every crash preserves the invariant. *)
LEMMA DurableStepPreserves == DurableInv /\ [DurableNext]_allVars => DurableInv'
<1> SUFFICES ASSUME DurableInv, [DurableNext]_allVars PROVE DurableInv'
  OBVIOUS
<1>1. CASE UNCHANGED allVars
  BY <1>1
  DEF allVars, vars, DurableInv, TypeOK, LivingLoops, LoopShapeAt, Before, After, CodeShapeAt,
      Allowed, Answered, DeadAreStill, DurableStores, RecordsHaveHolders, CommittedOnDisk,
      ReservedIsFresh, Holds
<1> QED BY <1>1, LivingStep, CrashPreserves DEF DurableNext

(* The invariant holds throughout. *)
THEOREM DurableInvariance == DurableSpec => []DurableInv
BY DurableInitEstablishes, DurableStepPreserves, PTL DEF DurableSpec

(* A call that is allowed has committed all its nonces. *)
LEMMA AllowedHasCommitted ==
    ASSUME DurableInv, NEW c \in Calls, Allowed(c), NEW t \in TokensOf(c)
    PROVE  t \in Tokens /\ t[1] = c /\ res[t] = "committed"
<1>1. c \notin dead
  BY DEF DurableInv, DeadAreStill, Allowed
<1> QED BY <1>1, OwnTokens DEF DurableInv, LivingLoops, CodeShapeAt

(* Whatever crashes and restarts happen, two calls are never allowed on    *)
(* one nonce on disk (SQLiteReplayCache).                                  *)
THEOREM DiskIsSingleUse == DurableSpec => []DurableSingleUse
<1>1. DurableInv => DurableSingleUse
  <2> SUFFICES ASSUME DurableInv, NEW c \in Calls, NEW d \in Calls, c # d,
                      Allowed(c), Allowed(d),
                      NEW t \in TokensOf(c), NEW u \in TokensOf(d),
                      Slot(t) = Slot(u), Slot(t) \in Durable
               PROVE  FALSE
    BY DEF DurableSingleUse
  <2>1. /\ t \in Tokens /\ t[1] = c /\ res[t] = "committed"
        /\ u \in Tokens /\ u[1] = d /\ res[u] = "committed"
    BY AllowedHasCommitted
  <2> QED BY <2>1 DEF DurableInv, DurableStores, CommittedOnDisk
<1> QED BY <1>1, DurableInvariance, PTL

(* What was allowed is on disk as used, so that it is denied after any     *)
(* restart.                                                                *)
THEOREM AnswersSurvive == DurableSpec => []AllowSurvives
<1>1. DurableInv => AllowSurvives
  BY AllowedHasCommitted DEF AllowSurvives, DurableInv, DurableStores, CommittedOnDisk
<1> QED BY <1>1, DurableInvariance, PTL

(* The stores in memory do not raise (ReplayCache): only the file does.    *)
MemoryNeverRaises == \A p \in Processes : Memory[p] \cap FaultyStores = {}

(* A record without a running call is on disk.                             *)
LEMMA OrphanFacts ==
    ASSUME MemoryNeverRaises, DurableInv, NEW t \in Tokens, Holds(t), ~Running(t[1])
    PROVE  /\ Slot(t) \in Durable
           /\ t[1] \in dead \/ (Answered(t[1]) /\ MayRaise(t))
<1>1. res[t] # "active"
  BY ActiveIsRunning
<1>2. /\ res[t] = "lost"
      /\ \/ t[1] \in dead /\ Slot(t) \in Durable
         \/ t[1] \notin dead /\ MayRaise(t)
  BY <1>1 DEF DurableInv, DurableStores, RecordsHaveHolders
<1>3. CASE t[1] \notin dead
  <2>1. MayRaise(t) /\ Slot(t) \in Slots
    BY <1>2, <1>3, TokenFacts
  <2>2. Slot(t) \in Durable
    BY <2>1, MemoryIsOwn DEF Durable, MemoryNeverRaises, MayRaise
  <2>3. LoopShapeAt(t) /\ t[1] \in Calls /\ t[2] \in 1 .. Len(Plan[t[1]])
    BY <1>3, TokenFacts DEF DurableInv, LivingLoops
  <2>4. Begun(t[1])
    BY <1>2, <2>3 DEF Begun, LoopShapeAt
  <2>5. Answered(t[1])
    BY <1>3, <2>4 DEF Running
  <2> QED BY <2>1, <2>2, <2>5
<1> QED BY <1>2, <1>3

(* A nonce on record for nobody who runs is the price of a crash or of     *)
(* releases that raised.                                                   *)
THEOREM OrphansHaveOneOfTwoCauses ==
    ASSUME MemoryNeverRaises
    PROVE  DurableSpec => []OrphansHaveACause
<1>1. DurableInv => OrphansHaveACause
  BY OrphanFacts DEF OrphansHaveACause
<1> QED BY <1>1, DurableInvariance, PTL

(* Nothing in the code clears such a record: no step of a call, as only    *)
(* its owner would, and no crash, as it is on disk.                        *)
THEOREM OrphansStay ==
    ASSUME MemoryNeverRaises
    PROVE  DurableSpec => OrphansAreForever
<1> DEFINE Stay == \A s \in Slots : Orphaned(s) => Orphaned(s)'
<1>1. ASSUME DurableInv, DurableInv', DurableNext, NEW s \in Slots, Orphaned(s)
      PROVE  Orphaned(s)'
  <2>1. PICK t \in Tokens :
          /\ reserved[s] = t /\ Slot(t) = s /\ Holds(t)
          /\ ~Running(t[1]) /\ NoToken \notin Tokens
    BY <1>1, PlanAssumption
    DEF Orphaned, DurableInv, TypeOK, DurableStores, RecordsHaveHolders, Holds
  <2>2. s \in Durable /\ (t[1] \in dead \/ Answered(t[1])) /\ t[1] \in Calls
    BY <1>1, <2>1, OrphanFacts, TokenFacts
  <2>3. ASSUME NEW c \in Calls, DurableStep(c) PROVE Orphaned(s)'
    <3>1. TypeOK /\ Step(c) /\ c \notin dead /\ dead' = dead /\ Tok(c) \in Tokens /\ Tok(c)[1] = c
      BY <1>1, <2>3, CurrentToken DEF DurableInv, DurableStep
    <3>2. ~Answered(c)
      BY <3>1
      DEF Answered, Step, CheckPasses, CheckDenies, ReserveGranted, ReserveRefused, ReserveRaises,
          CommitSucceeds, CommitRefused, CommitRaises, Decide, ReleaseActive, ReleaseRaises,
          ReleaseSkips, Releasing
    <3>3. t[1] # c /\ t # Tok(c)
      BY <2>2, <3>1, <3>2
    <3>4. reserved'[s] = t
      BY <2>1, <3>1, <3>3, RecordChange
    <3>5. pc'[t[1]] = pc[t[1]]
      BY <2>2, <3>1, <3>3, OthersUntouched
    <3>6. ~Running(t[1])'
      BY <2>2, <3>1, <3>5 DEF Running, Answered
    <3> QED BY <2>1, <3>4, <3>6 DEF Orphaned
  <2>4. ASSUME NEW p \in Processes, Crash(p) PROVE Orphaned(s)'
    <3>1. s \notin InMemory(p)
      BY <2>2 DEF Durable
    <3>2. reserved'[s] = t /\ dead \subseteq dead' /\ pc' = pc
      BY <1>1, <2>1, <2>4, <3>1 DEF Crash, DurableInv, TypeOK
    <3>3. ~Running(t[1])'
      BY <2>2, <3>2 DEF Running, Answered
    <3> QED BY <2>1, <3>2, <3>3 DEF Orphaned
  <2> QED BY <1>1, <2>3, <2>4 DEF DurableNext
<1>2. ASSUME DurableInv, UNCHANGED allVars PROVE Stay
  BY <1>2 DEF allVars, vars, Orphaned, Running, Begun, Answered
<1>3. DurableInv /\ DurableInv' /\ [DurableNext]_allVars => [Stay]_allVars
  BY <1>1
<1> QED BY <1>3, DurableInvariance, PTL DEF DurableSpec, OrphansAreForever
=============================================================================
