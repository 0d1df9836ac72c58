------------------------- MODULE EnforcementProofs -------------------------
(***************************************************************************)
(* Whatever is submitted, by any number of threads, at a boundary of any   *)
(* kind: an effect has one permit and a permit one effect.  The argument   *)
(* is about ownership of slots.  Those a thread holds are held by no other *)
(* and used by nobody; once used up they belong to one answer, given or    *)
(* about to be, and to no second one.                                      *)
(*                                                                         *)
(* The second part is about the verdict itself.  A table of checks passes  *)
(* if none of its rows refuses; each table then means one conjunct of the  *)
(* reference, because schema checks before it have made sure that what it  *)
(* compares is there and can be compared.                                  *)
(***************************************************************************)
EXTENDS Enforcement, FiniteSetTheorems, WellFoundedInduction, TLAPS

Points == {"boundary", "gateway"}

\* What a call that passed its checks has to use up, if caches are shared (sh) or not.
SlotsOf(sh, point, c) ==
    IF point = "boundary" THEN PermitSlots(c)
    ELSE <<CapabilitySlot(c, IF sh THEN "capability" ELSE "gateway")>>

SlotSet(s) == {s[i] : i \in DOMAIN s}

Pending == {t \in Threads : thread[t].phase = "allowed"}
Answers == BagToSet(allowed)

(* What each thread is doing *)
IsCall(sh, th) ==
    /\ th = [phase |-> th.phase, point |-> th.point, call |-> th.call, slots |-> th.slots,
             held |-> th.held]
    /\ th.phase \in {"reserving", "allowed"}
    /\ th.point \in Points
    /\ th.slots = SlotsOf(sh, th.point, th.call)
    /\ th.held \in 0 .. Len(th.slots)

ThreadsType ==
    /\ DOMAIN thread = Threads
    /\ \A t \in Threads : thread[t] \in {Idle, Refused} \/ IsCall(shared, thread[t])

(* The slots a thread holds are nobody else's. *)
HeldAreFree ==
    /\ \A t \in Threads : Held(t) \cap used = {}
    /\ \A t, u \in Threads : t # u => Held(t) \cap Held(u) = {}

(* A slot that is used up belongs to one answer. *)
AnswersType ==
    \A e \in Answers : e.point \in Points /\ e.slots = SlotsOf(shared, e.point, e.call)

UsedIsOwned ==
    used = UNION ({SlotSet(e.slots) : e \in Answers}
                  \cup {SlotSet(thread[t].slots) : t \in Pending})

OneOwner ==
    /\ \A e \in Answers : allowed[e] = 1
    /\ \A e, f \in Answers : e # f => SlotSet(e.slots) \cap SlotSet(f.slots) = {}
    /\ \A t \in Pending, e \in Answers : SlotSet(thread[t].slots) \cap SlotSet(e.slots) = {}
    /\ \A t, u \in Pending : t # u => SlotSet(thread[t].slots) \cap SlotSet(thread[u].slots) = {}

ServedUnlessMissing ==
    \A e \in Answers :
        e.served \/ (boundary = "retrieval" /\ e.call.request.target_id \notin Records)

Inv ==
    /\ ThreadsType /\ HeldAreFree
    /\ AnswersType /\ UsedIsOwned /\ OneOwner /\ ServedUnlessMissing

----------------------------------------------------------------------------

(* Every call has a slot. *)
LEMMA SlotsType ==
    ASSUME NEW sh, NEW point, NEW c
    PROVE  /\ Len(SlotsOf(sh, point, c)) \in {1, 2}
           /\ DOMAIN SlotsOf(sh, point, c) = 1 .. Len(SlotsOf(sh, point, c))
           /\ SlotSet(SlotsOf(sh, point, c)) # {}
<1>1. \A x : Len(<<x>>) = 1 /\ DOMAIN <<x>> = 1 .. 1
  OBVIOUS
<1>2. \A x, y : Len(<<x, y>>) = 2 /\ DOMAIN <<x, y>> = 1 .. 2
  OBVIOUS
<1>3. \/ \E x : SlotsOf(sh, point, c) = <<x>>
      \/ \E x, y : SlotsOf(sh, point, c) = <<x, y>>
  BY DEF SlotsOf, PermitSlots
<1>4. 1 \in 1 .. 1 /\ 1 \in 1 .. 2
  OBVIOUS
<1> QED  BY <1>1, <1>2, <1>3, <1>4 DEF SlotSet

LEMMA AddAnswer ==
    ASSUME NEW e, allowed' = allowed (+) SetToBag({e})
    PROVE  /\ Answers' = Answers \cup {e}
           /\ e \notin Answers => allowed'[e] = 1
           /\ \A f \in Answers : f # e => allowed'[f] = allowed[f] + 0
  BY DEF Answers, BagToSet, (+), SetToBag

LEMMA IdleIsNoCall ==
    /\ Idle.phase = "idle" /\ Refused.phase = "refused"
    /\ \A sh : ~IsCall(sh, Idle) /\ ~IsCall(sh, Refused)
    /\ Idle # Refused
  BY DEF Idle, Refused, IsCall

(* Who has used a slot up, in words. *)
LEMMA UsedSlots ==
    UsedIsOwned <=>
        \A s : s \in used <=>
            \/ \E e \in Answers : s \in SlotSet(e.slots)
            \/ \E t \in Pending : s \in SlotSet(thread[t].slots)
<1> DEFINE given == {SlotSet(e.slots) : e \in Answers}
           due == {SlotSet(thread[t].slots) : t \in Pending}
<1>1. \A s : s \in UNION (given \cup due) <=>
            \/ \E e \in Answers : s \in SlotSet(e.slots)
            \/ \E t \in Pending : s \in SlotSet(thread[t].slots)
  OBVIOUS
<1>2. UsedIsOwned <=> used = UNION (given \cup due)
  BY DEF UsedIsOwned
<1> HIDE DEF given, due
<1> QED  BY <1>1, <1>2

LEMMA HeldFacts ==
    ASSUME NEW t \in Threads, ThreadsType
    PROVE  /\ thread[t].phase # "reserving" => Held(t) = {}
           /\ thread[t].phase = "reserving" => Held(t) \subseteq SlotSet(thread[t].slots)
           /\ thread[t].phase = "reserving" /\ thread[t].held = 0 => Held(t) = {}
           /\ thread[t].phase = "reserving" /\ thread[t].held = Len(thread[t].slots) =>
                 Held(t) = SlotSet(thread[t].slots)
<1>1. thread[t].phase # "reserving" => Held(t) = {}
  BY DEF Held
<1>2. ASSUME thread[t].phase = "reserving"
      PROVE  /\ Held(t) = {thread[t].slots[i] : i \in 1 .. thread[t].held}
             /\ thread[t].held \in 0 .. Len(thread[t].slots)
             /\ Len(thread[t].slots) \in {1, 2}
             /\ DOMAIN thread[t].slots = 1 .. Len(thread[t].slots)
  BY <1>2, IdleIsNoCall, SlotsType DEF Held, ThreadsType, IsCall
<1>3. ASSUME thread[t].phase = "reserving" PROVE Held(t) \subseteq SlotSet(thread[t].slots)
  BY <1>2, <1>3 DEF SlotSet
<1>4. ASSUME thread[t].phase = "reserving", thread[t].held = 0 PROVE Held(t) = {}
  BY <1>2, <1>4
<1>5. ASSUME thread[t].phase = "reserving", thread[t].held = Len(thread[t].slots)
      PROVE  Held(t) = SlotSet(thread[t].slots)
  BY <1>2, <1>5 DEF SlotSet
<1> QED  BY <1>1, <1>3, <1>4, <1>5

(* A step of one thread that neither uses a slot up nor answers, and after  *)
(* which it holds nothing that somebody else holds or that is used.        *)
LEMMA QuietStep ==
    ASSUME Inv, NEW t \in Threads,
           DOMAIN thread' = Threads, \A u \in Threads : u # t => thread'[u] = thread[u],
           thread[t].phase # "allowed",
           \/ thread'[t] \in {Idle, Refused}
           \/ IsCall(shared, thread'[t]) /\ thread'[t].phase = "reserving",
           \A s \in Held(t)' : s \in Held(t) \/ s \notin used \cup UNION {Held(u) : u \in Threads},
           UNCHANGED <<boundary, shared, used, allowed>>
    PROVE  Inv'
<1>1. ThreadsType'
  BY DEF Inv, ThreadsType
<1>2. \A u \in Threads : u # t => Held(u)' = Held(u)
  BY DEF Held
<1>3. HeldAreFree'
  <2>1. Held(t)' \cap used = {}
    BY DEF Inv, HeldAreFree
  <2>2. \A u \in Threads : u # t => Held(t)' \cap Held(u) = {}
    BY DEF Inv, HeldAreFree
  <2> QED  BY <1>2, <2>1, <2>2 DEF Inv, HeldAreFree
<1>4. Answers' = Answers
  BY DEF Answers
<1>5. Pending' = Pending /\ \A u \in Pending : thread'[u] = thread[u]
  <2>1. thread'[t].phase # "allowed"
    BY IdleIsNoCall
  <2> QED  BY <2>1 DEF Pending
<1>6. AnswersType'
  BY <1>4 DEF Inv, AnswersType
<1>7. UsedIsOwned'
  BY <1>4, <1>5 DEF Inv, UsedIsOwned
<1>8. OneOwner'
  BY <1>4, <1>5 DEF Inv, OneOwner
<1>9. ServedUnlessMissing'
  BY <1>4 DEF Inv, ServedUnlessMissing
<1> QED  BY <1>1, <1>3, <1>6, <1>7, <1>8, <1>9 DEF Inv

----------------------------------------------------------------------------
(* The steps.                                                              *)

LEMMA SubmitPreserves ==
    ASSUME Inv, NEW t \in Threads, NEW point \in Points, NEW c, NEW code, NEW slots,
           slots = SlotsOf(shared, point, c), Submit(t, point, c, code, slots)
    PROVE  Inv'
<1> DEFINE call == [phase |-> "reserving", point |-> point, call |-> c, slots |-> slots, held |-> 0]
<1>1. /\ thread[t] = Idle
      /\ thread' = [thread EXCEPT ![t] = IF code # "" THEN Refused ELSE call]
      /\ UNCHANGED <<boundary, shared, used, allowed>>
  BY DEF Submit
<1>2. IsCall(shared, call) /\ call.phase = "reserving" /\ call.held = 0
  <2>1. Len(slots) \in {1, 2}
    BY SlotsType
  <2> QED  BY <2>1 DEF IsCall
<1> HIDE DEF call
<1>3. DOMAIN thread' = Threads /\ \A u \in Threads : u # t => thread'[u] = thread[u]
  BY <1>1 DEF Inv, ThreadsType
<1>4. thread'[t] = Refused \/ thread'[t] = call
  BY <1>1 DEF Inv, ThreadsType
<1>5. Held(t)' = {}
  BY <1>2, <1>4, IdleIsNoCall DEF Held
<1>6. thread[t].phase # "allowed"
  BY <1>1, IdleIsNoCall
<1>7. \/ thread'[t] \in {Idle, Refused}
      \/ IsCall(shared, thread'[t]) /\ thread'[t].phase = "reserving"
  BY <1>2, <1>4
<1>8. \A s \in Held(t)' : s \in Held(t) \/ s \notin used \cup UNION {Held(u) : u \in Threads}
  BY <1>5
<1> QED  BY <1>1, <1>3, <1>6, <1>7, <1>8, QuietStep

LEMMA ReservePreserves ==
    ASSUME Inv, NEW t \in Threads, Reserve(t)
    PROVE  Inv'
<1> DEFINE th == thread[t]
           s == th.slots[th.held + 1]
           more == [th EXCEPT !.held = @ + 1]
<1>1. /\ th.phase = "reserving" /\ th.held < Len(th.slots)
      /\ thread' = [thread EXCEPT ![t] =
                       IF s \in used \cup UNION {Held(u) : u \in Threads} THEN Refused ELSE more]
      /\ UNCHANGED <<boundary, shared, used, allowed>>
  BY DEF Reserve
<1>2. IsCall(shared, th)
  BY <1>1, IdleIsNoCall DEF Inv, ThreadsType
<1>3. IsCall(shared, more) /\ more.phase = "reserving"
      /\ more.slots = th.slots /\ more.held = th.held + 1
  <2>1. more = [phase |-> th.phase, point |-> th.point, call |-> th.call, slots |-> th.slots,
                held |-> th.held + 1]
    BY <1>2 DEF IsCall
  <2>2. th.held \in Nat /\ Len(th.slots) \in Nat
    BY <1>2, SlotsType DEF IsCall
  <2> HIDE DEF more
  <2> QED  BY <1>1, <1>2, <2>1, <2>2 DEF IsCall
<1> HIDE DEF more
<1>4. DOMAIN thread' = Threads /\ \A u \in Threads : u # t => thread'[u] = thread[u]
  BY <1>1 DEF Inv, ThreadsType
<1>5. \A x \in Held(t)' : x \in Held(t) \/ x \notin used \cup UNION {Held(u) : u \in Threads}
  <2>1. CASE s \in used \cup UNION {Held(u) : u \in Threads}
    <3>1. thread'[t] = Refused
      BY <1>1, <2>1 DEF Inv, ThreadsType
    <3>2. Held(t)' = {}
      BY <3>1, IdleIsNoCall DEF Held
    <3> QED  BY <3>2
  <2>2. CASE s \notin used \cup UNION {Held(u) : u \in Threads}
    <3>1. thread'[t] = more
      BY <1>1, <2>2 DEF Inv, ThreadsType
    <3>2. Held(t)' = {th.slots[i] : i \in 1 .. th.held + 1}
      BY <1>3, <3>1 DEF Held
    <3>3. Held(t) = {th.slots[i] : i \in 1 .. th.held}
      BY <1>1 DEF Held
    <3>4. th.held \in Nat
      BY <1>2, SlotsType DEF IsCall
    <3>5. \A i \in 1 .. th.held + 1 : i \in 1 .. th.held \/ i = th.held + 1
      BY <3>4
    <3> QED  BY <2>2, <3>2, <3>3, <3>5
  <2> QED  BY <2>1, <2>2
<1>6. thread'[t] = Refused \/ thread'[t] = more
  BY <1>1 DEF Inv, ThreadsType
<1>7. \/ thread'[t] \in {Idle, Refused}
      \/ IsCall(shared, thread'[t]) /\ thread'[t].phase = "reserving"
  BY <1>3, <1>6
<1>8. thread[t].phase # "allowed"
  BY <1>1
<1> QED  BY <1>1, <1>4, <1>5, <1>7, <1>8, QuietStep

LEMMA ReturnPreserves ==
    ASSUME Inv, NEW t \in Threads, Return(t)
    PROVE  Inv'
<1>1. /\ thread[t] = Refused /\ thread' = [thread EXCEPT ![t] = Idle]
      /\ UNCHANGED <<boundary, shared, used, allowed>>
  BY DEF Return
<1>2. /\ DOMAIN thread' = Threads /\ \A u \in Threads : u # t => thread'[u] = thread[u]
      /\ thread'[t] = Idle
  BY <1>1 DEF Inv, ThreadsType
<1>3. Held(t)' = {}
  BY <1>2, IdleIsNoCall DEF Held
<1>4. thread[t].phase # "allowed"
  BY <1>1, IdleIsNoCall
<1>5. thread'[t] \in {Idle, Refused}
  BY <1>2
<1>6. \A s \in Held(t)' : s \in Held(t) \/ s \notin used \cup UNION {Held(u) : u \in Threads}
  BY <1>3
<1> QED  BY <1>1, <1>2, <1>4, <1>5, <1>6, QuietStep

(* What a thread commits was its own: it becomes the owner. *)
LEMMA CommitPreserves ==
    ASSUME Inv, NEW t \in Threads, Commit(t)
    PROVE  Inv'
<1> DEFINE th == thread[t]
           mine == SlotSet(th.slots)
           done == [th EXCEPT !.phase = "allowed"]
<1>1. /\ th.phase = "reserving" /\ th.held = Len(th.slots)
      /\ used' = used \cup Held(t)
      /\ thread' = [thread EXCEPT ![t].phase = "allowed"]
      /\ UNCHANGED <<boundary, shared, allowed>>
  BY DEF Commit
<1>2. IsCall(shared, th)
  BY <1>1, IdleIsNoCall DEF Inv, ThreadsType
<1>3. thread'[t] = done /\ DOMAIN thread' = Threads
      /\ \A u \in Threads : u # t => thread'[u] = thread[u]
  BY <1>1 DEF Inv, ThreadsType
<1>4. IsCall(shared, done) /\ done.phase = "allowed" /\ done.slots = th.slots
  <2>1. done = [phase |-> "allowed", point |-> th.point, call |-> th.call, slots |-> th.slots,
                held |-> th.held]
    BY <1>2 DEF IsCall
  <2> HIDE DEF done
  <2> QED  BY <1>2, <2>1 DEF IsCall
<1> HIDE DEF done
<1>5. Held(t) = mine
  BY <1>1, HeldFacts DEF Inv
<1>6. ThreadsType'
  BY <1>1, <1>3, <1>4 DEF Inv, ThreadsType
<1>7. Pending' = Pending \cup {t} /\ t \notin Pending /\ Answers' = Answers
  BY <1>1, <1>3, <1>4 DEF Pending, Answers
<1>8. /\ SlotSet(thread[t].slots)' = mine
      /\ \A u \in Pending : SlotSet(thread[u].slots)' = SlotSet(thread[u].slots)
  BY <1>3, <1>4, <1>7 DEF SlotSet, Pending
<1>9. /\ Held(t)' = {} /\ \A u \in Threads : u # t => Held(u)' = Held(u)
  BY <1>3, <1>4 DEF Held
<1>10. HeldAreFree'
  BY <1>1, <1>9 DEF Inv, HeldAreFree
<1>11. mine \cap used = {}
  BY <1>5 DEF Inv, HeldAreFree
<1> HIDE DEF mine
<1>12. /\ \A e \in Answers : SlotSet(e.slots) \subseteq used
       /\ \A u \in Pending : SlotSet(thread[u].slots) \subseteq used
  BY UsedSlots DEF Inv
<1>13. UsedIsOwned'
  <2>1. used' = used \cup mine
    BY <1>1, <1>5
  <2>2. used = UNION ({SlotSet(e.slots) : e \in Answers}
                      \cup {SlotSet(thread[u].slots) : u \in Pending})
    BY DEF Inv, UsedIsOwned
  <2>3. {SlotSet(thread[u].slots) : u \in Pending}'
            = {SlotSet(thread[u].slots) : u \in Pending} \cup {mine}
    BY <1>7, <1>8
  <2> DEFINE given == {SlotSet(e.slots) : e \in Answers}
             due == {SlotSet(thread[u].slots) : u \in Pending}
  <2>4. given' = given /\ used = UNION (given \cup due) /\ due' = due \cup {mine}
    BY <1>7, <2>2, <2>3
  <2>5. UsedIsOwned' <=> used' = UNION (given' \cup due')
    BY DEF UsedIsOwned
  <2> HIDE DEF given, due
  <2>6. \A x : x \in UNION (given \cup (due \cup {mine}))
                <=> x \in UNION (given \cup due) \/ x \in mine
    OBVIOUS
  <2> QED  BY <2>1, <2>4, <2>5, <2>6
<1>14. OneOwner'
  <2>1. \A e \in Answers' : allowed'[e] = 1
    BY <1>1, <1>7 DEF Inv, OneOwner
  <2>2. \A e, f \in Answers' : e # f => SlotSet(e.slots) \cap SlotSet(f.slots) = {}
    BY <1>7 DEF Inv, OneOwner
  <2>3. \A u \in Pending', e \in Answers' : SlotSet(thread[u].slots)' \cap SlotSet(e.slots) = {}
    BY <1>7, <1>8, <1>11, <1>12 DEF Inv, OneOwner
  <2>4. \A u, v \in Pending' :
            u # v => SlotSet(thread[u].slots)' \cap SlotSet(thread[v].slots)' = {}
    BY <1>7, <1>8, <1>11, <1>12 DEF Inv, OneOwner
  <2> QED  BY <2>1, <2>2, <2>3, <2>4 DEF OneOwner
<1>15. AnswersType' /\ ServedUnlessMissing'
  BY <1>1, <1>7 DEF Inv, AnswersType, ServedUnlessMissing
<1> QED  BY <1>6, <1>10, <1>13, <1>14, <1>15 DEF Inv

(* A pending call is answered: what it owned, its answer owns. *)
LEMMA ServePreserves ==
    ASSUME Inv, NEW t \in Threads, Serve(t)
    PROVE  Inv'
<1> DEFINE th == thread[t]
           mine == SlotSet(th.slots)
           answer == [point |-> th.point, call |-> th.call, slots |-> th.slots,
                      served |-> HasEffect(th.point, th.call)]
<1>1. /\ th.phase = "allowed"
      /\ allowed' = allowed (+) SetToBag({answer})
      /\ thread' = [thread EXCEPT ![t] = Idle]
      /\ UNCHANGED <<boundary, shared, used>>
  BY DEF Serve
<1>2. IsCall(shared, th) /\ t \in Pending
  BY <1>1, IdleIsNoCall DEF Inv, ThreadsType, Pending
<1>3. thread'[t] = Idle /\ DOMAIN thread' = Threads
      /\ \A u \in Threads : u # t => thread'[u] = thread[u]
  BY <1>1 DEF Inv, ThreadsType
<1>4. answer.point = th.point /\ answer.call = th.call /\ answer.slots = th.slots
      /\ (answer.served <=> HasEffect(th.point, th.call))
  OBVIOUS
<1> HIDE DEF answer
<1>5. th.point \in Points /\ th.slots = SlotsOf(shared, th.point, th.call) /\ mine # {}
  BY <1>2, SlotsType DEF IsCall
<1>6. answer \notin Answers
  <2>1. \A e \in Answers : mine \cap SlotSet(e.slots) = {}
    BY <1>2 DEF Inv, OneOwner
  <2> QED  BY <1>4, <1>5, <2>1
<1>7. /\ Answers' = Answers \cup {answer}
      /\ allowed'[answer] = 1
      /\ \A e \in Answers : allowed'[e] = allowed[e] + 0
  BY <1>1, <1>6, AddAnswer
<1>8. Pending' = Pending \ {t} /\ \A u \in Pending' : thread'[u] = thread[u]
  BY <1>3, IdleIsNoCall DEF Pending
<1>9. ThreadsType'
  BY <1>1, <1>3 DEF Inv, ThreadsType
<1>10. HeldAreFree'
  <2>1. Held(t)' = {} /\ \A u \in Threads : u # t => Held(u)' = Held(u)
    BY <1>3, IdleIsNoCall DEF Held
  <2> QED  BY <1>1, <2>1 DEF Inv, HeldAreFree
<1>11. AnswersType'
  BY <1>1, <1>4, <1>5, <1>7 DEF Inv, AnswersType
<1>12. UsedIsOwned'
  <2>1. \A s : s \in used <=>
            \/ \E e \in Answers : s \in SlotSet(e.slots)
            \/ \E u \in Pending : s \in SlotSet(thread[u].slots)
    BY UsedSlots DEF Inv
  <2>2. SlotSet(answer.slots) = mine
    BY <1>4
  <2>3. \A s : s \in used' <=>
            \/ \E e \in Answers' : s \in SlotSet(e.slots)
            \/ \E u \in Pending' : s \in SlotSet(thread'[u].slots)
    <3> HIDE DEF mine
    <3>1. mine = SlotSet(thread[t].slots)
      BY DEF mine
    <3> HIDE DEF th
    <3> QED  BY <1>1, <1>2, <1>7, <1>8, <2>1, <2>2, <3>1
  <2>4. UsedIsOwned' <=>
        \A s : s \in used' <=>
            \/ \E e \in Answers' : s \in SlotSet(e.slots)
            \/ \E u \in Pending' : s \in SlotSet(thread'[u].slots)
    <3> DEFINE given == {SlotSet(e.slots) : e \in Answers'}
               due == {SlotSet(thread'[u].slots) : u \in Pending'}
    <3>1. \A s : s \in UNION (given \cup due) <=>
            \/ \E e \in Answers' : s \in SlotSet(e.slots)
            \/ \E u \in Pending' : s \in SlotSet(thread'[u].slots)
      OBVIOUS
    <3>2. UsedIsOwned' <=> used' = UNION (given \cup due)
      BY DEF UsedIsOwned, SlotSet
    <3> HIDE DEF given, due
    <3> QED  BY <3>1, <3>2
  <2> QED  BY <2>3, <2>4
<1>13. OneOwner'
  <2>1. \A e \in Answers' : allowed'[e] = 1
    BY <1>7 DEF Inv, OneOwner
  <2>2. SlotSet(answer.slots) = mine /\ mine = SlotSet(thread[t].slots)
    BY <1>4
  <2> HIDE DEF mine
  <2>3. \A e, f \in Answers' : e # f => SlotSet(e.slots) \cap SlotSet(f.slots) = {}
    BY <1>2, <1>7, <2>2 DEF Inv, OneOwner
  <2>4. \A u \in Pending', e \in Answers' : SlotSet(thread'[u].slots) \cap SlotSet(e.slots) = {}
    BY <1>2, <1>7, <1>8, <2>2 DEF Inv, OneOwner
  <2>5. \A u, v \in Pending' :
            u # v => SlotSet(thread'[u].slots) \cap SlotSet(thread'[v].slots) = {}
    BY <1>8 DEF Inv, OneOwner
  <2> QED  BY <2>1, <2>3, <2>4, <2>5 DEF OneOwner, SlotSet
<1>14. ServedUnlessMissing'
  <2>1. \/ answer.served
        \/ boundary = "retrieval" /\ answer.call.request.target_id \notin Records
    BY <1>4 DEF HasEffect
  <2> QED  BY <1>1, <1>7, <2>1 DEF Inv, ServedUnlessMissing
<1> QED  BY <1>9, <1>10, <1>11, <1>12, <1>13, <1>14 DEF Inv

----------------------------------------------------------------------------

LEMMA InitEstablishes == Init => Inv
<1> SUFFICES ASSUME Init PROVE Inv
  OBVIOUS
<1>1. Answers = {} /\ used = {}
  BY DEF Init, Answers, BagToSet, EmptyBag, SetToBag
<1>2. DOMAIN thread = Threads /\ \A t \in Threads : thread[t] = Idle
  BY DEF Init
<1>3. Pending = {} /\ \A t \in Threads : Held(t) = {}
  BY <1>2, IdleIsNoCall DEF Pending, Held
<1>4. ThreadsType /\ HeldAreFree
  BY <1>1, <1>2, <1>3 DEF ThreadsType, HeldAreFree
<1>5. UsedIsOwned
  BY <1>1, <1>3 DEF UsedIsOwned
<1>6. AnswersType /\ OneOwner /\ ServedUnlessMissing
  BY <1>1, <1>3 DEF AnswersType, OneOwner, ServedUnlessMissing
<1> QED  BY <1>4, <1>5, <1>6 DEF Inv

LEMMA StepPreserves == Inv /\ [Next]_vars => Inv'
<1> SUFFICES ASSUME Inv, [Next]_vars PROVE Inv'
  OBVIOUS
<1>1. ASSUME NEW t \in Threads, NEW c, SubmitPermit(t, c) PROVE Inv'
  <2>1. PermitSlots(c) = SlotsOf(shared, "boundary", c) /\ "boundary" \in Points
    BY DEF SlotsOf, Points
  <2>2. Submit(t, "boundary", c, PermitCode(c), PermitSlots(c))
    BY <1>1 DEF SubmitPermit
  <2> QED  BY <2>1, <2>2, SubmitPreserves
<1>2. ASSUME NEW t \in Threads, NEW c, GatewayCommit(t, c) PROVE Inv'
  <2> DEFINE d == [c EXCEPT !.context = GatewayContext(@)]
  <2>1. Submit(t, "gateway", d, GatewayCode(d), GatewaySlots(d))
    BY <1>2 DEF GatewayCommit
  <2> HIDE DEF d
  <2>2. GatewaySlots(d) = SlotsOf(shared, "gateway", d) /\ "gateway" \in Points
    BY DEF SlotsOf, GatewaySlots, Points
  <2> QED  BY <2>1, <2>2, SubmitPreserves
<1>3. CASE Next
  <2>1. PICK t \in Threads :
            \/ \E c \in Inputs :
                \/ HandleRetrieve(t, c) \/ HandleEgress(t, c) \/ HandleCheck(t, c) \/ Release(t, c)
                \/ GatewayCommit(t, c)
            \/ Reserve(t) \/ Commit(t) \/ Serve(t) \/ Return(t)
    BY <1>3 DEF Next
  <2>2. ASSUME NEW c, HandleRetrieve(t, c) \/ HandleEgress(t, c) \/ HandleCheck(t, c) \/ Release(t, c)
        PROVE  Inv'
    BY <1>1, <2>2 DEF HandleRetrieve, HandleEgress, HandleCheck, Release
  <2>3. CASE Reserve(t)
    BY <2>3, ReservePreserves
  <2>4. CASE Commit(t)
    BY <2>4, CommitPreserves
  <2>5. CASE Serve(t)
    BY <2>5, ServePreserves
  <2>6. CASE Return(t)
    BY <2>6, ReturnPreserves
  <2> QED  BY <1>2, <2>1, <2>2, <2>3, <2>4, <2>5, <2>6
<1>4. CASE UNCHANGED vars
  <2>1. /\ thread' = thread /\ used' = used /\ shared' = shared /\ boundary' = boundary
        /\ allowed' = allowed
    BY <1>4 DEF vars
  <2>2. Answers' = Answers /\ Pending' = Pending /\ \A t \in Threads : Held(t)' = Held(t)
    BY <2>1 DEF Held, Answers, Pending
  <2>3. ThreadsType' /\ HeldAreFree'
    BY <2>1, <2>2 DEF Inv, ThreadsType, HeldAreFree
  <2>4. UsedIsOwned'
    BY <2>1, <2>2 DEF Inv, UsedIsOwned
  <2>5. AnswersType' /\ OneOwner' /\ ServedUnlessMissing'
    BY <2>1, <2>2 DEF Inv, AnswersType, OneOwner, ServedUnlessMissing
  <2> QED  BY <2>3, <2>4, <2>5 DEF Inv
<1> QED  BY <1>3, <1>4

(* The inductive invariant: who owns which slot at every step of every call. *)
THEOREM Invariance == Spec => []Inv
<1> QED  BY InitEstablishes, StepPreserves, PTL DEF Spec

(* The cache a point keeps its capabilities in, and the slots in it. *)
StoreOf(sh, point) == IF point = "boundary" \/ sh THEN "capability" ELSE "gateway"

LEMMA FirstSlot ==
    ASSUME NEW sh, NEW c
    PROVE  ReceiptSlot(c) \in SlotSet(SlotsOf(sh, "boundary", c))
<1> DEFINE s == SlotsOf(sh, "boundary", c)
<1>1. s = <<ReceiptSlot(c)>> \/ s = <<ReceiptSlot(c), CapabilitySlot(c, "capability")>>
  BY DEF SlotsOf, PermitSlots
<1>2. 1 \in DOMAIN s /\ s[1] = ReceiptSlot(c)
  <2> HIDE DEF s
  <2> QED  BY <1>1
<1> QED  BY <1>2 DEF SlotSet

LEMMA CapabilityHasSlot ==
    ASSUME NEW sh, NEW e, e.point \in Points, e.slots = SlotsOf(sh, e.point, e.call),
           Capabilities(e) # {}
    PROVE  CapabilitySlot(e.call, StoreOf(sh, e.point)) \in SlotSet(e.slots)
<1> DEFINE slot == CapabilitySlot(e.call, StoreOf(sh, e.point))
<1>1. CASE e.point = "gateway"
  <2>1. e.slots = <<slot>>
    BY <1>1 DEF SlotsOf, StoreOf
  <2>2. slot \in SlotSet(e.slots)
    <3> HIDE DEF slot
    <3> QED  BY <2>1 DEF SlotSet
  <2> QED  BY <2>2
<1>2. CASE e.point = "boundary"
  <2>1. NeedsCapability(e.call) /\ "capability_replay_cache" \in DOMAIN e.call.context
    BY <1>2 DEF Capabilities
  <2>2. e.slots = <<ReceiptSlot(e.call), slot>>
    BY <1>2, <2>1 DEF SlotsOf, StoreOf, PermitSlots
  <2>3. slot \in SlotSet(e.slots)
    <3> HIDE DEF slot
    <3>1. 2 \in DOMAIN e.slots /\ e.slots[2] = slot
      BY <2>2
    <3> QED  BY <3>1 DEF SlotSet
  <2> QED  BY <2>3
<1> QED  BY <1>1, <1>2 DEF Points

LEMMA SamePermitSameSlot ==
    ASSUME NEW c, NEW d, PermitIdentity(c) = PermitIdentity(d)
    PROVE  ReceiptSlot(c) = ReceiptSlot(d)
  BY DEF PermitIdentity, Identity, ReceiptSlot

LEMMA SameCapabilitySameSlot ==
    ASSUME NEW e, NEW f, NEW x \in Capabilities(e), x \in Capabilities(f), NEW store
    PROVE  CapabilitySlot(e.call, store) = CapabilitySlot(f.call, store)
<1> DEFINE identity(token) ==
               Identity(token.issuer_id, token.core, token.core.tenant_id, token.core.audience)
           t == e.call.context.capability_token
           u == f.call.context.capability_token
<1>1. x = identity(t) /\ x = identity(u)
  BY DEF Capabilities
<1>2. identity(t) = identity(u)
  BY <1>1
<1> QED  BY <1>2 DEF CapabilitySlot, Identity

(* Whatever is submitted, by however many threads, to a boundary of any     *)
(* kind, with caches shared or not: two answers at the boundary are due to  *)
(* different receipts, and a capability serves once where its cache is.     *)
THEOREM SingleUseHolds == Spec => []EffectsAreSingleUse
<1>1. Inv => EffectsAreSingleUse
  <2> SUFFICES ASSUME Inv PROVE EffectsAreSingleUse
    OBVIOUS
  <2>1. \A e \in Answers : allowed[e] = 1
    BY DEF Inv, OneOwner
  <2>2. ASSUME NEW e \in Answers, NEW f \in Answers, e # f
        PROVE  /\ {e.point, f.point} = {"boundary"} =>
                     PermitIdentity(e.call) # PermitIdentity(f.call)
               /\ e.point = f.point \/ shared => Capabilities(e) \cap Capabilities(f) = {}
    <3>1. /\ e.point \in Points /\ e.slots = SlotsOf(shared, e.point, e.call)
          /\ f.point \in Points /\ f.slots = SlotsOf(shared, f.point, f.call)
          /\ SlotSet(e.slots) \cap SlotSet(f.slots) = {}
      BY <2>2 DEF Inv, AnswersType, OneOwner
    <3>2. ASSUME {e.point, f.point} = {"boundary"}
          PROVE  PermitIdentity(e.call) # PermitIdentity(f.call)
      <4>1. e.point = "boundary" /\ f.point = "boundary"
        BY <3>2
      <4>2. ReceiptSlot(e.call) \in SlotSet(e.slots) /\ ReceiptSlot(f.call) \in SlotSet(f.slots)
        BY <3>1, <4>1, FirstSlot
      <4>3. ReceiptSlot(e.call) # ReceiptSlot(f.call)
        BY <3>1, <4>2
      <4> QED  BY <4>3, SamePermitSameSlot
    <3>3. ASSUME e.point = f.point \/ shared
          PROVE  Capabilities(e) \cap Capabilities(f) = {}
      <4> SUFFICES ASSUME NEW x \in Capabilities(e), x \in Capabilities(f) PROVE FALSE
        OBVIOUS
      <4>1. \E s \in SlotSet(e.slots) : s \in SlotSet(f.slots)
        <5>1. CapabilitySlot(e.call, StoreOf(shared, e.point)) \in SlotSet(e.slots)
          BY <3>1, CapabilityHasSlot
        <5>2. CapabilitySlot(f.call, StoreOf(shared, f.point)) \in SlotSet(f.slots)
          BY <3>1, CapabilityHasSlot
        <5>3. StoreOf(shared, e.point) = StoreOf(shared, f.point)
          BY <3>1, <3>3 DEF StoreOf, Points
        <5>4. CapabilitySlot(e.call, StoreOf(shared, e.point))
                = CapabilitySlot(f.call, StoreOf(shared, e.point))
          BY SameCapabilitySameSlot
        <5> QED  BY <5>1, <5>2, <5>3, <5>4
      <4> QED  BY <3>1, <4>1
    <3> QED  BY <3>2, <3>3
  <2> QED  BY <2>1, <2>2 DEF EffectsAreSingleUse, Answers
<1> QED  BY <1>1, Invariance, PTL

(* Whatever is submitted: what is used up was answered with ALLOW or is     *)
(* about to be, and an answer is served unless the record does not exist.   *)
THEOREM UsesAreServed == Spec => []UsedMeansServed
<1>1. Inv => UsedMeansServed
  <2> SUFFICES ASSUME Inv PROVE UsedMeansServed
    OBVIOUS
  <2> QED  BY DEF Inv, UsedIsOwned, ServedUnlessMissing, UsedMeansServed, Answers, Pending, SlotSet
<1> QED  BY <1>1, Invariance, PTL

----------------------------------------------------------------------------
(* The verdict                                                             *)

(* No check has refused. *)
Passes(code) == code = ""

Codes ==
    {"CANONICALIZATION_PROFILE_MISMATCH", "SCHEMA_VALIDATION_FAILURE", "MISSING_RECEIPT",
     "SIGNATURE_INVALID", "ISSUER_UNTRUSTED", "POLICY_DIGEST_MISMATCH", "EPOCH_ROLLBACK_ATTEMPT",
     "EPOCH_MISMATCH", "TIME_SOURCE_UNTRUSTED_OR_DRIFT", "VALIDITY_WINDOW_EXPIRED",
     "ACTION_DIGEST_MISMATCH", "AUTHORITY_PROFILE_SELECTION_FAILED",
     "ASSURANCE_PROFILE_NOT_SATISFIED", "JURISDICTION_CONTEXT_INDETERMINATE_OR_CONFLICT",
     "TENANT_MISMATCH", "IDENTITY_BINDING_MISMATCH", "PURPOSE_OUT_OF_SCOPE_OR_MISSING",
     "PERMIT_PROVENANCE_INVALID_OR_MISSING", "ATTESTATION_STALE", "ATTESTATION_FAILURE",
     "KEY_RELEASE_DENIED", "REPRESENTATION_CLASS_VIOLATION", "SCOPE_VIOLATION",
     "TRANSPARENCY_PROOF_MISSING", "TRANSPARENCY_PROOF_INVALID", "CAPABILITY_SIGNATURE_INVALID",
     "CAPABILITY_TOKEN_INVALID_OR_MISSING", "CAPABILITY_EXPIRED",
     "CAPABILITY_RECEIPT_BINDING_MISMATCH", "CAPABILITY_AUDIENCE_MISMATCH", "CAPABILITY_REPLAY",
     "REPLAY_STATE_FAILURE", "ANTI_REPLAY_FAILURE", "RECEIPT_MALFORMED", "AttributeError",
     "GATEWAY_BYPASS_DENIED"}

LEMMA CodesRefuse == \A code \in Codes : ~Passes(code)
  BY Zenon DEF Codes, Passes

LEMMA OrElsePasses == \A code, next : Passes(OrElse(code, next)) <=> Passes(code) /\ Passes(next)
  BY Zenon DEF OrElse, Passes

LEMMA LeastElement ==
    ASSUME NEW S, S \subseteq Nat, S # {}
    PROVE  \E m \in S : \A k \in S : m <= k
<1> DEFINE R == OpToRel(<, Nat)
<1>1. IsWellFoundedOn(R, Nat)
  BY NatLessThanWellFounded
<1> HIDE DEF R
<1>2. PICK m \in S : \A k \in S : ~(<<k, m>> \in R)
  BY <1>1, WFMin
<1>3. ASSUME NEW k \in S, k < m PROVE FALSE
  <2>1. <<k, m>> \in R
    BY <1>3 DEF R, OpToRel
  <2> QED  BY <1>2, <2>1
<1> QED  BY <1>3

(* A table passes if none of its rows refuses: the order only chooses the code. *)
LEMMA FirstCodePasses ==
    ASSUME NEW checks, NEW n \in Nat, DOMAIN checks = 1 .. n,
           \A i \in 1 .. n : checks[i][2] \in Codes
    PROVE  Passes(FirstCode(checks)) <=> \A i \in 1 .. n : ~checks[i][1]
<1> DEFINE refusing == {i \in DOMAIN checks : checks[i][1]}
           least == CHOOSE i \in refusing : \A j \in refusing : i <= j
<1>1. FirstCode(checks) = IF refusing = {} THEN "" ELSE checks[least][2]
  BY Zenon DEF FirstCode
<1>2. ASSUME refusing # {} PROVE least \in refusing
  <2>1. refusing \subseteq Nat
    OBVIOUS
  <2> HIDE DEF refusing
  <2>2. \E i \in refusing : \A j \in refusing : i <= j
    BY <1>2, <2>1, LeastElement
  <2> QED  BY <2>2
<1>3. refusing = {} <=> \A i \in 1 .. n : ~checks[i][1]
  OBVIOUS
<1>4. refusing \subseteq 1 .. n
  OBVIOUS
<1> HIDE DEF refusing, least
<1>5. CASE refusing = {}
  <2>1. Passes(FirstCode(checks))
    BY <1>1, <1>5, Zenon DEF Passes
  <2> QED  BY <1>3, <1>5, <2>1
<1>6. CASE refusing # {}
  <2>1. FirstCode(checks) = checks[least][2]
    BY <1>1, <1>6, Zenon
  <2>2. ~Passes(checks[least][2])
    BY <1>2, <1>4, <1>6, CodesRefuse
  <2> QED  BY <1>3, <1>6, <2>1, <2>2
<1> QED  BY <1>5, <1>6

LEMMA RequestPasses ==
    ASSUME NEW c
    PROVE  Passes(FirstCode(RequestChecks(c))) <=>
             /\ UsedProfile(c) = c.policy.canonicalization_profile_ref
             /\ UsedProfile(c) = Profile
             /\ JsonSafe(c.request) /\ RequestOk(c.request) /\ c.receipt # Absent
<1> DEFINE s == RequestChecks(c)
<1>1. DOMAIN s = 1 .. 3
  BY DEF RequestChecks
<1>2. \A i \in 1 .. 3 : s[i][2] \in Codes
  BY DEF RequestChecks, Codes
<1>3. /\ s[1][1] <=> ~(/\ UsedProfile(c) = c.policy.canonicalization_profile_ref
                       /\ UsedProfile(c) = Profile /\ JsonSafe(c.request))
      /\ s[2][1] <=> ~RequestOk(c.request)
      /\ s[3][1] <=> c.receipt = Absent
  BY DEF RequestChecks
<1> HIDE DEF s
<1>4. Passes(FirstCode(s)) <=> \A i \in 1 .. 3 : ~s[i][1]
  BY <1>1, <1>2, FirstCodePasses
<1>5. (\A i \in 1 .. 3 : ~s[i][1]) <=> ~s[1][1] /\ ~s[2][1] /\ ~s[3][1]
  OBVIOUS
<1> QED  BY <1>3, <1>4, <1>5 DEF s

LEMMA ReceiptPasses ==
    ASSUME NEW c
    PROVE  Passes(FirstCode(ReceiptChecks(c))) <=>
             /\ c.receipt.core.canonicalization_profile_ref = c.policy.canonicalization_profile_ref
             /\ c.receipt.issuer_id = c.receipt.core.issuer_id
             /\ c.receipt.issuer_id \in c.policy.trusted_issuers
             /\ c.receipt.signed
             /\ c.receipt.core.policy_digest = c.policy.policy_digest
             /\ ~(Cardinality(GetOr(c.context, "epoch_sources", {})) > 1)
             /\ ~(c.receipt.core.epoch_id
                     < GetOr(c.policy, "minimum_epoch_id", c.policy.current_epoch_id))
             /\ c.receipt.core.epoch_id = c.policy.current_epoch_id
             /\ ~(\/ Flag(c.context, "time_source_untrusted")
                  \/ GetOr(c.context, "clock_drift_seconds", 0)
                       > GetOr(c.policy, "max_clock_drift_seconds", 300)
                  \/ -GetOr(c.context, "clock_drift_seconds", 0)
                       > GetOr(c.policy, "max_clock_drift_seconds", 300))
             /\ c.receipt.core.valid_from <= Now(c) /\ Now(c) <= c.receipt.core.valid_to
             /\ c.receipt.core.action_digest = c.request
<1> DEFINE s == ReceiptChecks(c)
<1>1. DOMAIN s = 1 .. 11
  BY DEF ReceiptChecks
<1>2. \A i \in 1 .. 11 : s[i][2] \in Codes
  <2>1. /\ s[1][2] \in Codes /\ s[2][2] \in Codes /\ s[3][2] \in Codes /\ s[4][2] \in Codes
        /\ s[5][2] \in Codes /\ s[6][2] \in Codes /\ s[7][2] \in Codes /\ s[8][2] \in Codes
        /\ s[9][2] \in Codes /\ s[10][2] \in Codes /\ s[11][2] \in Codes
    BY DEF ReceiptChecks, Codes
  <2> HIDE DEF s
  <2> QED  BY <2>1
<1>3. ~s[1][1] <=> c.receipt.core.canonicalization_profile_ref = c.policy.canonicalization_profile_ref
  BY DEF ReceiptChecks
<1>4. ~s[2][1] <=> c.receipt.issuer_id = c.receipt.core.issuer_id
  BY DEF ReceiptChecks
<1>5. ~s[3][1] <=> c.receipt.issuer_id \in c.policy.trusted_issuers
  BY DEF ReceiptChecks
<1>6. ~s[4][1] <=> c.receipt.signed
  BY DEF ReceiptChecks
<1>7. ~s[5][1] <=> c.receipt.core.policy_digest = c.policy.policy_digest
  BY DEF ReceiptChecks
<1>8. ~s[6][1] <=> ~(Cardinality(GetOr(c.context, "epoch_sources", {})) > 1)
  BY DEF ReceiptChecks
<1>9. ~s[7][1] <=> ~(c.receipt.core.epoch_id
                        < GetOr(c.policy, "minimum_epoch_id", c.policy.current_epoch_id))
  BY DEF ReceiptChecks
<1>10. ~s[8][1] <=> c.receipt.core.epoch_id = c.policy.current_epoch_id
  BY DEF ReceiptChecks
<1>11. ~s[9][1] <=> ~(\/ Flag(c.context, "time_source_untrusted")
                      \/ GetOr(c.context, "clock_drift_seconds", 0)
                           > GetOr(c.policy, "max_clock_drift_seconds", 300)
                      \/ -GetOr(c.context, "clock_drift_seconds", 0)
                           > GetOr(c.policy, "max_clock_drift_seconds", 300))
  BY DEF ReceiptChecks
<1>12. ~s[10][1] <=> c.receipt.core.valid_from <= Now(c) /\ Now(c) <= c.receipt.core.valid_to
  BY DEF ReceiptChecks
<1>13. ~s[11][1] <=> c.receipt.core.action_digest = c.request
  BY DEF ReceiptChecks
<1> HIDE DEF s
<1>14. Passes(FirstCode(s)) <=> \A i \in 1 .. 11 : ~s[i][1]
  BY <1>1, <1>2, FirstCodePasses
<1>15. (\A i \in 1 .. 11 : ~s[i][1]) <=>
        /\ ~s[1][1] /\ ~s[2][1] /\ ~s[3][1] /\ ~s[4][1] /\ ~s[5][1] /\ ~s[6][1]
        /\ ~s[7][1] /\ ~s[8][1] /\ ~s[9][1] /\ ~s[10][1] /\ ~s[11][1]
  OBVIOUS
<1> QED
  BY <1>3, <1>4, <1>5, <1>6, <1>7, <1>8, <1>9, <1>10, <1>11, <1>12, <1>13, <1>14,
     <1>15 DEF s

LEMMA ContextPasses ==
    ASSUME NEW c
    PROVE  Passes(FirstCode(ContextChecks(c))) <=>
             /\ /\ ~Flag(c.context, "authority_profile_ambiguous")
                /\ c.receipt.core.authority_profile_id \in c.policy.trusted_authority_profile_ids
             /\ c.receipt.core.assurance_level_id \in c.policy.trusted_assurance_level_ids
             /\ /\ ~Flag(c.context, "jurisdiction_ambiguous") /\ ~Flag(c.context, "jurisdiction_conflict")
                /\ ~Disagree(Get(c.receipt.core, "jurisdiction"), Get(c.context, "jurisdiction"))
             /\ ~Disagree(Get(c.context, "resolved_tenant_id"), Get(c.receipt.core, "tenant_id"))
             /\ \/ ~Flag(c.policy, "require_identity_binding")
                \/ /\ Get(c.receipt.core, "identity_binding") # Absent
                   /\ Get(c.receipt.core, "identity_binding") = Get(c.context, "identity_binding")
             /\ \/ ~Flag(c.policy, "require_purpose")
                \/ /\ Get(c.receipt.core, "purpose_id") # Absent
                   /\ Get(c.receipt.core, "purpose_id") = Get(c.context, "purpose_id")
             /\ \/ ~Flag(c.policy, "require_permit_provenance")
                \/ Get(c.receipt.core, "permit_provenance_digest")
                     \in c.policy.trusted_permit_provenance_digests
             /\ \/ ~Flag(c.policy, "require_assurance_evidence")
                \/ Get(c.receipt.core, "assurance_evidence_digest") # Absent
             /\ \/ ~Flag(c.context, "attestation_required")
                \/ /\ ~Flag(c.context, "attestation_stale")
                   /\ ~Flag(c.context, "attestation_nonce_mismatch")
             /\ ~Flag(c.context, "attestation_required") \/ Flag(c.context, "attestation_present")
<1> DEFINE s == ContextChecks(c)
<1>1. DOMAIN s = 1 .. 10
  BY DEF ContextChecks
<1>2. \A i \in 1 .. 10 : s[i][2] \in Codes
  <2>1. /\ s[1][2] \in Codes /\ s[2][2] \in Codes /\ s[3][2] \in Codes /\ s[4][2] \in Codes
        /\ s[5][2] \in Codes /\ s[6][2] \in Codes /\ s[7][2] \in Codes /\ s[8][2] \in Codes
        /\ s[9][2] \in Codes /\ s[10][2] \in Codes
    BY DEF ContextChecks, Codes
  <2> HIDE DEF s
  <2> QED  BY <2>1
<1>3. ~s[1][1] <=> /\ ~Flag(c.context, "authority_profile_ambiguous")
                   /\ c.receipt.core.authority_profile_id \in c.policy.trusted_authority_profile_ids
  BY DEF ContextChecks
<1>4. ~s[2][1] <=> c.receipt.core.assurance_level_id \in c.policy.trusted_assurance_level_ids
  BY DEF ContextChecks
<1>5. ~s[3][1] <=> /\ ~Flag(c.context, "jurisdiction_ambiguous") /\ ~Flag(c.context, "jurisdiction_conflict")
                   /\ ~Disagree(Get(c.receipt.core, "jurisdiction"), Get(c.context, "jurisdiction"))
  BY DEF ContextChecks
<1>6. ~s[4][1] <=> ~Disagree(Get(c.context, "resolved_tenant_id"), Get(c.receipt.core, "tenant_id"))
  BY DEF ContextChecks
<1>7. ~s[5][1] <=> \/ ~Flag(c.policy, "require_identity_binding")
                   \/ /\ Get(c.receipt.core, "identity_binding") # Absent
                      /\ Get(c.receipt.core, "identity_binding") = Get(c.context, "identity_binding")
  BY DEF ContextChecks
<1>8. ~s[6][1] <=> \/ ~Flag(c.policy, "require_purpose")
                   \/ /\ Get(c.receipt.core, "purpose_id") # Absent
                      /\ Get(c.receipt.core, "purpose_id") = Get(c.context, "purpose_id")
  BY DEF ContextChecks
<1>9. ~s[7][1] <=> \/ ~Flag(c.policy, "require_permit_provenance")
                   \/ Get(c.receipt.core, "permit_provenance_digest")
                        \in c.policy.trusted_permit_provenance_digests
  BY DEF ContextChecks
<1>10. ~s[8][1] <=> \/ ~Flag(c.policy, "require_assurance_evidence")
                    \/ Get(c.receipt.core, "assurance_evidence_digest") # Absent
  BY DEF ContextChecks
<1>11. ~s[9][1] <=> \/ ~Flag(c.context, "attestation_required")
                    \/ /\ ~Flag(c.context, "attestation_stale")
                       /\ ~Flag(c.context, "attestation_nonce_mismatch")
  BY DEF ContextChecks
<1>12. ~s[10][1] <=> ~Flag(c.context, "attestation_required") \/ Flag(c.context, "attestation_present")
  BY DEF ContextChecks
<1> HIDE DEF s
<1>13. Passes(FirstCode(s)) <=> \A i \in 1 .. 10 : ~s[i][1]
  BY <1>1, <1>2, FirstCodePasses
<1>14. (\A i \in 1 .. 10 : ~s[i][1]) <=>
        /\ ~s[1][1] /\ ~s[2][1] /\ ~s[3][1] /\ ~s[4][1] /\ ~s[5][1]
        /\ ~s[6][1] /\ ~s[7][1] /\ ~s[8][1] /\ ~s[9][1] /\ ~s[10][1]
  OBVIOUS
<1> QED
  BY <1>3, <1>4, <1>5, <1>6, <1>7, <1>8, <1>9, <1>10, <1>11, <1>12, <1>13, <1>14 DEF s

LEMMA ScopePasses ==
    ASSUME NEW q, NEW scope
    PROVE  Passes(FirstCode(ScopeChecks(q, scope))) <=>
             /\ ~("tenant_id" \in DOMAIN scope /\ Get(q, "tenant_id") # scope["tenant_id"])
             /\ ~("purpose_id" \in DOMAIN scope /\ Get(q, "purpose_id") # scope["purpose_id"])
             /\ ~(/\ "representation_class_id" \in DOMAIN scope
                  /\ Get(q, "representation_class_id") # scope["representation_class_id"])
             /\ \A f \in {"effect_type", "interface_id", "action_type", "target_id",
                          "artifact_id", "key_id", "key_op"} :
                     ~(f \in DOMAIN scope /\ Get(q, f) # scope[f])
             /\ ~("key_ops" \in DOMAIN scope /\ Get(q, "key_op") \notin scope.key_ops)
             /\ ~(/\ "max_effect_budget" \in DOMAIN scope
                  /\ \/ "max_effect_budget" \notin DOMAIN q
                     \/ q.max_effect_budget > scope.max_effect_budget)
<1> DEFINE s == ScopeChecks(q, scope)
<1>1. DOMAIN s = 1 .. 6
  BY DEF ScopeChecks
<1>2. \A i \in 1 .. 6 : s[i][2] \in Codes
  BY DEF ScopeChecks, Codes
<1>3. ~s[1][1] <=> ~("tenant_id" \in DOMAIN scope /\ Get(q, "tenant_id") # scope["tenant_id"])
  BY DEF ScopeChecks
<1>4. ~s[2][1] <=> ~("purpose_id" \in DOMAIN scope /\ Get(q, "purpose_id") # scope["purpose_id"])
  BY DEF ScopeChecks
<1>5. ~s[3][1] <=> ~(/\ "representation_class_id" \in DOMAIN scope
                     /\ Get(q, "representation_class_id") # scope["representation_class_id"])
  BY DEF ScopeChecks
<1>6. ~s[4][1] <=> \A f \in {"effect_type", "interface_id", "action_type", "target_id",
                             "artifact_id", "key_id", "key_op"} :
                        ~(f \in DOMAIN scope /\ Get(q, f) # scope[f])
  BY DEF ScopeChecks
<1>7. ~s[5][1] <=> ~("key_ops" \in DOMAIN scope /\ Get(q, "key_op") \notin scope.key_ops)
  BY DEF ScopeChecks
<1>8. ~s[6][1] <=> ~(/\ "max_effect_budget" \in DOMAIN scope
                     /\ \/ "max_effect_budget" \notin DOMAIN q
                        \/ q.max_effect_budget > scope.max_effect_budget)
  BY DEF ScopeChecks
<1> HIDE DEF s
<1>9. Passes(FirstCode(s)) <=> \A i \in 1 .. 6 : ~s[i][1]
  BY <1>1, <1>2, FirstCodePasses
<1>10. (\A i \in 1 .. 6 : ~s[i][1]) <=>
        /\ ~s[1][1] /\ ~s[2][1] /\ ~s[3][1]
        /\ ~s[4][1] /\ ~s[5][1] /\ ~s[6][1]
  OBVIOUS
<1> QED
  BY <1>3, <1>4, <1>5, <1>6, <1>7, <1>8, <1>9, <1>10 DEF s

LEMMA TransparencyPasses ==
    ASSUME NEW c
    PROVE  Passes(FirstCode(TransparencyChecks(c))) <=>
             /\ \/ ~Flag(c.policy, "require_transparency")
                \/ c.merkle \/ Flag(c.context, "transparency_proof_present")
             /\ \/ ~(/\ Flag(c.policy, "require_transparency")
                     /\ Flag(c.context, "transparency_proof_present"))
                \/ Flag(c.context, "transparency_proof_valid")
<1> DEFINE s == TransparencyChecks(c)
<1>1. DOMAIN s = 1 .. 2
  BY DEF TransparencyChecks
<1>2. \A i \in 1 .. 2 : s[i][2] \in Codes
  BY DEF TransparencyChecks, Codes
<1>3. ~s[1][1] <=> \/ ~Flag(c.policy, "require_transparency")
                   \/ c.merkle \/ Flag(c.context, "transparency_proof_present")
  BY DEF TransparencyChecks
<1>4. ~s[2][1] <=> \/ ~(/\ Flag(c.policy, "require_transparency")
                        /\ Flag(c.context, "transparency_proof_present"))
                   \/ Flag(c.context, "transparency_proof_valid")
  BY DEF TransparencyChecks
<1> HIDE DEF s
<1>5. Passes(FirstCode(s)) <=> \A i \in 1 .. 2 : ~s[i][1]
  BY <1>1, <1>2, FirstCodePasses
<1>6. (\A i \in 1 .. 2 : ~s[i][1]) <=> ~s[1][1] /\ ~s[2][1]
  OBVIOUS
<1> QED
  BY <1>3, <1>4, <1>5, <1>6 DEF s

LEMMA ReplayPasses ==
    ASSUME NEW c
    PROVE  Passes(FirstCode(ReplayChecks(c))) <=>
             /\ c.receipt.core.nonce \notin GetOr(c.context, "used_nonces", {})
             /\ {"replay_cache", "used_nonces"} \cap DOMAIN c.context # {}
             /\ Get(c.context, "downstream_capability_present") # FALSE
<1> DEFINE s == ReplayChecks(c)
<1>1. DOMAIN s = 1 .. 3
  BY DEF ReplayChecks
<1>2. \A i \in 1 .. 3 : s[i][2] \in Codes
  BY DEF ReplayChecks, Codes
<1>3. ~s[1][1] <=> c.receipt.core.nonce \notin GetOr(c.context, "used_nonces", {})
  BY DEF ReplayChecks
<1>4. ~s[2][1] <=> {"replay_cache", "used_nonces"} \cap DOMAIN c.context # {}
  BY DEF ReplayChecks
<1>5. ~s[3][1] <=> Get(c.context, "downstream_capability_present") # FALSE
  BY DEF ReplayChecks
<1> HIDE DEF s
<1>6. Passes(FirstCode(s)) <=> \A i \in 1 .. 3 : ~s[i][1]
  BY <1>1, <1>2, FirstCodePasses
<1>7. (\A i \in 1 .. 3 : ~s[i][1]) <=> ~s[1][1] /\ ~s[2][1] /\ ~s[3][1]
  OBVIOUS
<1> QED
  BY <1>3, <1>4, <1>5, <1>6, <1>7 DEF s

LEMMA TokenTablePasses ==
    ASSUME NEW c, NEW expected
    PROVE  Passes(FirstCode(TokenChecks(c, expected))) <=>
             /\ c.context.capability_token.issuer_id
                  \in GetOr(c.policy, "trusted_capability_issuers", {})
             /\ c.context.capability_token.signed
             /\ ~(c.context.capability_token.core.valid_to < Now(c))
             /\ c.policy.canonicalization_profile_ref = Profile /\ JsonSafe(c.request)
             /\ c.context.capability_token.core.action_digest = c.request
             /\ c.context.capability_token.core.receipt_digest = expected
             /\ c.context.capability_token.core.audience = c.request.interface_id
             /\ c.context.capability_token.core.tenant_id = c.request.tenant_id
             /\ c.context.capability_token.core.policy_digest = c.policy.policy_digest
             /\ c.context.capability_token.core.epoch_id = c.policy.current_epoch_id
             /\ c.context.capability_token.core.nonce
                  \notin GetOr(c.context, "used_capability_nonces", {})
             /\ {"capability_replay_cache", "used_capability_nonces"} \cap DOMAIN c.context # {}
<1> DEFINE s == TokenChecks(c, expected)
<1>1. DOMAIN s = 1 .. 12
  BY DEF TokenChecks
<1>2. \A i \in 1 .. 12 : s[i][2] \in Codes
  <2>1. /\ s[1][2] \in Codes /\ s[2][2] \in Codes /\ s[3][2] \in Codes /\ s[4][2] \in Codes
        /\ s[5][2] \in Codes /\ s[6][2] \in Codes /\ s[7][2] \in Codes /\ s[8][2] \in Codes
        /\ s[9][2] \in Codes /\ s[10][2] \in Codes /\ s[11][2] \in Codes /\ s[12][2] \in Codes
    BY DEF TokenChecks, Codes
  <2> HIDE DEF s
  <2> QED  BY <2>1
<1>3. ~s[1][1] <=> c.context.capability_token.issuer_id
                     \in GetOr(c.policy, "trusted_capability_issuers", {})
  BY DEF TokenChecks
<1>4. ~s[2][1] <=> c.context.capability_token.signed
  BY DEF TokenChecks
<1>5. ~s[3][1] <=> ~(c.context.capability_token.core.valid_to < Now(c))
  BY DEF TokenChecks
<1>6. ~s[4][1] <=> c.policy.canonicalization_profile_ref = Profile /\ JsonSafe(c.request)
  BY DEF TokenChecks
<1>7. ~s[5][1] <=> c.context.capability_token.core.action_digest = c.request
  BY DEF TokenChecks
<1>8. ~s[6][1] <=> c.context.capability_token.core.receipt_digest = expected
  BY DEF TokenChecks
<1>9. ~s[7][1] <=> c.context.capability_token.core.audience = c.request.interface_id
  BY DEF TokenChecks
<1>10. ~s[8][1] <=> c.context.capability_token.core.tenant_id = c.request.tenant_id
  BY DEF TokenChecks
<1>11. ~s[9][1] <=> c.context.capability_token.core.policy_digest = c.policy.policy_digest
  BY DEF TokenChecks
<1>12. ~s[10][1] <=> c.context.capability_token.core.epoch_id = c.policy.current_epoch_id
  BY DEF TokenChecks
<1>13. ~s[11][1] <=> c.context.capability_token.core.nonce
                       \notin GetOr(c.context, "used_capability_nonces", {})
  BY DEF TokenChecks
<1>14. ~s[12][1] <=> {"capability_replay_cache", "used_capability_nonces"} \cap DOMAIN c.context # {}
  BY DEF TokenChecks
<1> HIDE DEF s
<1>15. Passes(FirstCode(s)) <=> \A i \in 1 .. 12 : ~s[i][1]
  BY <1>1, <1>2, FirstCodePasses
<1>16. (\A i \in 1 .. 12 : ~s[i][1]) <=>
        /\ ~s[1][1] /\ ~s[2][1] /\ ~s[3][1] /\ ~s[4][1] /\ ~s[5][1] /\ ~s[6][1]
        /\ ~s[7][1] /\ ~s[8][1] /\ ~s[9][1] /\ ~s[10][1] /\ ~s[11][1] /\ ~s[12][1]
  OBVIOUS
<1> QED
  BY <1>3, <1>4, <1>5, <1>6, <1>7, <1>8, <1>9, <1>10, <1>11, <1>12, <1>13, <1>14, <1>15,
     <1>16 DEF s

LEMMA GatewayPasses ==
    ASSUME NEW c
    PROVE  Passes(FirstCode(GatewayChecks(c))) <=>
             /\ Get(c.request, "interface_id") = GatewayId
             /\ Get(c.context, "capability_token") # Absent
             /\ RequestOk(c.request) /\ PolicyOk(c.policy) /\ ContextOk(c.context)
             /\ Get(c.context, "expected_receipt_digest") # Absent
<1> DEFINE s == GatewayChecks(c)
<1>1. DOMAIN s = 1 .. 4
  BY DEF GatewayChecks
<1>2. \A i \in 1 .. 4 : s[i][2] \in Codes
  BY DEF GatewayChecks, Codes
<1>3. ~s[1][1] <=> Get(c.request, "interface_id") = GatewayId
  BY DEF GatewayChecks
<1>4. ~s[2][1] <=> Get(c.context, "capability_token") # Absent
  BY DEF GatewayChecks
<1>5. ~s[3][1] <=> RequestOk(c.request) /\ PolicyOk(c.policy) /\ ContextOk(c.context)
  BY DEF GatewayChecks
<1>6. ~s[4][1] <=> Get(c.context, "expected_receipt_digest") # Absent
  BY DEF GatewayChecks
<1> HIDE DEF s
<1>7. Passes(FirstCode(s)) <=> \A i \in 1 .. 4 : ~s[i][1]
  BY <1>1, <1>2, FirstCodePasses
<1>8. (\A i \in 1 .. 4 : ~s[i][1]) <=> ~s[1][1] /\ ~s[2][1] /\ ~s[3][1] /\ ~s[4][1]
  OBVIOUS
<1> QED
  BY <1>3, <1>4, <1>5, <1>6, <1>7, <1>8 DEF s

----------------------------------------------------------------------------

LEMMA SchemaPasses ==
    ASSUME NEW c
    PROVE  Passes(SchemaCode(c)) <=>
             /\ c.request # Bad /\ PolicyOk(c.policy) /\ ContextOk(c.context)
             /\ c.revocation # Bad
  BY Zenon DEF SchemaCode, Passes

LEMMA ReceiptSchemaPasses ==
    ASSUME NEW r
    PROVE  Passes(ReceiptSchemaCode(r)) <=>
             /\ r # Bad
             /\ Shaped(r.core, ReceiptRequired, ReceiptAllowed) /\ JsonSafe(r.core)
             /\ ScopeOk(r.core.scope)
             /\ r.core.valid_from <= r.core.valid_to
             /\ Bad \notin {r.issuer_id, r.signed}
  BY Zenon DEF ReceiptSchemaCode, Passes

LEMMA TokenPasses ==
    ASSUME NEW c, NEW expected
    PROVE  Passes(TokenCode(c, expected)) <=>
             /\ CapabilityOk(Get(c.context, "capability_token"))
             /\ Passes(FirstCode(TokenChecks(c, expected)))
<1>1. ~Passes("CAPABILITY_TOKEN_INVALID_OR_MISSING")
  BY CodesRefuse DEF Codes
<1> QED  BY <1>1, Zenon DEF TokenCode

(* A well-typed object that passes its schema has integers where they are compared. *)
LEMMA TypedField ==
    ASSUME NEW obj, NEW field, NEW type, Typed(obj, field, type),
           field \in DOMAIN obj, obj[field] # Bad, obj[field] # Uncanonical
    PROVE  obj[field] \in type
  BY DEF Typed

LEMMA ContextNumbers ==
    ASSUME NEW c, WellTyped(c), PolicyOk(c.policy), ContextOk(c.context)
    PROVE  /\ Now(c) \in Int
           /\ c.policy.current_epoch_id \in Int
           /\ \A e \in Int : GetOr(c.policy, "minimum_epoch_id", e) \in Int
           /\ GetOr(c.context, "clock_drift_seconds", 0) \in Int
           /\ GetOr(c.policy, "max_clock_drift_seconds", 300) \in Int
           /\ IsFiniteSet(GetOr(c.context, "epoch_sources", {}))
<1>1. /\ PolicyRequired \subseteq DOMAIN c.policy
      /\ \A f \in DOMAIN c.policy : c.policy[f] # Bad /\ c.policy[f] # Uncanonical
  BY DEF PolicyOk, Shaped, WellTyped, TypedPolicy
<1>2. \A f \in DOMAIN c.context : c.context[f] # Bad /\ c.context[f] # Uncanonical
  BY DEF ContextOk, Shaped, WellTyped, TypedContext
<1>3. \A f \in {"now", "current_epoch_id", "minimum_epoch_id", "max_clock_drift_seconds"} :
          f \in DOMAIN c.policy => c.policy[f] \in Int
  BY <1>1 DEF WellTyped, TypedPolicy, Typed
<1>4. \A f \in {"now", "clock_drift_seconds"} : f \in DOMAIN c.context => c.context[f] \in Int
  BY <1>2 DEF WellTyped, TypedContext, Typed
<1>5. c.policy.now \in Int /\ c.policy.current_epoch_id \in Int
  BY <1>1, <1>3 DEF PolicyRequired
<1>6. IsFiniteSet(GetOr(c.context, "epoch_sources", {}))
  <2>1. CASE "epoch_sources" \in DOMAIN c.context
    <3>1. Get(c.context, "epoch_sources") \notin {Absent, Bad}
      BY <1>2, <2>1 DEF Get, GetOr, WellTyped, TypedContext
    <3> QED  BY <2>1, <3>1 DEF Get, GetOr, WellTyped, TypedContext
  <2>2. CASE "epoch_sources" \notin DOMAIN c.context
    BY <2>2, FS_EmptySet DEF GetOr
  <2> QED  BY <2>1, <2>2
<1> QED  BY <1>3, <1>4, <1>5, <1>6 DEF Now, GetOr

LEMMA ReceiptNumbers ==
    ASSUME NEW c, WellTyped(c), c.receipt # Absent, Passes(ReceiptSchemaCode(c.receipt))
    PROVE  LET core == c.receipt.core IN
           /\ core.epoch_id \in Int /\ core.valid_from \in Int /\ core.valid_to \in Int
           /\ Present(core) /\ Present(core.scope)
           /\ DOMAIN core.scope \subseteq ScopeFields
           /\ "max_effect_budget" \in DOMAIN core.scope => core.scope.max_effect_budget \in Nat
<1> DEFINE core == c.receipt.core
<1>1. /\ c.receipt # Bad
      /\ Shaped(core, ReceiptRequired, ReceiptAllowed) /\ JsonSafe(core) /\ ScopeOk(core.scope)
  BY ReceiptSchemaPasses
<1>2. TypedReceipt(c.receipt)
  BY <1>1 DEF WellTyped
<1>3. /\ ReceiptRequired \subseteq DOMAIN core
      /\ \A f \in DOMAIN core : core[f] # Bad /\ core[f] # Uncanonical
  BY <1>1 DEF Shaped, JsonSafe
<1>4. core.epoch_id \in Int /\ core.valid_from \in Int /\ core.valid_to \in Int
  <2>1. \A f \in {"epoch_id", "valid_from", "valid_to"} : f \in DOMAIN core /\ Typed(core, f, Int)
    BY <1>2, <1>3 DEF TypedReceipt, ReceiptRequired
  <2> QED  BY <1>3, <2>1 DEF Typed
<1>5. Present(core) /\ Present(core.scope) /\ Typed(core.scope, "max_effect_budget", Nat)
  <2>1. "scope" \in DOMAIN core /\ core.scope # Bad
    BY <1>3 DEF ReceiptRequired
  <2> QED  BY <1>2, <2>1 DEF TypedReceipt
<1>6. /\ DOMAIN core.scope \subseteq ScopeFields
      /\ \A f \in DOMAIN core.scope : core.scope[f] # Bad /\ core.scope[f] # Uncanonical
  BY <1>1 DEF ScopeOk, Shaped, JsonSafe
<1>7. "max_effect_budget" \in DOMAIN core.scope => core.scope.max_effect_budget \in Nat
  BY <1>5, <1>6 DEF Typed
<1> QED  BY <1>4, <1>5, <1>6, <1>7

LEMMA AtMostOne ==
    ASSUME NEW S, IsFiniteSet(S)
    PROVE  ~(Cardinality(S) > 1) <=> \A a, b \in S : a = b
<1>1. Cardinality(S) \in Nat
  BY FS_CardinalityType
<1>2. ASSUME \A a, b \in S : a = b PROVE ~(Cardinality(S) > 1)
  <2>1. CASE S = {}
    BY <2>1, FS_EmptySet
  <2>2. CASE S # {}
    <3>1. PICK a \in S : S = {a}
      BY <1>2, <2>2
    <3> QED  BY <3>1, FS_Singleton
  <2> QED  BY <2>1, <2>2
<1>3. ASSUME NEW a \in S, NEW b \in S, a # b PROVE Cardinality(S) > 1
  <2>1. IsFiniteSet({a}) /\ Cardinality({a}) = 1
    BY FS_Singleton
  <2>2. IsFiniteSet({a} \cup {b}) /\ Cardinality({a} \cup {b}) = 2
    <3>1. b \notin {a}
      BY <1>3
    <3>2. IsFiniteSet({a} \cup {b}) /\ Cardinality({a} \cup {b}) = Cardinality({a}) + 1
      BY <2>1, <3>1, FS_AddElement
    <3> QED  BY <2>1, <3>2
  <2>3. {a} \cup {b} \subseteq S
    OBVIOUS
  <2>4. Cardinality({a} \cup {b}) <= Cardinality(S)
    BY <2>3, FS_Subset
  <2> QED  BY <1>1, <2>2, <2>4
<1> QED  BY <1>2, <1>3

LEMMA ReceiptMeans ==
    ASSUME NEW c, WellTyped(c), PolicyOk(c.policy), ContextOk(c.context),
           c.receipt # Absent, Passes(ReceiptSchemaCode(c.receipt)),
           UsedProfile(c) = c.policy.canonicalization_profile_ref, UsedProfile(c) = Profile
    PROVE  Passes(FirstCode(ReceiptChecks(c))) <=> Vouched(c) /\ Timely(c)
<1> DEFINE core == c.receipt.core
           minimum == GetOr(c.policy, "minimum_epoch_id", c.policy.current_epoch_id)
           least == GetOr(c.policy, "minimum_epoch_id", core.epoch_id)
           drift == GetOr(c.context, "clock_drift_seconds", 0)
           maximum == GetOr(c.policy, "max_clock_drift_seconds", 300)
           sources == GetOr(c.context, "epoch_sources", {})
<1>1. core.epoch_id \in Int /\ core.valid_from \in Int /\ core.valid_to \in Int
  BY ReceiptNumbers
<1>2. /\ Now(c) \in Int /\ minimum \in Int /\ least \in Int /\ drift \in Int /\ maximum \in Int
      /\ IsFiniteSet(sources)
  BY <1>1, ContextNumbers
<1>3. ~(Cardinality(sources) > 1) <=> \A a, b \in sources : a = b
  BY <1>2, AtMostOne
<1>4. core.epoch_id = c.policy.current_epoch_id => minimum = least
  BY DEF GetOr
<1>5. ~(core.epoch_id < minimum) <=> minimum <= core.epoch_id
  BY <1>1, <1>2
<1>6. ~(drift > maximum \/ -drift > maximum) <=> drift \in -maximum .. maximum
  BY <1>2
<1>7. core.valid_from <= Now(c) /\ Now(c) <= core.valid_to
        <=> Now(c) \in core.valid_from .. core.valid_to
  BY <1>1, <1>2
<1>8. Vouched(c) <=>
        /\ core.issuer_id = c.receipt.issuer_id /\ c.receipt.signed
        /\ core.issuer_id \in c.policy.trusted_issuers
        /\ core.policy_digest = c.policy.policy_digest
        /\ core.action_digest = c.request
        /\ Profile = c.policy.canonicalization_profile_ref
        /\ core.canonicalization_profile_ref = Profile /\ UsedProfile(c) = Profile
  BY DEF Vouched
<1>9. Timely(c) <=>
        /\ core.epoch_id = c.policy.current_epoch_id /\ least <= core.epoch_id
        /\ \A a, b \in sources : a = b
        /\ Now(c) \in core.valid_from .. core.valid_to
        /\ ~Flag(c.context, "time_source_untrusted")
        /\ drift \in -maximum .. maximum
  BY DEF Timely
<1>10. Passes(FirstCode(ReceiptChecks(c))) <=>
        /\ core.canonicalization_profile_ref = c.policy.canonicalization_profile_ref
        /\ c.receipt.issuer_id = core.issuer_id
        /\ c.receipt.issuer_id \in c.policy.trusted_issuers
        /\ c.receipt.signed
        /\ core.policy_digest = c.policy.policy_digest
        /\ ~(Cardinality(sources) > 1)
        /\ ~(core.epoch_id < minimum)
        /\ core.epoch_id = c.policy.current_epoch_id
        /\ ~(\/ Flag(c.context, "time_source_untrusted")
             \/ drift > maximum \/ -drift > maximum)
        /\ core.valid_from <= Now(c) /\ Now(c) <= core.valid_to
        /\ core.action_digest = c.request
  BY ReceiptPasses, Zenon
<1> HIDE DEF core, minimum, least, drift, maximum, sources
<1> QED  BY <1>3, <1>4, <1>5, <1>6, <1>7, <1>8, <1>9, <1>10

(* For a field that may be missing but is never null. *)
LEMMA NeverNull ==
    ASSUME NEW obj, NEW f, f \in DOMAIN obj => obj[f] # Absent
    PROVE  Get(obj, f) # Absent <=> f \in DOMAIN obj
  BY DEF Get, GetOr

LEMMA ContextMeans ==
    ASSUME NEW c, WellTyped(c), c.receipt # Absent, Passes(ReceiptSchemaCode(c.receipt))
    PROVE  Passes(FirstCode(ContextChecks(c))) /\ Passes(FirstCode(TransparencyChecks(c)))
             <=> Satisfied(c)
<1> DEFINE core == c.receipt.core
           p == c.policy
           x == c.context
           clash(f, g) == f \in DOMAIN core /\ g \in DOMAIN x /\ core[f] # x[g]
           same(f) == f \in DOMAIN core /\ f \in DOMAIN x /\ core[f] = x[f]
<1>1. \A f \in DOMAIN core : core[f] # Absent
  BY ReceiptNumbers DEF Present
<1>2. \A f \in DOMAIN x \ {"capability_token"} : x[f] # Absent
  BY DEF WellTyped, TypedContext
<1>3. /\ Disagree(Get(core, "jurisdiction"), Get(x, "jurisdiction"))
           <=> clash("jurisdiction", "jurisdiction")
      /\ Disagree(Get(x, "resolved_tenant_id"), Get(core, "tenant_id"))
           <=> clash("tenant_id", "resolved_tenant_id")
  BY <1>1, <1>2 DEF Disagree, Get, GetOr
<1>4. /\ (/\ Get(core, "identity_binding") # Absent
          /\ Get(core, "identity_binding") = Get(x, "identity_binding"))
           <=> same("identity_binding")
      /\ (/\ Get(core, "purpose_id") # Absent
          /\ Get(core, "purpose_id") = Get(x, "purpose_id"))
           <=> same("purpose_id")
  BY <1>1, <1>2 DEF Get, GetOr
<1>5. Get(core, "assurance_evidence_digest") # Absent
        <=> "assurance_evidence_digest" \in DOMAIN core
  BY <1>1 DEF Get, GetOr
<1>6. Satisfied(c) <=>
       /\ core.authority_profile_id \in p.trusted_authority_profile_ids
       /\ core.assurance_level_id \in p.trusted_assurance_level_ids
       /\ ~clash("jurisdiction", "jurisdiction") /\ ~clash("tenant_id", "resolved_tenant_id")
       /\ Flag(p, "require_identity_binding") => same("identity_binding")
       /\ Flag(p, "require_purpose") => same("purpose_id")
       /\ Flag(p, "require_permit_provenance") =>
            Get(core, "permit_provenance_digest") \in p.trusted_permit_provenance_digests
       /\ Flag(p, "require_assurance_evidence") => "assurance_evidence_digest" \in DOMAIN core
       /\ Flag(p, "require_transparency") =>
            IF Flag(x, "transparency_proof_present") THEN Flag(x, "transparency_proof_valid")
                                                     ELSE c.merkle
       /\ /\ ~Flag(x, "authority_profile_ambiguous")
          /\ ~Flag(x, "jurisdiction_ambiguous") /\ ~Flag(x, "jurisdiction_conflict")
       /\ Flag(x, "attestation_required") =>
            /\ Flag(x, "attestation_present")
            /\ ~Flag(x, "attestation_stale") /\ ~Flag(x, "attestation_nonce_mismatch")
  BY DEF Satisfied
<1>7. Passes(FirstCode(ContextChecks(c))) <=>
       /\ ~Flag(x, "authority_profile_ambiguous")
       /\ core.authority_profile_id \in p.trusted_authority_profile_ids
       /\ core.assurance_level_id \in p.trusted_assurance_level_ids
       /\ ~Flag(x, "jurisdiction_ambiguous") /\ ~Flag(x, "jurisdiction_conflict")
       /\ ~clash("jurisdiction", "jurisdiction") /\ ~clash("tenant_id", "resolved_tenant_id")
       /\ Flag(p, "require_identity_binding") => same("identity_binding")
       /\ Flag(p, "require_purpose") => same("purpose_id")
       /\ Flag(p, "require_permit_provenance") =>
            Get(core, "permit_provenance_digest") \in p.trusted_permit_provenance_digests
       /\ Flag(p, "require_assurance_evidence") => "assurance_evidence_digest" \in DOMAIN core
       /\ Flag(x, "attestation_required") =>
            ~Flag(x, "attestation_stale") /\ ~Flag(x, "attestation_nonce_mismatch")
       /\ Flag(x, "attestation_required") => Flag(x, "attestation_present")
  <2> HIDE DEF clash, same
  <2> QED  BY <1>3, <1>4, <1>5, ContextPasses
<1>8. Passes(FirstCode(TransparencyChecks(c))) <=>
       (Flag(p, "require_transparency") =>
          IF Flag(x, "transparency_proof_present") THEN Flag(x, "transparency_proof_valid")
                                                   ELSE c.merkle)
  BY TransparencyPasses
<1> HIDE DEF clash, same, core, p, x
<1> QED  BY <1>6, <1>7, <1>8

LEMMA ScopeMeans ==
    ASSUME NEW c, WellTyped(c), RequestOk(c.request),
           c.receipt # Absent, Passes(ReceiptSchemaCode(c.receipt))
    PROVE  Passes(FirstCode(ScopeChecks(c.request, c.receipt.core.scope)))
             <=> Covered(c.request, c.receipt.core.scope)
<1> DEFINE q == c.request
           scope == c.receipt.core.scope
           exact == {"tenant_id", "purpose_id", "representation_class_id", "effect_type",
                     "interface_id", "action_type", "target_id", "artifact_id", "key_id", "key_op"}
<1>1. /\ DOMAIN scope \subseteq ScopeFields /\ \A f \in DOMAIN scope : scope[f] # Absent
      /\ "max_effect_budget" \in DOMAIN scope => scope.max_effect_budget \in Nat
  BY ReceiptNumbers DEF Present
<1>2. "max_effect_budget" \in DOMAIN q => q.max_effect_budget \in Nat
  <2>1. q # Bad /\ Typed(q, "max_effect_budget", Nat)
    BY DEF RequestOk, WellTyped
  <2>2. \A f \in DOMAIN q : q[f] # Bad /\ q[f] # Uncanonical
    BY DEF RequestOk, Shaped, JsonSafe
  <2> QED  BY <2>1, <2>2 DEF Typed
<1>3. Covered(q, scope) <=>
        /\ \A f \in exact : f \in DOMAIN scope => f \in DOMAIN q /\ q[f] = scope[f]
        /\ "key_ops" \in DOMAIN scope => Get(q, "key_op") \in scope.key_ops
        /\ "max_effect_budget" \in DOMAIN scope =>
              /\ "max_effect_budget" \in DOMAIN q
              /\ q.max_effect_budget \in 0 .. scope.max_effect_budget
  BY <1>1 DEF Covered, ScopeFields
<1>4. \A f \in DOMAIN scope : Get(q, f) = scope[f] <=> f \in DOMAIN q /\ q[f] = scope[f]
  BY <1>1 DEF Get, GetOr
<1>5. "max_effect_budget" \in DOMAIN scope /\ "max_effect_budget" \in DOMAIN q =>
        (q.max_effect_budget > scope.max_effect_budget
          <=> q.max_effect_budget \notin 0 .. scope.max_effect_budget)
  BY <1>1, <1>2
<1> QED  BY <1>3, <1>4, <1>5, ScopePasses

LEMMA TokenMeans ==
    ASSUME NEW c, NEW expected, WellTyped(c), PolicyOk(c.policy), ContextOk(c.context),
           JsonSafe(c.request)
    PROVE  Passes(TokenCode(c, expected)) <=> Entitled(c, expected)
<1> SUFFICES ASSUME CapabilityOk(Get(c.context, "capability_token"))
             PROVE  Passes(FirstCode(TokenChecks(c, expected))) <=> Entitled(c, expected)
  BY TokenPasses DEF Entitled
<1> DEFINE token == c.context.capability_token
           core == token.core
           bound == [action_digest |-> c.request, receipt_digest |-> expected,
                     audience |-> c.request.interface_id, tenant_id |-> c.request.tenant_id,
                     policy_digest |-> c.policy.policy_digest,
                     epoch_id |-> c.policy.current_epoch_id]
<1>1. Get(c.context, "capability_token") = token /\ token \notin {Absent, Bad}
  BY DEF CapabilityOk, Get, GetOr
<1>2. DOMAIN core = CapabilityFields /\ \A f \in DOMAIN core : core[f] # Bad /\ core[f] # Uncanonical
  BY <1>1 DEF CapabilityOk, Shaped, JsonSafe
<1>3. core.valid_to \in Int /\ Now(c) \in Int
  <2>1. Typed(core, "valid_to", Int)
    BY <1>1 DEF WellTyped, TypedContext
  <2> QED  BY <1>2, <2>1, ContextNumbers DEF Typed, CapabilityFields
<1>4. ~(core.valid_to < Now(c)) <=> core.valid_to >= Now(c)
  BY <1>3
<1>5. (\A f \in DOMAIN bound : core[f] = bound[f]) <=>
        /\ core.action_digest = c.request /\ core.receipt_digest = expected
        /\ core.audience = c.request.interface_id /\ core.tenant_id = c.request.tenant_id
        /\ core.policy_digest = c.policy.policy_digest
        /\ core.epoch_id = c.policy.current_epoch_id
  OBVIOUS
<1>6. Entitled(c, expected) <=>
        /\ token.issuer_id \in GetOr(c.policy, "trusted_capability_issuers", {})
        /\ token.signed
        /\ core.valid_to >= Now(c)
        /\ c.policy.canonicalization_profile_ref = Profile
        /\ core.nonce \notin GetOr(c.context, "used_capability_nonces", {})
        /\ {"capability_replay_cache", "used_capability_nonces"} \cap DOMAIN c.context # {}
        /\ \A f \in DOMAIN bound : core[f] = bound[f]
  BY DEF Entitled
<1> HIDE DEF bound
<1> QED  BY <1>4, <1>5, <1>6, TokenTablePasses

(* Whatever a request, a receipt, a policy and a context hold: the ordered  *)
(* checks of verify_permit_receipt let through what the reference permits.  *)
LEMMA PermitMeans ==
    ASSUME NEW c, WellTyped(c)
    PROVE  Passes(PermitCode(c)) <=> Permitted(c)
<1> DEFINE token == IF NeedsCapability(c) THEN TokenCode(c, c.receipt.core) ELSE ""
<1>1. Passes(PermitCode(c)) <=>
        /\ Passes(SchemaCode(c)) /\ Passes(FirstCode(RequestChecks(c)))
        /\ Passes(ReceiptSchemaCode(c.receipt)) /\ Passes(FirstCode(ReceiptChecks(c)))
        /\ Passes(FirstCode(ContextChecks(c)))
        /\ Passes(FirstCode(ScopeChecks(c.request, c.receipt.core.scope)))
        /\ Passes(FirstCode(TransparencyChecks(c))) /\ Passes(c.revocation)
        /\ Passes(FirstCode(ReplayChecks(c))) /\ Passes(token)
  <2>1. PermitCode(c) =
          OrElse(SchemaCode(c), OrElse(FirstCode(RequestChecks(c)),
          OrElse(ReceiptSchemaCode(c.receipt), OrElse(FirstCode(ReceiptChecks(c)),
          OrElse(FirstCode(ContextChecks(c)),
          OrElse(FirstCode(ScopeChecks(c.request, c.receipt.core.scope)),
          OrElse(FirstCode(TransparencyChecks(c)), OrElse(c.revocation,
          OrElse(FirstCode(ReplayChecks(c)), token)))))))))
    BY Zenon DEF PermitCode
  <2> HIDE DEF token
  <2> QED  BY <2>1, OrElsePasses
<1>2. Passes(token) <=> (NeedsCapability(c) => Passes(TokenCode(c, c.receipt.core)))
  BY Zenon DEF Passes
<1>3. Permitted(c) <=>
        /\ Passes(SchemaCode(c)) /\ RequestOk(c.request)
        /\ c.receipt # Absent /\ Passes(ReceiptSchemaCode(c.receipt))
        /\ Vouched(c) /\ Timely(c) /\ Satisfied(c)
        /\ Covered(c.request, c.receipt.core.scope)
        /\ Passes(c.revocation)
        /\ c.receipt.core.nonce \notin GetOr(c.context, "used_nonces", {})
        /\ {"replay_cache", "used_nonces"} \cap DOMAIN c.context # {}
        /\ Get(c.context, "downstream_capability_present") # FALSE
        /\ Flag(c.policy, "require_capability_token") => Entitled(c, c.receipt.core)
  BY Zenon DEF Permitted, Passes
<1> HIDE DEF token
<1>4. /\ Passes(SchemaCode(c)) => PolicyOk(c.policy) /\ ContextOk(c.context)
      /\ RequestOk(c.request) => JsonSafe(c.request)
      /\ Vouched(c) => /\ UsedProfile(c) = c.policy.canonicalization_profile_ref
                       /\ UsedProfile(c) = Profile
  BY SchemaPasses DEF RequestOk, Vouched
<1>5. Get(c.context, "downstream_capability_present") # FALSE =>
        (NeedsCapability(c) <=> Flag(c.policy, "require_capability_token"))
  BY DEF NeedsCapability
<1>6. ASSUME Passes(PermitCode(c)) PROVE Permitted(c)
  BY <1>1, <1>2, <1>3, <1>4, <1>5, <1>6, RequestPasses, ReceiptMeans, ContextMeans, ScopeMeans,
     ReplayPasses, TokenMeans
<1>7. ASSUME Permitted(c) PROVE Passes(PermitCode(c))
  BY <1>1, <1>2, <1>3, <1>4, <1>5, <1>7, RequestPasses, ReceiptMeans, ContextMeans, ScopeMeans,
     ReplayPasses, TokenMeans
<1> QED  BY <1>6, <1>7

(* And those of MockEgressGateway.commit. *)
LEMMA CommitMeans ==
    ASSUME NEW c, WellTyped(c)
    PROVE  Passes(GatewayCode(c)) <=>
             /\ RequestOk(c.request) /\ PolicyOk(c.policy) /\ ContextOk(c.context)
             /\ c.request.interface_id = GatewayId
             /\ "expected_receipt_digest" \in DOMAIN c.context
             /\ Entitled(c, c.context.expected_receipt_digest)
<1> DEFINE expected == Get(c.context, "expected_receipt_digest")
<1>1. RequestOk(c.request) => c.request # Bad
  BY DEF RequestOk
<1>2. CASE c.request = Bad
  <2>1. ~Passes("AttributeError")
    BY CodesRefuse DEF Codes
  <2> QED  BY <1>1, <1>2, <2>1, Zenon DEF GatewayCode
<1>3. CASE c.request # Bad
  <2>1. Passes(GatewayCode(c)) <=> Passes(FirstCode(GatewayChecks(c))) /\ Passes(TokenCode(c, expected))
    BY <1>3, OrElsePasses, Zenon DEF GatewayCode
  <2>2. RequestOk(c.request) => Get(c.request, "interface_id") = c.request.interface_id
    BY DEF RequestOk, Shaped, RequestRequired, Get, GetOr
  <2>3. expected # Absent <=> "expected_receipt_digest" \in DOMAIN c.context
    BY DEF WellTyped, TypedContext, Get, GetOr
  <2>4. "expected_receipt_digest" \in DOMAIN c.context =>
          expected = c.context.expected_receipt_digest
    BY DEF Get, GetOr
  <2>5. Entitled(c, expected) => Get(c.context, "capability_token") # Absent
    BY DEF Entitled, CapabilityOk
  <2>6. RequestOk(c.request) => JsonSafe(c.request)
    BY DEF RequestOk
  <2> QED  BY <2>1, <2>2, <2>3, <2>4, <2>5, <2>6, GatewayPasses, TokenMeans
<1> QED  BY <1>2, <1>3

(* A boundary only adds caches and flags to a context. *)
LEMMA TypedContexts ==
    ASSUME NEW x, TypedContext(x)
    PROVE  TypedContext(WireContext(x)) /\ TypedContext(KmsContext(x)) /\ TypedContext(GatewayContext(x))
<1>1. ASSUME NEW y,
             \A f \in DOMAIN y : y[f] = TRUE \/ (f \in DOMAIN x /\ y[f] = x[f]),
             \A f \in {"now", "clock_drift_seconds", "epoch_sources", "capability_token"} \cap DOMAIN y :
                 f \in DOMAIN x /\ y[f] = x[f]
      PROVE  TypedContext(y)
  <2>1. TRUE \notin {Absent, Bad, Uncanonical}
    BY SchemaAssumption
  <2>2. /\ \A f \in DOMAIN y : y[f] # Uncanonical
        /\ \A f \in DOMAIN y \ {"capability_token"} : y[f] # Absent
    BY <1>1, <2>1 DEF TypedContext
  <2>3. \A f \in {"now", "clock_drift_seconds"} : Typed(y, f, Int)
    BY <1>1 DEF TypedContext, Typed
  <2>4. Get(y, "epoch_sources") \notin {Absent, Bad} => IsFiniteSet(Get(y, "epoch_sources"))
    BY <1>1 DEF TypedContext, Get, GetOr
  <2>5. Get(y, "capability_token") \notin {Absent, Bad} =>
          Typed(Get(y, "capability_token").core, "valid_to", Int)
    BY <1>1 DEF TypedContext, Get, GetOr
  <2> QED  BY <2>2, <2>3, <2>4, <2>5 DEF TypedContext
<1>2. TypedContext(WireContext(x))
  <2> DEFINE y == WireContext(x)
  <2>1. \A f \in DOMAIN y : y[f] = TRUE \/ (f \in DOMAIN x /\ y[f] = x[f])
    BY DEF WireContext, BoundaryCaches, ReplayFields
  <2>2. \A f \in {"now", "clock_drift_seconds", "epoch_sources", "capability_token"} \cap DOMAIN y :
            f \in DOMAIN x /\ y[f] = x[f]
    BY DEF WireContext, BoundaryCaches, ReplayFields
  <2> HIDE DEF y
  <2>3. TypedContext(y)
    BY <1>1, <2>1, <2>2
  <2> QED  BY <2>3 DEF y
<1>3. TypedContext(KmsContext(x))
  <2> DEFINE y == KmsContext(x)
  <2>1. \A f \in DOMAIN y : y[f] = TRUE \/ (f \in DOMAIN x /\ y[f] = x[f])
    BY DEF KmsContext, GetOr
  <2>2. \A f \in {"now", "clock_drift_seconds", "epoch_sources", "capability_token"} \cap DOMAIN y :
            f \in DOMAIN x /\ y[f] = x[f]
    BY DEF KmsContext, GetOr
  <2> HIDE DEF y
  <2>3. TypedContext(y)
    BY <1>1, <2>1, <2>2
  <2> QED  BY <2>3 DEF y
<1>4. TypedContext(GatewayContext(x))
  <2> DEFINE y == GatewayContext(x)
  <2>1. \A f \in DOMAIN y : y[f] = TRUE \/ (f \in DOMAIN x /\ y[f] = x[f])
    BY DEF GatewayContext
  <2>2. \A f \in {"now", "clock_drift_seconds", "epoch_sources", "capability_token"} \cap DOMAIN y :
            f \in DOMAIN x /\ y[f] = x[f]
    BY DEF GatewayContext
  <2> HIDE DEF y
  <2>3. TypedContext(y)
    BY <1>1, <2>1, <2>2
  <2> QED  BY <2>3 DEF y
<1> QED  BY <1>2, <1>3, <1>4

LEMMA NewContext ==
    ASSUME NEW c, WellTyped(c), NEW x, TypedContext(x)
    PROVE  WellTyped([c EXCEPT !.context = x])
<1> DEFINE d == [c EXCEPT !.context = x]
<1>1. /\ DOMAIN d = DOMAIN c /\ d.context = x
      /\ d.request = c.request /\ d.receipt = c.receipt /\ d.policy = c.policy
  BY DEF WellTyped
<1> HIDE DEF d
<1>2. WellTyped(d)
  BY <1>1 DEF WellTyped
<1> QED  BY <1>2 DEF d

(* For every call whose values have their types, however many fields it has *)
(* and lacks: the ordered checks decide what the reference without order    *)
(* decides, at each boundary and at the gateway.                            *)
THEOREM VerdictsAreExact == Spec => []VerdictIsExact
<1>1. ASSUME NEW c \in Inputs \cup Variants
      PROVE  /\ (PermitCode(Prepared(boundary, c)) = "") <=> Permitted(Prepared(boundary, c))
             /\ LET d == [c EXCEPT !.context = GatewayContext(@)]
                IN (GatewayCode(d) = "") <=>
                     /\ RequestOk(d.request) /\ PolicyOk(d.policy) /\ ContextOk(d.context)
                     /\ d.request.interface_id = GatewayId
                     /\ "expected_receipt_digest" \in DOMAIN d.context
                     /\ Entitled(d, d.context.expected_receipt_digest)
  <2> DEFINE x == IF boundary = "kms" THEN KmsContext(c.context) ELSE WireContext(c.context)
             d == [c EXCEPT !.context = GatewayContext(@)]
  <2>1. WellTyped(c) /\ TypedContext(c.context)
    BY InputsAssumption DEF WellTyped
  <2>2. WellTyped(Prepared(boundary, c))
    <3>1. TypedContext(x)
      BY <2>1, TypedContexts
    <3>2. Prepared(boundary, c) = [c EXCEPT !.context = x]
      BY DEF Prepared
    <3> HIDE DEF x
    <3> QED  BY <2>1, <3>1, <3>2, NewContext
  <2>3. WellTyped(d)
    BY <2>1, TypedContexts, NewContext
  <2> HIDE DEF d
  <2>4. Passes(PermitCode(Prepared(boundary, c))) <=> Permitted(Prepared(boundary, c))
    BY <2>2, PermitMeans
  <2>5. Passes(GatewayCode(d)) <=>
             /\ RequestOk(d.request) /\ PolicyOk(d.policy) /\ ContextOk(d.context)
             /\ d.request.interface_id = GatewayId
             /\ "expected_receipt_digest" \in DOMAIN d.context
             /\ Entitled(d, d.context.expected_receipt_digest)
    BY <2>3, CommitMeans
  <2> QED  BY <2>4, <2>5, Zenon DEF Passes, d
<1>2. VerdictIsExact
  BY <1>1, Zenon DEF VerdictIsExact
<1> QED  BY <1>2, PTL

============================================================================
