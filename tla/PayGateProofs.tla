--------------------------- MODULE PayGateProofs ---------------------------
(***************************************************************************)
(* What PayGate promises about charges, for any actions, agents, adapters, *)
(* policies, lifetimes and failures: one charge per counter in the life of *)
(* a process, only what was permitted, and refusals that have a reason.    *)
(*                                                                         *)
(* None of this is inductive.  The argument is about the decisions in the  *)
(* world, in the running call, with the callers or behind a charge: within *)
(* one life of the process their counters rise with the highest one, so    *)
(* that no two are for the same counter; and a provider remembers each     *)
(* decision it has charged in that life.                                   *)
(*                                                                         *)
(* The second part adds the ledger: its file, what it says of decisions    *)
(* that can be charged, and of permits that are used up.                   *)
(***************************************************************************)
EXTENDS PayGate, TLAPS

Deciding == {"allowed", "recorded", "answered"}

(* The decisions anybody can charge or has charged. *)
Minted ==
    tokens \cup {charges[i].decision : i \in DOMAIN charges}
           \cup (IF call.at \in Deciding THEN {call.decision} ELSE {})

(* They are of this life or an earlier one, and those of this life have    *)
(* moved the highest counter of their agent.                               *)
CountersRise ==
    \A d \in Minted :
        /\ d.life <= life /\ d.issued <= now
        /\ d.life = life => d.permit.counter <= highest[Agent[d.permit.action]]

(* One decision for one counter of one agent in one life. *)
CounterMintsOnce ==
    \A d, e \in Minted :
        /\ d.life = e.life
        /\ Agent[d.permit.action] = Agent[e.permit.action]
        /\ d.permit.counter = e.permit.counter
        => d = e

(* Each was within the permit, its lifetime and the policy. *)
MintedAsPermitted ==
    \A d \in Minted :
        /\ d.permit.policy = ActivePolicy
        /\ d.permit.action \in WithinLimits \cap Serves[d.provider]
        /\ d.provider \in Trusted
        /\ d.permit.issued <= d.issued /\ d.issued <= d.permit.issued + PermitTTL

(* A charge is what its decision says, and while the process lives its     *)
(* provider remembers it.                                                  *)
ChargedAsMinted ==
    \A i \in DOMAIN charges :
        LET c == charges[i]  d == c.decision IN
        /\ c.action = d.permit.action /\ c.provider = d.provider
        /\ d.issued <= c.charged /\ c.charged <= d.issued + TokenTTL
        /\ c.life <= life
        /\ c.life = life => DecisionId(d) \in spent[c.provider]

(* What a provider remembers, it has charged. *)
SpentIsCharged ==
    \A v \in Providers : \A x \in spent[v] :
        \E i \in DOMAIN charges : DecisionId(charges[i].decision) = x

(* No decision is charged twice in a life. *)
ChargedOnce ==
    \A i, j \in DOMAIN charges :
        charges[i].decision = charges[j].decision /\ charges[i].life = charges[j].life => i = j

IInv ==
    /\ TypeOK
    /\ CountersRise /\ CounterMintsOnce /\ MintedAsPermitted
    /\ ChargedAsMinted /\ SpentIsCharged /\ ChargedOnce
    /\ AllowIsHonoured

----------------------------------------------------------------------------
(* Decisions *)

(* Whatever somebody can charge or has charged is a decision. *)
LEMMA MintedIsTyped == TypeOK => Minted \subseteq Decision
<1> SUFFICES ASSUME TypeOK PROVE Minted \subseteq Decision
  OBVIOUS
<1>1. \A i \in DOMAIN charges : charges[i].decision \in Decision
  <2> TAKE i \in DOMAIN charges
  <2>1. charges[i] \in Charges
    BY DEF TypeOK
  <2>. QED  BY <2>1 DEF Charges
<1>2. call.at \in Deciding => call.decision \in Decision
  BY DEF TypeOK, Deciding, Idle
<1>3. tokens \subseteq Decision
  BY DEF TypeOK
<1>. QED  BY <1>1, <1>2, <1>3 DEF Minted

(* What a decision consists of. *)
LEMMA DecisionFacts ==
    ASSUME NEW d \in Decision
    PROVE  /\ d.permit \in Permit /\ d.provider \in Providers
           /\ d.issued \in Nat /\ d.life \in Nat
           /\ d.permit.action \in Actions /\ Agent[d.permit.action] \in Agents
           /\ d.permit.counter \in Nat /\ d.permit.issued \in Nat
           /\ DecisionId(d) \in Permit \X Providers \X Nat
<1>1. d.permit \in Permit /\ d.provider \in Providers /\ d.issued \in Nat /\ d.life \in Nat
  BY DEF Decision
<1>2. d.permit.action \in Actions /\ d.permit.counter \in Nat /\ d.permit.issued \in Nat
  BY <1>1, PayGateAssumption DEF Permit
<1>. QED  BY <1>1, <1>2 DEF Agents, DecisionId

(* A step that mints and charges nothing, in the same life, at the same or *)
(* a later time, preserves what is said of decisions.                      *)
LEMMA QuietStep ==
    ASSUME IInv, TypeOK', Minted' \subseteq Minted, now' >= now,
           UNCHANGED <<life, highest, charges, spent>>,
           AllowIsHonoured'
    PROVE  IInv'
<1>1. Minted \subseteq Decision
  BY MintedIsTyped DEF IInv
<1>2. CountersRise'
  <2> SUFFICES ASSUME NEW d \in Minted'
               PROVE  /\ d.life <= life /\ d.issued <= now'
                      /\ d.life = life => d.permit.counter <= highest[Agent[d.permit.action]]
    BY DEF CountersRise
  <2>1. d \in Decision /\ d.life <= life /\ d.issued <= now
    BY <1>1 DEF IInv, CountersRise
  <2>2. d.issued \in Nat /\ now \in Nat /\ now' \in Nat
    BY <2>1, DecisionFacts DEF IInv, TypeOK
  <2>. QED  BY <2>1, <2>2 DEF IInv, CountersRise
<1>3. CounterMintsOnce'
  BY DEF IInv, CounterMintsOnce
<1>4. MintedAsPermitted'
  BY DEF IInv, MintedAsPermitted
<1>5. ChargedAsMinted' /\ SpentIsCharged' /\ ChargedOnce'
  BY DEF IInv, ChargedAsMinted, SpentIsCharged, ChargedOnce
<1>. QED  BY <1>2, <1>3, <1>4, <1>5 DEF IInv

----------------------------------------------------------------------------
(* Charges *)

(* A provider charges only a decision that is for it and for that action,  *)
(* has not expired and was not charged before in this life; it remembers   *)
(* what it charges and refuses for a reason.                               *)
LEMMA ChargeKeepsBooks ==
    ASSUME IInv, NEW d \in Minted, NEW a \in Actions, NEW v \in Providers,
           Charge(d, a, v), UNCHANGED <<now, life>>
    PROVE  /\ charges' \in Seq(Charges)
           /\ spent' \in [Providers -> SUBSET (Permit \X Providers \X Nat)]
           /\ {charges'[i].decision : i \in DOMAIN charges'} \subseteq Minted
           /\ \A i \in DOMAIN charges : i \in DOMAIN charges' /\ charges'[i] = charges[i]
           /\ ChargedAsMinted' /\ SpentIsCharged' /\ ChargedOnce'
<1>1. d \in Decision
  BY MintedIsTyped DEF IInv
<1>2. {charges[i].decision : i \in DOMAIN charges} \subseteq Minted
  BY DEF Minted
<1>3. CASE ProviderCodes(d, a, v) # {}
  <2>1. UNCHANGED <<charges, spent>>
    BY <1>3 DEF Charge
  <2>. QED
    BY <2>1, <1>2 DEF IInv, TypeOK, ChargedAsMinted, SpentIsCharged, ChargedOnce
<1>4. CASE ProviderCodes(d, a, v) = {}
  <2> DEFINE c == [decision |-> d, action |-> a, provider |-> v,
                   charged |-> now, life |-> life, gated |-> call # Idle]
  <2>1. charges' = Append(charges, c) /\ spent' = [spent EXCEPT ![v] = @ \cup {DecisionId(d)}]
    BY <1>4 DEF Charge
  <2>2. /\ d.provider = v /\ d.permit.action = a
        /\ ~(d.issued + TokenTTL < now)
        /\ DecisionId(d) \notin spent[v]
    BY <1>4 DEF ProviderCodes, Refusals
  <2>3. c \in Charges /\ charges \in Seq(Charges)
    BY <1>1 DEF IInv, TypeOK, Charges
  <2>4. /\ Len(charges) \in Nat /\ DOMAIN charges = 1 .. Len(charges)
        /\ DOMAIN charges' = 1 .. Len(charges) + 1
        /\ charges'[Len(charges) + 1] = c
        /\ \A i \in DOMAIN charges : charges'[i] = charges[i]
    BY <2>1, <2>3
  <2> HIDE DEF c
  <2>5. c.decision = d /\ c.action = a /\ c.provider = v /\ c.charged = now /\ c.life = life
    BY DEF c
  <2>6. spent' \in [Providers -> SUBSET (Permit \X Providers \X Nat)]
    BY <2>1, <1>1, DecisionFacts DEF IInv, TypeOK
  <2>7. ChargedAsMinted'
    <3> SUFFICES ASSUME NEW i \in DOMAIN charges'
                 PROVE  LET e == charges'[i]  b == e.decision IN
                        /\ e.action = b.permit.action /\ e.provider = b.provider
                        /\ b.issued <= e.charged /\ e.charged <= b.issued + TokenTTL
                        /\ e.life <= life
                        /\ e.life = life => DecisionId(b) \in spent'[e.provider]
      BY DEF ChargedAsMinted
    <3>1. CASE i = Len(charges) + 1
      <4>1. d.issued <= now /\ d.issued \in Nat /\ now \in Nat /\ life \in Nat /\ TokenTTL \in Nat
        BY <1>1, DecisionFacts, PayGateAssumption DEF IInv, CountersRise, TypeOK
      <4>2. DecisionId(d) \in spent'[v]
        BY <2>1 DEF IInv, TypeOK
      <4>. QED  BY <3>1, <2>2, <2>4, <2>5, <4>1, <4>2
    <3>2. CASE i \in DOMAIN charges
      <4>1. charges[i] \in Charges /\ charges[i].provider \in Providers
        <5>1. charges[i] \in Charges
          BY <3>2, <2>3
        <5>. QED  BY <5>1 DEF Charges
      <4>2. spent[charges[i].provider] \subseteq spent'[charges[i].provider]
        BY <2>1, <4>1 DEF IInv, TypeOK
      <4>. QED  BY <3>2, <2>4, <4>2 DEF IInv, ChargedAsMinted
    <3>. QED  BY <3>1, <3>2, <2>4
  <2>8. SpentIsCharged'
    <3> SUFFICES ASSUME NEW w \in Providers, NEW x \in spent'[w]
                 PROVE  \E i \in DOMAIN charges' : DecisionId(charges'[i].decision) = x
      BY DEF SpentIsCharged
    <3>1. CASE x \in spent[w]
      BY <3>1, <2>4 DEF IInv, SpentIsCharged
    <3>2. CASE x = DecisionId(d)
      BY <3>2, <2>4, <2>5
    <3>. QED  BY <3>1, <3>2, <2>1 DEF IInv, TypeOK
  <2>9. ChargedOnce'
    <3>1. ASSUME NEW i \in DOMAIN charges, charges[i].decision = d, charges[i].life = life
          PROVE  FALSE
      <4>1. charges[i].provider = v /\ DecisionId(d) \in spent[v]
        BY <3>1, <2>2 DEF IInv, ChargedAsMinted
      <4>. QED  BY <4>1, <2>2
    <3> SUFFICES ASSUME NEW i \in DOMAIN charges', NEW j \in DOMAIN charges',
                        charges'[i].decision = charges'[j].decision,
                        charges'[i].life = charges'[j].life
                 PROVE  i = j
      BY DEF ChargedOnce
    <3>2. CASE i \in DOMAIN charges /\ j \in DOMAIN charges
      BY <3>2, <2>4 DEF IInv, ChargedOnce
    <3>3. CASE i = Len(charges) + 1 /\ j \in DOMAIN charges
      BY <3>3, <3>1, <2>4, <2>5
    <3>4. CASE i \in DOMAIN charges /\ j = Len(charges) + 1
      BY <3>4, <3>1, <2>4, <2>5
    <3>. QED  BY <3>2, <3>3, <3>4, <2>4
  <2>10. {charges'[i].decision : i \in DOMAIN charges'} \subseteq Minted
    BY <1>2, <2>4, <2>5
  <2>11. charges' \in Seq(Charges)
    BY <2>1, <2>3
  <2>. QED  BY <2>4, <2>6, <2>7, <2>8, <2>9, <2>10, <2>11
<1>. QED  BY <1>3, <1>4

----------------------------------------------------------------------------
(* The steps *)

(* A gate that starts has no decision and no charge, whatever the file      *)
(* holds.                                                                  *)
LEMMA InitEstablishes == Init => IInv
<1> SUFFICES ASSUME Init PROVE IInv
  OBVIOUS
<1>1. TypeOK
  BY PayGateAssumption DEF Init, TypeOK, Idle
<1>2. Minted = {} /\ DOMAIN charges = {}
  BY DEF Init, Minted, Deciding, Idle
<1>3. AllowIsHonoured
  BY DEF Init, AllowIsHonoured, Idle
<1>4. SpentIsCharged
  BY DEF Init, SpentIsCharged
<1>. QED
  BY <1>1, <1>2, <1>3, <1>4
     DEF IInv, CountersRise, CounterMintsOnce, MintedAsPermitted, ChargedAsMinted, ChargedOnce

(* A verification that allows mints a decision, for a counter above all    *)
(* those of this life.                                                     *)
LEMMA VerifyPreserves ==
    ASSUME IInv, NEW p \in permits, NEW a \in Actions, NEW v \in Providers, NEW s \in BOOLEAN,
           Verify(p, a, v, s)
    PROVE  IInv'
<1>1. p \in Permit /\ p.action \in Actions /\ p.counter \in Nat /\ p.issued \in Nat
  BY PayGateAssumption DEF IInv, TypeOK, Permit
<1>2. CASE PermitFails(p, a, v, s) \/ Replayed(p)
  <2>1. call' = [at |-> "denied"] /\ UNCHANGED <<now, permits, highest, spent, tokens, charges, life>>
    BY <1>2 DEF Verify
  <2>2. TypeOK'
    BY <2>1 DEF IInv, TypeOK
  <2>3. Minted' \subseteq Minted
    BY <2>1 DEF Minted, Deciding
  <2>4. AllowIsHonoured'
    BY <2>1 DEF AllowIsHonoured
  <2>5. now' >= now
    BY <2>1 DEF IInv, TypeOK
  <2>. QED  BY <2>1, <2>2, <2>3, <2>4, <2>5, QuietStep
<1>3. CASE ~(PermitFails(p, a, v, s) \/ Replayed(p))
  <2> DEFINE d == [permit |-> p, provider |-> v, issued |-> now, life |-> life]
  <2>1. /\ highest' = [highest EXCEPT ![Agent[p.action]] = p.counter]
        /\ call' = [at |-> "allowed", decision |-> d]
        /\ UNCHANGED <<now, permits, spent, tokens, charges, life>>
    BY <1>3 DEF Verify
  <2>2. /\ p.policy = ActivePolicy /\ p.action \in WithinLimits \cap Serves[v] /\ v \in Trusted
        /\ p.issued <= now /\ now <= p.issued + PermitTTL
        /\ p.counter > highest[Agent[p.action]]
    <3>1. now \in Nat /\ PermitTTL \in Nat /\ Agent[p.action] \in Agents /\ highest[Agent[p.action]] \in Nat
      BY <1>1, PayGateAssumption DEF IInv, TypeOK, Agents
    <3>. QED  BY <1>1, <1>3, <3>1 DEF PermitFails, Replayed
  <2>3. d \in Decision
    BY <1>1 DEF IInv, TypeOK, Decision
  <2>4. /\ d.permit = p /\ d.provider = v /\ d.issued = now /\ d.life = life
    OBVIOUS
  <2> HIDE DEF d
  <2>5. Minted' \subseteq Minted \cup {d} /\ Minted \subseteq Decision
    BY <2>1, MintedIsTyped DEF IInv, Minted, Deciding
  <2>6. TypeOK'
    BY <2>1, <2>3, <1>1 DEF IInv, TypeOK, Agents
  <2>7. ASSUME NEW e \in Minted
        PROVE  /\ e.life <= life /\ e.issued <= now
               /\ e.life = life =>
                     /\ e.permit.counter <= highest'[Agent[e.permit.action]]
                     /\ Agent[e.permit.action] = Agent[p.action] => e.permit.counter < p.counter
    <3>1. e \in Decision
      BY <2>5
    <3>2. /\ Agent[e.permit.action] \in Agents /\ e.permit.counter \in Nat
          /\ highest[Agent[e.permit.action]] \in Nat /\ highest[Agent[p.action]] \in Nat
          /\ Agent[p.action] \in Agents
      BY <3>1, <1>1, DecisionFacts DEF IInv, TypeOK, Agents
    <3>3. /\ e.life <= life /\ e.issued <= now
          /\ e.life = life => e.permit.counter <= highest[Agent[e.permit.action]]
      BY DEF IInv, CountersRise
    <3>4. highest \in [Agents -> Nat]
      BY DEF IInv, TypeOK
    <3>. QED  BY <3>2, <3>3, <3>4, <2>1, <2>2, <1>1
  <2>8. CountersRise'
    <3>1. /\ d.life <= life /\ d.issued <= now
          /\ d.permit.counter <= highest'[Agent[d.permit.action]]
      BY <2>1, <2>4, <1>1 DEF IInv, TypeOK, Agents
    <3>. QED  BY <3>1, <2>1, <2>5, <2>7 DEF CountersRise
  <2>9. CounterMintsOnce'
    <3>1. ASSUME NEW e \in Minted, e.life = life, Agent[e.permit.action] = Agent[p.action]
          PROVE  e.permit.counter # p.counter
      <4>1. e.permit.counter < p.counter /\ e.permit.counter \in Nat
        BY <3>1, <2>5, <2>7, DecisionFacts
      <4>. QED  BY <4>1, <1>1
    <3>. QED  BY <3>1, <2>4, <2>5 DEF IInv, CounterMintsOnce
  <2>10. MintedAsPermitted'
    BY <2>2, <2>4, <2>5 DEF IInv, MintedAsPermitted
  <2>11. ChargedAsMinted' /\ SpentIsCharged' /\ ChargedOnce'
    BY <2>1 DEF IInv, ChargedAsMinted, SpentIsCharged, ChargedOnce
  <2>12. AllowIsHonoured'
    BY <2>1 DEF AllowIsHonoured
  <2>. QED  BY <2>6, <2>8, <2>9, <2>10, <2>11, <2>12 DEF IInv
<1>. QED  BY <1>2, <1>3

(* The provider answers the running call. *)
LEMMA CommitPreserves == ASSUME IInv, Commit PROVE IInv'
<1> DEFINE d == call.decision
           a == d.permit.action
           v == d.provider
<1>1. d \in Minted /\ d \in Decision /\ a \in Actions /\ v \in Providers
  <2>1. d \in Minted
    BY DEF Commit, Minted, Deciding
  <2>. QED  BY <2>1, MintedIsTyped, DecisionFacts DEF IInv
<1>2. /\ Charge(d, a, v)
      /\ call' = [at |-> "answered", decision |-> d, codes |-> ProviderCodes(d, a, v)]
      /\ UNCHANGED <<now, permits, highest, tokens, life>>
  BY DEF Commit
<1> HIDE DEF d, a, v
<1>3. /\ charges' \in Seq(Charges)
      /\ spent' \in [Providers -> SUBSET (Permit \X Providers \X Nat)]
      /\ {charges'[i].decision : i \in DOMAIN charges'} \subseteq Minted
      /\ \A i \in DOMAIN charges : i \in DOMAIN charges' /\ charges'[i] = charges[i]
      /\ ChargedAsMinted' /\ SpentIsCharged' /\ ChargedOnce'
  BY <1>1, <1>2, ChargeKeepsBooks
<1>4. ProviderCodes(d, a, v) \subseteq Refusals
  BY DEF ProviderCodes
<1>5. TypeOK'
  <2>1. call' \in [at : {"answered"}, decision : Decision, codes : SUBSET Refusals]
    BY <1>1, <1>2, <1>4
  <2>. QED  BY <1>2, <1>3, <2>1 DEF IInv, TypeOK
<1>6. Minted' \subseteq Minted
  BY <1>1, <1>2, <1>3 DEF Minted, Deciding
<1>7. CountersRise' /\ CounterMintsOnce' /\ MintedAsPermitted'
  BY <1>2, <1>6 DEF IInv, CountersRise, CounterMintsOnce, MintedAsPermitted
<1>8. AllowIsHonoured'
  <2> SUFFICES ASSUME ProviderCodes(d, a, v) # {}, ProviderCodes(d, a, v) # {"EXPIRED"}
               PROVE  \E i \in DOMAIN charges' : DecisionId(charges'[i].decision) = DecisionId(d)
    BY <1>2 DEF AllowIsHonoured
  <2>1. "REPLAY" \in ProviderCodes(d, a, v)
    <3>1. d.provider = v /\ d.permit.action = a /\ a \in Serves[v]
      BY <1>1 DEF IInv, MintedAsPermitted, a, v
    <3>2. {"BINDING", "ACTION", "MERCHANT"} \cap ProviderCodes(d, a, v) = {}
      BY <3>1 DEF ProviderCodes
    <3>. QED  BY <1>4, <3>2 DEF Refusals
  <2>2. DecisionId(d) \in spent[v]
    BY <2>1 DEF ProviderCodes
  <2>3. PICK i \in DOMAIN charges : DecisionId(charges[i].decision) = DecisionId(d)
    BY <1>1, <2>2 DEF IInv, SpentIsCharged
  <2>. QED  BY <1>3, <2>3
<1>. QED  BY <1>3, <1>5, <1>7, <1>8 DEF IInv

(* A caller presents a decision receipt to a provider. *)
LEMMA PresentPreserves ==
    ASSUME IInv, NEW d \in tokens, NEW a \in Actions, NEW v \in Providers, Present(d, a, v)
    PROVE  IInv'
<1>1. d \in Minted
  BY DEF Minted
<1>2. Charge(d, a, v) /\ call = Idle /\ UNCHANGED <<now, permits, highest, call, tokens, life>>
  BY DEF Present
<1>3. /\ charges' \in Seq(Charges)
      /\ spent' \in [Providers -> SUBSET (Permit \X Providers \X Nat)]
      /\ {charges'[i].decision : i \in DOMAIN charges'} \subseteq Minted
      /\ ChargedAsMinted' /\ SpentIsCharged' /\ ChargedOnce'
  BY <1>1, <1>2, ChargeKeepsBooks
<1>4. TypeOK'
  BY <1>2, <1>3 DEF IInv, TypeOK
<1>5. Minted' \subseteq Minted
  BY <1>2, <1>3 DEF Minted, Deciding, Idle
<1>6. CountersRise' /\ CounterMintsOnce' /\ MintedAsPermitted'
  BY <1>2, <1>5 DEF IInv, CountersRise, CounterMintsOnce, MintedAsPermitted
<1>7. AllowIsHonoured'
  BY <1>2 DEF AllowIsHonoured, Idle
<1>. QED  BY <1>3, <1>4, <1>6, <1>7 DEF IInv

(* The next process has empty stores: what earlier ones decided and        *)
(* charged is of an earlier life.                                          *)
LEMMA RestartPreserves == ASSUME IInv, Restart PROVE IInv'
<1>1. /\ highest' = [g \in Agents |-> 0] /\ spent' = [v \in Providers |-> {}]
      /\ life' = life + 1 /\ UNCHANGED <<now, permits, call, tokens, charges>>
  BY DEF Restart
<1>2. Minted' = Minted /\ Minted \subseteq Decision /\ life \in Nat
  BY <1>1, MintedIsTyped DEF IInv, TypeOK, Minted
<1>3. TypeOK'
  BY <1>1 DEF IInv, TypeOK
<1>4. CountersRise'
  <2> SUFFICES ASSUME NEW d \in Minted
               PROVE  d.life <= life + 1 /\ d.issued <= now /\ d.life # life + 1
    BY <1>1, <1>2 DEF CountersRise
  <2>1. d.life \in Nat /\ d.life <= life /\ d.issued <= now
    BY <1>2, DecisionFacts DEF IInv, CountersRise
  <2>. QED  BY <1>2, <2>1
<1>5. CounterMintsOnce' /\ MintedAsPermitted' /\ ChargedOnce' /\ AllowIsHonoured'
  BY <1>1, <1>2 DEF IInv, CounterMintsOnce, MintedAsPermitted, ChargedOnce, AllowIsHonoured
<1>6. ChargedAsMinted'
  <2> SUFFICES ASSUME NEW i \in DOMAIN charges
               PROVE  LET c == charges[i]  d == c.decision IN
                      /\ c.action = d.permit.action /\ c.provider = d.provider
                      /\ d.issued <= c.charged /\ c.charged <= d.issued + TokenTTL
                      /\ c.life <= life + 1 /\ c.life # life + 1
    BY <1>1 DEF ChargedAsMinted
  <2>1. charges[i] \in Charges
    BY DEF IInv, TypeOK
  <2>2. charges[i].life \in Nat
    BY <2>1 DEF Charges
  <2>. QED  BY <1>2, <2>2 DEF IInv, ChargedAsMinted
<1>7. SpentIsCharged'
  BY <1>1 DEF SpentIsCharged
<1>. QED  BY <1>3, <1>4, <1>5, <1>6, <1>7 DEF IInv

(* A write of the ledger, whether it returns or raises, and a stop of the  *)
(* process move the call on and mint nothing: the decision receipt that is *)
(* returned is the one of the call.                                        *)
LEMMA WritePreserves ==
    ASSUME IInv, Record \/ (\E how \in Cuts : RecordRaises(how)) \/ Stop
    PROVE  IInv'
<1>1. UNCHANGED <<now, permits, life, highest, spent, charges>>
  BY DEF Record, RecordRaises, Stop, memory
<1>2. \/ call' = Idle
      \/ call.at = "allowed" /\ call' = [call EXCEPT !.at = "recorded"]
  BY DEF Record, RecordRaises, Stop
<1>3. \/ tokens' = tokens
      \/ call.at = "answered" /\ tokens' = tokens \cup {call.decision}
  BY DEF Record, RecordRaises, Stop
<1>4. call.at = "allowed" =>
          /\ call \in [at : {"allowed", "recorded"}, decision : Decision]
          /\ [call EXCEPT !.at = "recorded"] = [at |-> "recorded", decision |-> call.decision]
  BY DEF IInv, TypeOK, Idle
<1>5. call.at \in Deciding => call.decision \in Decision
  BY DEF IInv, TypeOK, Idle, Deciding
<1>6. TypeOK'
  BY <1>1, <1>2, <1>3, <1>4, <1>5 DEF IInv, TypeOK, Deciding
<1>7. Minted' \subseteq Minted
  BY <1>1, <1>2, <1>3, <1>4 DEF Minted, Deciding, Idle
<1>8. AllowIsHonoured'
  BY <1>2, <1>4 DEF AllowIsHonoured, Idle
<1>9. now' >= now
  BY <1>1 DEF IInv, TypeOK
<1>. QED  BY <1>1, <1>6, <1>7, <1>8, <1>9, QuietStep

(* Nor does what goes on around the gate. *)
LEMMA WorldPreserves ==
    ASSUME IInv,
           \/ Tick
           \/ \E a \in Actions, n \in 1 .. MaxCounter, q \in Policies : Issue(a, n, q)
           \/ \E p \in permits : Revoke(p)
           \/ UNCHANGED vars
    PROVE  IInv'
<1>1. UNCHANGED <<life, highest, spent, charges, call, tokens>>
  BY DEF Tick, Issue, Revoke, vars, memory
<1>2. now' \in Nat /\ now' >= now
  BY DEF IInv, TypeOK, Tick, Issue, Revoke, vars
<1>3. permits' \subseteq Permit
  <2>1. CASE \E a \in Actions, n \in 1 .. MaxCounter, q \in Policies : Issue(a, n, q)
    BY <2>1 DEF IInv, TypeOK, Issue, Permit
  <2>2. CASE UNCHANGED permits
    BY <2>2 DEF IInv, TypeOK
  <2>. QED  BY <2>1, <2>2 DEF Tick, Revoke, vars
<1>4. TypeOK'
  BY <1>1, <1>2, <1>3 DEF IInv, TypeOK
<1>5. Minted' \subseteq Minted
  BY <1>1 DEF Minted
<1>6. AllowIsHonoured'
  BY <1>1 DEF IInv, AllowIsHonoured
<1>. QED  BY <1>1, <1>2, <1>4, <1>5, <1>6, QuietStep

(* Every step of the gate, the ledger, a provider or the world preserves   *)
(* what is said of decisions and charges.                                  *)
LEMMA StepPreserves == IInv /\ [Next]_vars => IInv'
<1> SUFFICES ASSUME IInv, [Next]_vars PROVE IInv'
  OBVIOUS
<1>1. ASSUME NEW p \in permits, NEW a \in Actions, NEW v \in Providers, NEW s \in BOOLEAN,
             Verify(p, a, v, s)
      PROVE  IInv'
  BY <1>1, VerifyPreserves
<1>2. ASSUME NEW d \in tokens, NEW a \in Actions, NEW v \in Providers, Present(d, a, v)
      PROVE  IInv'
  BY <1>2, PresentPreserves
<1>. QED
  BY <1>1, <1>2, CommitPreserves, RestartPreserves, WritePreserves, WorldPreserves DEF Next

(* What is said of decisions and charges holds throughout. *)
THEOREM Invariance == Spec => []IInv
BY InitEstablishes, StepPreserves, PTL DEF Spec

----------------------------------------------------------------------------

(* A counter of an agent pays once in a life of the process: two charges   *)
(* for it would rest on one decision, which its provider remembers.        *)
LEMMA CountersPayOnce == IInv => OneChargePerCounter
<1> SUFFICES ASSUME IInv, NEW i \in DOMAIN charges, NEW j \in DOMAIN charges, i < j,
                    Agent[charges[i].action] = Agent[charges[j].action],
                    charges[i].decision.permit.counter = charges[j].decision.permit.counter,
                    charges[i].life = charges[j].life,
                    charges[i].decision.life = charges[j].decision.life
             PROVE  FALSE
  BY DEF OneChargePerCounter
<1>1. charges[i].decision \in Minted /\ charges[j].decision \in Minted
  BY DEF Minted
<1>2. /\ charges[i].action = charges[i].decision.permit.action
      /\ charges[j].action = charges[j].decision.permit.action
  BY DEF IInv, ChargedAsMinted
<1>3. charges[i].decision = charges[j].decision
  BY <1>1, <1>2 DEF IInv, CounterMintsOnce
<1>4. i = j
  BY <1>3 DEF IInv, ChargedOnce
<1>5. i \in Nat
  BY DEF IInv, TypeOK
<1>. QED  BY <1>4, <1>5

(* A counter of an agent pays once in a life of the process.               *)
THEOREM OneChargeEach == Spec => []OneChargePerCounter
BY Invariance, CountersPayOnce, PTL

(* Whatever is charged was permitted, decided in time and charged in time. *)
THEOREM OnlyPermittedCharges == Spec => []ChargesArePermitted
<1>1. IInv => ChargesArePermitted
  <2> SUFFICES ASSUME IInv, NEW i \in DOMAIN charges
               PROVE  LET c == charges[i]  p == c.decision.permit IN
                      /\ c.action = p.action /\ c.action \in WithinLimits
                      /\ c.provider = c.decision.provider /\ c.provider \in Trusted
                      /\ p.policy = ActivePolicy
                      /\ p.issued <= c.charged /\ c.charged <= p.issued + PermitTTL + TokenTTL
    BY DEF ChargesArePermitted
  <2> DEFINE c == charges[i]
             d == c.decision
  <2>1. d \in Minted /\ d \in Decision
    BY MintedIsTyped DEF IInv, Minted
  <2>2. c \in Charges
    BY DEF IInv, TypeOK
  <2>3. c.charged \in Nat /\ d.issued \in Nat /\ d.permit.issued \in Nat
    BY <2>1, <2>2, DecisionFacts DEF Charges
  <2>4. /\ c.action = d.permit.action /\ c.provider = d.provider
        /\ d.issued <= c.charged /\ c.charged <= d.issued + TokenTTL
    BY DEF IInv, ChargedAsMinted
  <2>5. /\ d.permit.policy = ActivePolicy /\ d.permit.action \in WithinLimits
        /\ d.provider \in Trusted
        /\ d.permit.issued <= d.issued /\ d.issued <= d.permit.issued + PermitTTL
    BY <2>1 DEF IInv, MintedAsPermitted
  <2> HIDE DEF d
  <2>6. PermitTTL \in Nat /\ TokenTTL \in Nat
    BY PayGateAssumption
  <2>. QED  BY <2>3, <2>4, <2>5, <2>6 DEF d
<1>. QED  BY <1>1, Invariance, PTL

(* A provider turns down what the gate has allowed only when the decision  *)
(* has expired or is charged already.                                      *)
THEOREM AllowsAreHonoured == Spec => []AllowIsHonoured
<1>1. IInv => AllowIsHonoured
  BY DEF IInv
<1>. QED  BY <1>1, Invariance, PTL

----------------------------------------------------------------------------
(* What the gate has its ledger keep. *)
DecisionIds == Permit \X Providers \X Nat
Entries ==
    {Denied}
    \cup [type : {"decision"}, outcome : {"ALLOW"}, of : Permit \X Providers,
          splits : {FALSE}]
    \cup [type : {"commit"}, authorized : {TRUE}, id : DecisionIds, splits : BOOLEAN]
    \cup [type : {"commit"}, authorized : {FALSE}, splits : {FALSE}]

Chains == Seq([seq : Nat, what : Entries])
Envelopes == [seq : Nat, prev : Chains, what : Entries]

LedgerType ==
    /\ records \in Seq(Envelopes)
    /\ lines \in Seq(Envelopes \cup {Torn})
    /\ loose \in BOOLEAN /\ up \in BOOLEAN /\ behind \in BOOLEAN /\ gap \in BOOLEAN
    /\ kept \subseteq Envelopes
    /\ loose => lines # <<>>

(* The list in memory is the file, unless an append raised or a line was   *)
(* cut; *)
MemoryIsFile == up /\ ~behind /\ Whole => records = lines

(* an append that raised leaves the file shorter, cut or without its last  *)
(* newline.                                                                *)
FileIsBehind ==
    behind => up /\ (Whole /\ ~loose => Len(records) > Len(lines))

(* A line that was acknowledged is not the loose one at the end. *)
KeptIsClosed ==
    \A e \in kept : \E i \in 1 .. Len(lines) : lines[i] = e /\ (loose => i < Len(lines))

LedgerInv == LedgerType /\ FileVerifies /\ MemoryIsFile /\ FileIsBehind /\ KeptIsClosed

(* Whose ALLOW must be in the file. *)
Decisive ==
    tokens \cup {charges[i].decision : i \in DOMAIN charges}
           \cup (IF call.at \in {"recorded", "answered"} THEN {call.decision} ELSE {})

DecidedFirst ==
    Whole => \A d \in Decisive : \E k \in DOMAIN lines : lines[k].what = Decided(d)

(* What splits a line is what a payment left. *)
SplitsByPayment ==
    \A k \in DOMAIN lines : lines[k] # Torn /\ lines[k].what.splits =>
        \E i \in DOMAIN charges : charges[i].gated /\ charges[i].action \in Separated

(* What the provider did in this life for the gate. *)
CallIsOfNow ==
    /\ up \/ call = Idle
    /\ call.at \in Deciding => call.decision.life = life
    /\ call.at \in {"allowed", "recorded"} => ~Paid(PermitId(call.decision.permit))
    /\ call.at = "answered" => (call.codes = {} <=> Paid(PermitId(call.decision.permit)))

GatedIsOfItsLife ==
    \A i \in DOMAIN charges : charges[i].gated => charges[i].decision.life = charges[i].life

(* The decision of a call that waits for the provider is the last record. *)
RecordedIsLast ==
    call.at \in {"recorded", "answered"} =>
        records # <<>> /\ records[Len(records)].what = Decided(call.decision)

(* A permit that is used up is the one of the running call or on record. *)
InCall(x) == call.at \in Deciding /\ PermitId(call.decision.permit) = x

UsesAreBooked == up /\ ~behind => \A x \in used : InCall(x) \/ Accounted(x)

BookInv == CallIsOfNow /\ GatedIsOfItsLife /\ RecordedIsLast /\ UsesAreBooked

----------------------------------------------------------------------------
(* The chain *)

(* An envelope for what is recorded now is one, and continues the chain.   *)
LEMMA EnvelopeType ==
    ASSUME records \in Seq(Envelopes), NEW what \in Entries
    PROVE  Envelope(what) \in Envelopes
<1>1. LastHash(records) \in Chains
  <2>1. CASE records = <<>>
    BY <2>1 DEF LastHash, Genesis, Chains
  <2>2. CASE records # <<>>
    <3>1. Last(records) \in Envelopes
      BY <2>2 DEF Last
    <3>. QED  BY <2>2, <3>1 DEF LastHash, ChainHash, Chains, Envelopes
  <2>. QED  BY <2>1, <2>2
<1>. QED  BY <1>1 DEF Envelope, Envelopes

(* A chain with one more envelope that commits to it is a chain. *)
LEMMA ChainGrows ==
    ASSUME NEW chain \in Seq(Envelopes), VerifyChain(chain),
           NEW e \in Envelopes, e.seq = Len(chain) + 1, e.prev = LastHash(chain)
    PROVE  VerifyChain(Append(chain, e))
<1> DEFINE longer == Append(chain, e)
<1>1. longer \in Seq(Envelopes) /\ Len(longer) = Len(chain) + 1
  OBVIOUS
<1>2. ASSUME NEW i \in 1 .. Len(chain)
      PROVE  longer[i] = chain[i] /\ SubSeq(longer, 1, i - 1) = SubSeq(chain, 1, i - 1)
  OBVIOUS
<1>3. longer[Len(longer)] = e /\ SubSeq(longer, 1, Len(longer) - 1) = chain
  OBVIOUS
<1>4. ASSUME NEW i \in 1 .. Len(longer)
      PROVE  longer[i].seq = i /\ longer[i].prev = LastHash(SubSeq(longer, 1, i - 1))
  <2>1. CASE i \in 1 .. Len(chain)
    BY <1>2, <2>1 DEF VerifyChain
  <2>2. CASE i = Len(longer)
    BY <1>1, <1>3, <2>2
  <2>. QED  BY <1>1, <2>1, <2>2
<1>. QED  BY <1>4 DEF VerifyChain

(* And what begins with something else than a chain is none. *)
LEMMA ChainBegins ==
    ASSUME NEW chain \in Seq(Envelopes), NEW e \in Envelopes, VerifyChain(Append(chain, e))
    PROVE  VerifyChain(chain) /\ e.seq = Len(chain) + 1
<1> DEFINE longer == Append(chain, e)
<1>1. longer \in Seq(Envelopes) /\ Len(longer) = Len(chain) + 1
  OBVIOUS
<1>2. ASSUME NEW i \in 1 .. Len(chain)
      PROVE  longer[i] = chain[i] /\ SubSeq(longer, 1, i - 1) = SubSeq(chain, 1, i - 1)
  OBVIOUS
<1>3. longer[Len(longer)] = e /\ Len(longer) \in 1 .. Len(longer)
  OBVIOUS
<1> HIDE DEF longer
<1>4. ASSUME NEW i \in 1 .. Len(chain)
      PROVE  chain[i].seq = i /\ chain[i].prev = LastHash(SubSeq(chain, 1, i - 1))
  <2>1. i \in 1 .. Len(longer)
    BY <1>1
  <2>2. longer[i].seq = i /\ longer[i].prev = LastHash(SubSeq(longer, 1, i - 1))
    BY <2>1 DEF VerifyChain, longer
  <2>. QED  BY <1>2, <2>2
<1>5. e.seq = Len(longer)
  BY <1>3 DEF VerifyChain, longer
<1>. QED  BY <1>1, <1>4, <1>5 DEF VerifyChain

----------------------------------------------------------------------------
(* The file *)

(* Writing a line appends it, whole or cut, but to a file that ends in a   *)
(* loose line, which it spoils; all other lines stay.                      *)
LEMMA LineEffect ==
    ASSUME LedgerType, NEW e \in Envelopes, NEW how, WriteLine(e, how)
    PROVE  /\ lines' \in Seq(Envelopes \cup {Torn}) /\ loose' \in BOOLEAN
           /\ loose' => lines' # <<>>
           /\ how = "none" => lines' = lines /\ loose' = loose
           /\ how # "none" => (loose' <=> how # "whole")
           /\ ~loose /\ how \notin {"none", "part"} => lines' = Append(lines, e)
           /\ \A i \in 1 .. Len(lines) :
                  (loose => i < Len(lines)) =>
                      /\ i \in 1 .. Len(lines') /\ lines'[i] = lines[i]
                      /\ loose' => i < Len(lines')
<1> DEFINE base == IF loose THEN Front(lines) ELSE lines
           line == IF loose \/ how = "part" THEN Torn ELSE e
<1>1. CASE how = "none"
  BY <1>1 DEF WriteLine, LedgerType
<1>2. CASE how # "none"
  <2>1. lines' = Append(base, line) /\ loose' = (how # "whole")
    BY <1>2 DEF WriteLine
  <2>2. line \in Envelopes \cup {Torn} /\ (~loose /\ how # "part" => line = e)
    OBVIOUS
  <2>3. /\ base \in Seq(Envelopes \cup {Torn})
        /\ Len(base) = IF loose THEN Len(lines) - 1 ELSE Len(lines)
        /\ \A i \in 1 .. Len(base) : base[i] = lines[i]
        /\ ~loose => base = lines
    <3>1. CASE loose
      <4>1. base = SubSeq(lines, 1, Len(lines) - 1) /\ lines # <<>>
        BY <3>1 DEF Front, LedgerType
      <4>. QED  BY <3>1, <4>1 DEF LedgerType
    <3>2. CASE ~loose
      BY <3>2 DEF LedgerType
    <3>. QED  BY <3>1, <3>2
  <2>. HIDE DEF base, line
  <2>4. /\ lines' \in Seq(Envelopes \cup {Torn}) /\ lines' # <<>>
        /\ Len(lines') = Len(base) + 1
        /\ \A i \in 1 .. Len(base) : lines'[i] = base[i]
    BY <2>1, <2>2, <2>3
  <2>5. lines \in Seq(Envelopes \cup {Torn})
    BY DEF LedgerType
  <2>6. ASSUME NEW i \in 1 .. Len(lines), loose => i < Len(lines)
        PROVE  i \in 1 .. Len(lines') /\ lines'[i] = lines[i] /\ i < Len(lines')
    BY <2>3, <2>4, <2>5, <2>6
  <2>. QED  BY <1>2, <2>1, <2>2, <2>3, <2>4, <2>6
<1>. QED  BY <1>1, <1>2

(* A file without a cut line has grown by whole lines, and the envelope is *)
(* the last of them.                                                       *)
LEMMA WholeGrows ==
    ASSUME LedgerType, NEW e \in Envelopes, NEW how, how # "none", WriteLine(e, how), Whole'
    PROVE  /\ Whole /\ ~loose /\ how # "part"
           /\ lines \in Seq(Envelopes) /\ lines' = Append(lines, e)
<1>1. ~loose /\ how # "part"
  <2> SUFFICES ASSUME loose \/ how = "part" PROVE FALSE
    OBVIOUS
  <2> DEFINE base == IF loose THEN Front(lines) ELSE lines
  <2>1. lines' = Append(base, Torn)
    BY DEF WriteLine
  <2>2. base \in Seq(Envelopes \cup {Torn})
    BY DEF LedgerType, Front
  <2> HIDE DEF base
  <2>3. Len(lines') \in 1 .. Len(lines') /\ lines'[Len(lines')] = Torn
    BY <2>1, <2>2
  <2>. QED  BY <2>3 DEF Whole
<1>2. lines' = Append(lines, e) /\ lines \in Seq(Envelopes \cup {Torn})
  BY <1>1, LineEffect DEF LedgerType
<1>3. Whole
  <2>1. \A i \in 1 .. Len(lines) : i \in 1 .. Len(lines') /\ lines'[i] = lines[i]
    BY <1>2
  <2>. QED  BY <2>1 DEF Whole
<1>4. lines \in Seq(Envelopes)
  BY <1>2, <1>3 DEF Whole
<1>. QED  BY <1>1, <1>2, <1>3, <1>4

(* A file with more lines that reads back read back before. *)
LEMMA ReadableBefore ==
    ASSUME lines \in Seq(Envelopes), NEW e \in Envelopes, lines' = Append(lines, e), Readable'
    PROVE  Readable
<1>1. \A i \in 1 .. Len(lines) : i \in 1 .. Len(lines') /\ lines'[i] = lines[i]
  OBVIOUS
<1>. QED  BY <1>1 DEF Readable, Parses

(* What append does, whether it returns, raises or never ends.             *)
LEMMA WritingKeepsLedger ==
    ASSUME LedgerInv, NEW what \in Entries,
           \/ Log(what)
           \/ \E how \in Cuts : LogRaises(what, how) \/ DieLogging(what, how)
    PROVE  LedgerInv'
<1> DEFINE e == Envelope(what)
<1>1. LedgerType /\ e \in Envelopes /\ e.seq = Len(records) + 1
  BY EnvelopeType DEF LedgerInv, LedgerType, Envelope
<1>2. PICK how :
        /\ WriteLine(e, how) /\ gap' = Skip(how)
        /\ how \in {"whole", "none", "part", "bare"}
        /\ \/ Log(what) /\ how = "whole"
           \/ how # "whole" /\ LogRaises(what, how)
           \/ how # "whole" /\ DieLogging(what, how)
  BY LedgerAssumption DEF Log, LogRaises, DieLogging
<1>a. e = Envelope(what)
  OBVIOUS
<1>. HIDE DEF e
<1>3. up
  BY <1>2 DEF Log, LogRaises, DieLogging
<1>4. records' = Append(records, e) \/ records' = <<>>
  BY <1>2, <1>a DEF Log, LogRaises, DieLogging
<1>5. kept' = kept \/ (Log(what) /\ how = "whole" /\ Whole' /\ kept' = kept \cup {e})
  BY <1>2, <1>a DEF Log, LogRaises, DieLogging
<1>6. records' \in Seq(Envelopes) /\ kept' \subseteq Envelopes
  <2>1. records \in Seq(Envelopes) /\ kept \subseteq Envelopes
    BY <1>1 DEF LedgerType
  <2>2. records' \in Seq(Envelopes)
    <3>1. Append(records, e) \in Seq(Envelopes) /\ <<>> \in Seq(Envelopes)
      BY <1>1, <2>1
    <3>. QED  BY <1>4, <3>1
  <2>3. kept' \subseteq Envelopes
    BY <1>1, <1>5, <2>1
  <2>. QED  BY <2>2, <2>3
<1>7. up' \in BOOLEAN /\ behind' \in BOOLEAN /\ gap' \in BOOLEAN
  BY <1>1, <1>2 DEF Log, LogRaises, DieLogging, LedgerType, Skip
<1>8. LedgerType'
  BY <1>1, <1>2, <1>6, <1>7, LineEffect DEF LedgerType
<1>9. how = "none" => UNCHANGED <<lines, loose>> /\ gap' = gap
  BY <1>1, <1>2 DEF WriteLine, Skip, LedgerType
<1>10. how # "none" /\ Whole' =>
          /\ Whole /\ ~loose /\ how # "part"
          /\ lines \in Seq(Envelopes) /\ lines' = Append(lines, e)
          /\ Len(lines') = Len(lines) + 1
  BY <1>1, <1>2, WholeGrows
<1>11. FileVerifies'
  <2>1. CASE how = "none"
    BY <1>9, <2>1 DEF LedgerInv, FileVerifies, Readable, VerifyChain
  <2>2. CASE how # "none"
    <3>. SUFFICES ASSUME Readable' PROVE VerifyChain(lines') <=> ~gap'
      BY DEF FileVerifies, VerifyChain
    <3>1. Whole'
      BY DEF Readable, Whole, Parses
    <3>2. /\ Whole /\ ~loose
          /\ lines \in Seq(Envelopes) /\ lines' = Append(lines, e)
      BY <1>10, <2>2, <3>1
    <3>3. VerifyChain(lines) <=> ~gap
      BY <1>1, <3>2, ReadableBefore DEF LedgerInv, FileVerifies
    <3>4. gap' <=> gap \/ behind
      BY <1>2, <2>2 DEF Skip
    <3>5. CASE ~gap /\ ~behind
      <4>1. records = lines
        BY <1>3, <3>2, <3>5 DEF LedgerInv, MemoryIsFile
      <4>. QED  BY <1>1, <1>a, <3>2, <3>3, <3>4, <3>5, <4>1, ChainGrows DEF Envelope
    <3>6. CASE gap
      BY <1>1, <3>2, <3>3, <3>4, <3>6, ChainBegins
    <3>7. CASE behind
      <4>1. Len(records) > Len(lines) /\ records \in Seq(Envelopes)
        BY <3>2, <3>7 DEF LedgerInv, FileIsBehind, LedgerType
      <4>2. Len(records) \in Nat /\ Len(lines) \in Nat
        BY <3>2, <4>1
      <4>. QED  BY <1>1, <3>2, <3>4, <3>7, <4>1, <4>2, ChainBegins
    <3>. QED  BY <3>5, <3>6, <3>7
  <2>. QED  BY <2>1, <2>2
<1>12. MemoryIsFile'
  <2>. SUFFICES ASSUME up', ~behind', Whole' PROVE records' = lines'
    BY DEF MemoryIsFile
  <2>1. Log(what) /\ how = "whole" /\ ~behind /\ records' = Append(records, e)
    <3>1. ~LogRaises(what, how) /\ ~DieLogging(what, how)
      BY DEF LogRaises, DieLogging
    <3>2. Log(what) /\ how = "whole"
      BY <1>2, <3>1
    <3>. QED  BY <1>a, <3>2 DEF Log
  <2>. QED  BY <1>3, <1>10, <2>1 DEF LedgerInv, MemoryIsFile
<1>13. FileIsBehind'
  <2>. SUFFICES ASSUME behind'
                PROVE  up' /\ (Whole' /\ ~loose' => Len(records') > Len(lines'))
    BY DEF FileIsBehind
  <2>1. /\ up' /\ records' = Append(records, e)
        /\ (how = "whole" => behind)
    BY <1>2, <1>3, <1>a, LedgerAssumption DEF Log, LogRaises, DieLogging
  <2>2. /\ records \in Seq(Envelopes) /\ Len(records) \in Nat /\ Len(lines) \in Nat
        /\ Len(records') = Len(records) + 1
    <3>1. records \in Seq(Envelopes) /\ lines \in Seq(Envelopes \cup {Torn})
      BY <1>1 DEF LedgerType
    <3>. QED  BY <1>1, <2>1, <3>1
  <2>3. Whole /\ ~loose => Len(records) >= Len(lines)
    BY <1>3, <2>2 DEF LedgerInv, MemoryIsFile, FileIsBehind
  <2>4. CASE how = "none"
    <3>1. (Whole' <=> Whole) /\ (loose' <=> loose) /\ lines' = lines
      BY <1>9, <2>4 DEF Whole
    <3>. QED  BY <2>1, <2>2, <2>3, <3>1
  <2>5. CASE how # "none" /\ how # "whole"
    <3>1. loose'
      BY <1>1, <1>2, <2>5, LineEffect
    <3>. QED  BY <2>1, <3>1
  <2>6. CASE how = "whole" /\ behind
    <3>1. Whole /\ ~loose => Len(records) > Len(lines)
      BY <2>6 DEF LedgerInv, FileIsBehind
    <3>. QED  BY <1>10, <2>1, <2>2, <2>6, <3>1
  <2>. QED  BY <2>1, <2>4, <2>5, <2>6
<1>14. KeptIsClosed'
  <2>1. ASSUME NEW x \in kept
        PROVE  \E i \in 1 .. Len(lines') : lines'[i] = x /\ (loose' => i < Len(lines'))
    BY <1>1, <1>2, LineEffect DEF LedgerInv, KeptIsClosed
  <2>2. CASE how = "whole" /\ Whole'
    <3>1. lines' = Append(lines, e) /\ ~loose' /\ lines \in Seq(Envelopes)
      BY <1>1, <1>2, <1>10, <2>2, LineEffect
    <3>2. Len(lines) + 1 \in 1 .. Len(lines') /\ lines'[Len(lines) + 1] = e
      BY <1>1, <3>1
    <3>. QED  BY <1>5, <2>1, <3>1, <3>2 DEF KeptIsClosed
  <2>3. CASE kept' = kept
    BY <2>1, <2>3 DEF KeptIsClosed
  <2>. QED  BY <1>5, <2>2, <2>3
<1>. QED  BY <1>8, <1>11, <1>12, <1>13, <1>14 DEF LedgerInv

(* A stop between two appends, and the start of a process that reads the   *)
(* file back.                                                              *)
LEMMA RestsKeepLedger ==
    ASSUME LedgerInv, Die \/ Reopen \/ UNCHANGED ledgerVars
    PROVE  LedgerInv'
<1>1. UNCHANGED <<lines, loose, gap, kept>>
  BY DEF Die, Reopen, ledgerVars
<1>2. LedgerType'
  <2>1. CASE Reopen
    <3>1. lines \in Seq(Envelopes)
      BY <2>1 DEF Reopen, Readable, Parses, LedgerInv, LedgerType
    <3>. QED  BY <1>1, <2>1, <3>1 DEF Reopen, LedgerInv, LedgerType
  <2>2. CASE Die \/ UNCHANGED ledgerVars
    <3>1. records' = records \/ records' = <<>>
      BY <2>2 DEF Die, ledgerVars
    <3>2. records' \in Seq(Envelopes)
      <4>1. records \in Seq(Envelopes) /\ <<>> \in Seq(Envelopes)
        BY DEF LedgerInv, LedgerType
      <4>. QED  BY <3>1, <4>1
    <3>. QED  BY <1>1, <2>2, <3>2 DEF Die, ledgerVars, LedgerInv, LedgerType
  <2>. QED  BY <2>1, <2>2
<1>3. FileVerifies' /\ (Whole' <=> Whole)
  BY <1>1 DEF LedgerInv, FileVerifies, Readable, Whole, VerifyChain
<1>4. MemoryIsFile' /\ FileIsBehind'
  BY <1>1, <1>3 DEF Die, Reopen, ledgerVars, LedgerInv, MemoryIsFile, FileIsBehind
<1>5. KeptIsClosed'
  BY <1>1 DEF LedgerInv, KeptIsClosed
<1>. QED  BY <1>2, <1>3, <1>4, <1>5 DEF LedgerInv

----------------------------------------------------------------------------
(* The gate and its ledger *)

(* What a call writes next is an entry. *)
LEMMA PendingType == ASSUME TypeOK, Writing PROVE Pending \in Entries
<1>1. ASSUME NEW d \in Decision
      PROVE  DecisionId(d) \in DecisionIds /\ <<d.permit, d.provider>> \in Permit \X Providers
  BY DEF DecisionId, Decision, DecisionIds
<1>2. CASE call.at = "denied"
  BY <1>2 DEF Pending, Entries
<1>3. CASE call.at = "allowed"
  <2>1. call.decision \in Decision /\ Pending = Decided(call.decision)
    BY <1>3 DEF TypeOK, Idle, Pending
  <2>. QED  BY <1>1, <2>1 DEF Decided, Entries
<1>4. CASE call.at = "answered"
  <2>1. call.decision \in Decision /\ Pending = Committed(call.decision, call.codes)
    BY <1>4 DEF TypeOK, Idle, Pending
  <2>2. (call.decision.permit.action \in Separated) \in BOOLEAN
    OBVIOUS
  <2>. QED  BY <1>1, <2>1, <2>2 DEF Committed, Entries
<1>. QED  BY <1>2, <1>3, <1>4 DEF Writing

(* Every step is one of the ledger, with an entry of the running call, or  *)
(* leaves the ledger alone.                                                *)
LEMMA LedgerSteps ==
    ASSUME TypeOK, [Next]_vars
    PROVE  \/ Writing /\ Pending \in Entries
              /\ \/ Record /\ Log(Pending)
                 \/ \E how \in Cuts : LogRaises(Pending, how) \/ DieLogging(Pending, how)
              /\ (~Record => call' = Idle /\ UNCHANGED <<tokens, charges>>)
           \/ Die /\ call' = Idle /\ UNCHANGED <<tokens, charges>>
           \/ Restart /\ Reopen
           \/ UNCHANGED ledgerVars
<1>1. CASE Record
  BY <1>1, PendingType DEF Record
<1>2. CASE \E how \in Cuts : RecordRaises(how)
  BY <1>2, PendingType DEF RecordRaises
<1>3. CASE Stop
  BY <1>3, PendingType DEF Stop
<1>4. CASE Restart
  BY <1>4 DEF Restart
<1>5. CASE UNCHANGED ledgerVars
  BY <1>5
<1>6. \/ Record \/ (\E how \in Cuts : RecordRaises(how)) \/ Stop \/ Restart
      \/ UNCHANGED ledgerVars
  BY DEF Next, vars, Tick, Issue, Revoke, Verify, Commit, Present
<1>. QED  BY <1>1, <1>2, <1>3, <1>4, <1>5, <1>6

(* The ledger keeps its promises under whatever the gate does. *)
LEMMA LedgerPreserved == IInv /\ LedgerInv /\ [Next]_vars => LedgerInv'
<1> SUFFICES ASSUME IInv, LedgerInv, [Next]_vars PROVE LedgerInv'
  OBVIOUS
<1>1. TypeOK
  BY DEF IInv
<1>. QED  BY <1>1, LedgerSteps, WritingKeepsLedger, RestsKeepLedger

(* An empty ledger to begin with. *)
LEMMA LedgerStarts == Init => LedgerInv
<1> SUFFICES ASSUME Init PROVE LedgerInv
  OBVIOUS
<1>1. /\ records = <<>> /\ lines = <<>> /\ loose = FALSE /\ up = TRUE
      /\ behind = FALSE /\ gap = FALSE /\ kept = {}
  BY DEF Init, LedgerInit
<1>2. <<>> \in Seq(Envelopes) /\ <<>> \in Seq(Envelopes \cup {Torn}) /\ Len(<<>>) = 0
  OBVIOUS
<1>3. LedgerType
  BY <1>1, <1>2 DEF LedgerType
<1>4. FileVerifies
  BY <1>1, <1>2 DEF FileVerifies, Readable, VerifyChain
<1>. QED  BY <1>1, <1>3, <1>4 DEF LedgerInv, MemoryIsFile, FileIsBehind, KeptIsClosed

(* While no line is cut the lines stay. *)
LEMMA LinesStay ==
    ASSUME IInv, LedgerInv, [Next]_vars, Whole'
    PROVE  Whole /\ \A k \in DOMAIN lines : k \in DOMAIN lines' /\ lines'[k] = lines[k]
<1>1. TypeOK
  BY DEF IInv
<1>2. CASE UNCHANGED lines
  BY <1>2 DEF Whole
<1>3. ASSUME NEW how, Pending \in Entries, WriteLine(Envelope(Pending), how)
      PROVE  Whole /\ \A k \in DOMAIN lines : k \in DOMAIN lines' /\ lines'[k] = lines[k]
  <2>1. LedgerType /\ Envelope(Pending) \in Envelopes
    BY <1>3, EnvelopeType DEF LedgerInv, LedgerType
  <2>2. CASE how = "none"
    BY <1>2, <1>3, <2>1, <2>2, LineEffect
  <2>3. CASE how # "none"
    <3>1. Whole /\ lines \in Seq(Envelopes) /\ lines' = Append(lines, Envelope(Pending))
      BY <1>3, <2>1, <2>3, WholeGrows
    <3>. QED  BY <2>1, <3>1
  <2>. QED  BY <2>2, <2>3
<1>. QED
  BY <1>1, <1>2, <1>3, LedgerSteps DEF Log, LogRaises, DieLogging, Die, Reopen, ledgerVars

(* A provider that has a reason to refuse charges nothing, one that has    *)
(* none adds a charge.                                                     *)
LEMMA ChargeEffect ==
    ASSUME charges \in Seq(Charges), NEW d, NEW a, NEW v, Charge(d, a, v)
    PROVE  \/ ProviderCodes(d, a, v) # {} /\ charges' = charges
           \/ /\ ProviderCodes(d, a, v) = {}
              /\ DOMAIN charges' = DOMAIN charges \cup {Len(charges) + 1}
              /\ \A i \in DOMAIN charges : charges'[i] = charges[i]
              /\ Len(charges) + 1 \notin DOMAIN charges
              /\ charges'[Len(charges) + 1].decision = d
              /\ charges'[Len(charges) + 1].life = life
              /\ charges'[Len(charges) + 1].gated <=> call # Idle
<1>1. CASE ProviderCodes(d, a, v) # {}
  BY <1>1 DEF Charge
<1>2. CASE ProviderCodes(d, a, v) = {}
  <2> DEFINE c == [decision |-> d, action |-> a, provider |-> v, charged |-> now,
                   life |-> life, gated |-> call # Idle]
  <2>1. charges' = Append(charges, c)
    BY <1>2 DEF Charge
  <2>3. c.decision = d /\ c.life = life /\ c.gated = (call # Idle)
    OBVIOUS
  <2> HIDE DEF c
  <2>2. /\ DOMAIN charges' = DOMAIN charges \cup {Len(charges) + 1}
        /\ \A i \in DOMAIN charges : charges'[i] = charges[i]
        /\ Len(charges) + 1 \notin DOMAIN charges
        /\ charges'[Len(charges) + 1] = c
    BY <2>1
  <2>. QED  BY <1>2, <2>2, <2>3
<1>. QED  BY <1>1, <1>2

(* What is charged, can be or is with a caller has its ALLOW in the file.  *)
LEMMA DecidedPreserved == IInv /\ LedgerInv /\ DecidedFirst /\ [Next]_vars => DecidedFirst'
<1> SUFFICES ASSUME IInv, LedgerInv, DecidedFirst, [Next]_vars, Whole', NEW d \in Decisive'
             PROVE  \E k \in DOMAIN lines' : lines'[k].what = Decided(d)
  BY DEF DecidedFirst
<1>0. Whole /\ \A k \in DOMAIN lines : k \in DOMAIN lines' /\ lines'[k] = lines[k]
  BY LinesStay
<1>1. CASE d \in Decisive
  BY <1>0, <1>1 DEF DecidedFirst
<1>2. CASE Record /\ call.at = "allowed" /\ d = call.decision
  <2>1. Pending = Decided(d) /\ Writing /\ Pending \in Entries
    BY <1>2, PendingType DEF IInv, Pending, Writing
  <2>2. LedgerType /\ WriteLine(Envelope(Pending), "whole")
    BY <1>2 DEF Record, Log, LedgerInv
  <2>3. Envelope(Pending) \in Envelopes
    BY <2>1, <2>2, EnvelopeType DEF LedgerType
  <2>4. lines \in Seq(Envelopes) /\ lines' = Append(lines, Envelope(Pending))
    BY <2>2, <2>3, WholeGrows
  <2>5. Len(lines) + 1 \in DOMAIN lines' /\ lines'[Len(lines) + 1] = Envelope(Pending)
    BY <2>3, <2>4
  <2>. QED  BY <2>1, <2>5 DEF Envelope
<1>3. d \in Decisive \/ (Record /\ call.at = "allowed" /\ d = call.decision)
  <2>0. /\ charges \in Seq(Charges)
        /\ call.at \in {"allowed", "recorded"} =>
               call = [at |-> call.at, decision |-> call.decision]
    BY DEF IInv, TypeOK, Idle
  <2>1. CASE Record
    BY <2>0, <2>1 DEF Record, Writing, Decisive, Idle
  <2>2. CASE Commit
    <3> DEFINE e == call.decision
    <3>1. /\ Charge(e, e.permit.action, e.provider) /\ tokens' = tokens
          /\ call.at = "recorded" /\ call'.at = "answered" /\ call'.decision = e
      BY <2>2 DEF Commit
    <3> HIDE DEF e
    <3>2. \A i \in DOMAIN charges' :
              \/ i \in DOMAIN charges /\ charges'[i].decision = charges[i].decision
              \/ charges'[i].decision = e
      BY <2>0, <3>1, ChargeEffect
    <3>. QED  BY <3>1, <3>2 DEF Decisive, e
  <2>3. ASSUME NEW e \in tokens, NEW a \in Actions, NEW v \in Providers, Present(e, a, v)
        PROVE  d \in Decisive
    BY <2>0, <2>3 DEF Present, Charge, Decisive
  <2>4. CASE call' = Idle /\ UNCHANGED <<tokens, charges>>
    BY <2>4 DEF Decisive, Idle
  <2>5. CASE UNCHANGED <<call, tokens, charges>>
    BY <2>5 DEF Decisive
  <2>6. CASE \E p \in permits, a \in Actions, v \in Providers, s \in BOOLEAN : Verify(p, a, v, s)
    BY <2>6 DEF Verify, Decisive, Idle
  <2>. QED
    BY <2>1, <2>2, <2>3, <2>4, <2>5, <2>6
    DEF Next, vars, Tick, Issue, Revoke, RecordRaises, Stop, Restart
<1>. QED  BY <1>1, <1>2, <1>3

----------------------------------------------------------------------------
(* What became of the permits *)

(* A step that charges nothing leaves the account of this life alone; one  *)
(* of a caller does not touch what the gate has charged; and the gate adds *)
(* the decision of its call, if there is nothing against it.               *)
LEMMA AccountEffect ==
    ASSUME charges \in Seq(Charges), NEW x
    PROVE  /\ UNCHANGED <<charges, life>> => (Paid(x)' <=> Paid(x))
           /\ (\E d \in tokens, a \in Actions, v \in Providers : Present(d, a, v)) =>
                  (Paid(x)' <=> Paid(x))
           /\ Commit => (Paid(x)' <=>
                  \/ Paid(x)
                  \/ call'.codes = {} /\ x = PermitId(call.decision.permit))
<1>1. ASSUME UNCHANGED <<charges, life>> PROVE Paid(x)' <=> Paid(x)
  BY <1>1 DEF Paid, PermitId
<1>2. ASSUME NEW d \in tokens, NEW a \in Actions, NEW v \in Providers, Present(d, a, v)
      PROVE  Paid(x)' <=> Paid(x)
  <2>1. Charge(d, a, v) /\ call = Idle /\ life' = life
    BY <1>2 DEF Present
  <2>2. /\ DOMAIN charges \subseteq DOMAIN charges'
        /\ \A i \in DOMAIN charges : charges'[i] = charges[i]
        /\ \A i \in DOMAIN charges' : charges'[i].gated => i \in DOMAIN charges
    BY <2>1, ChargeEffect
  <2>. QED  BY <2>1, <2>2 DEF Paid, PermitId
<1>3. ASSUME Commit
      PROVE  Paid(x)' <=>
                 \/ Paid(x)
                 \/ call'.codes = {} /\ x = PermitId(call.decision.permit)
  <2> DEFINE e == call.decision
             a == e.permit.action
             v == e.provider
  <2>1. /\ Charge(e, a, v) /\ call.at = "recorded" /\ life' = life
        /\ call'.codes = ProviderCodes(e, a, v)
    BY <1>3 DEF Commit
  <2>2. call # Idle
    BY <2>1 DEF Idle
  <2> HIDE DEF e, a, v
  <2>3. CASE ProviderCodes(e, a, v) # {} /\ charges' = charges
    BY <2>1, <2>3 DEF Paid, PermitId
  <2>4. CASE /\ ProviderCodes(e, a, v) = {}
             /\ DOMAIN charges' = DOMAIN charges \cup {Len(charges) + 1}
             /\ \A i \in DOMAIN charges : charges'[i] = charges[i]
             /\ Len(charges) + 1 \notin DOMAIN charges
             /\ charges'[Len(charges) + 1].decision = e
             /\ charges'[Len(charges) + 1].life = life
             /\ charges'[Len(charges) + 1].gated <=> call # Idle
    <3> DEFINE n == Len(charges) + 1
    <3>1. n \in DOMAIN charges' /\ charges'[n].gated /\ charges'[n].life = life
          /\ charges'[n].decision = e
      BY <2>2, <2>4
    <3>2. \A i \in DOMAIN charges' : i = n \/ (i \in DOMAIN charges /\ charges'[i] = charges[i])
      BY <2>4
    <3>3. DOMAIN charges \subseteq DOMAIN charges'
      BY <2>4
    <3> HIDE DEF n
    <3>. QED  BY <2>1, <2>4, <3>1, <3>2, <3>3 DEF Paid, PermitId, e
  <2>. QED  BY <2>1, <2>3, <2>4, ChargeEffect
<1>. QED  BY <1>1, <1>2, <1>3

(* Records that stay, and to which at most one is added that allows        *)
(* another permit or none, account for a permit as they did.               *)
LEMMA AccountedStays ==
    ASSUME records \in Seq(Envelopes), NEW x, Accounted(x), Paid(x)' <=> Paid(x),
           \/ UNCHANGED records
           \/ \E e \in Envelopes : records' = Append(records, e) /\ ~AllowsPermit(e.what, x)
    PROVE  Accounted(x)'
<1>1. PICK k \in DOMAIN records :
        /\ AllowsPermit(records[k].what, x)
        /\ \A j \in DOMAIN records : j > k => ~AllowsPermit(records[j].what, x)
        /\ k + 1 \in DOMAIN records
        /\ records[k + 1].what.type = "commit"
        /\ records[k + 1].what.authorized <=> Paid(x)
  BY DEF Accounted
<1>2. /\ \A j \in DOMAIN records : j \in DOMAIN records' /\ records'[j] = records[j]
      /\ \A j \in DOMAIN records' : j \in DOMAIN records \/ ~AllowsPermit(records'[j].what, x)
  <2>1. CASE UNCHANGED records
    BY <2>1
  <2>2. ASSUME NEW e \in Envelopes, records' = Append(records, e), ~AllowsPermit(e.what, x)
        PROVE  /\ \A j \in DOMAIN records : j \in DOMAIN records' /\ records'[j] = records[j]
               /\ \A j \in DOMAIN records' :
                      j \in DOMAIN records \/ ~AllowsPermit(records'[j].what, x)
    <3>1. /\ \A j \in DOMAIN records : j \in DOMAIN records' /\ records'[j] = records[j]
          /\ \A j \in DOMAIN records' : j \in DOMAIN records \/ records'[j] = e
      BY <2>2
    <3>. QED  BY <2>2, <3>1
  <2>. QED  BY <2>1, <2>2
<1>3. /\ k \in DOMAIN records' /\ k + 1 \in DOMAIN records'
      /\ AllowsPermit(records'[k].what, x)
      /\ \A j \in DOMAIN records' : j > k => ~AllowsPermit(records'[j].what, x)
      /\ records'[k + 1].what.type = "commit"
      /\ records'[k + 1].what.authorized <=> Paid(x)'
  BY <1>1, <1>2
<1>. QED  BY <1>3 DEF Accounted, AllowsPermit, PermitId

(* The steps that add nothing to the account. *)
LEMMA QuietOrCharging ==
    ASSUME [Next]_vars
    PROVE  \/ UNCHANGED <<charges, life>>
           \/ \E d \in tokens, a \in Actions, v \in Providers : Present(d, a, v)
           \/ Commit
           \/ Restart
BY DEF Next, vars, Tick, Issue, Revoke, Verify, Record, RecordRaises, Stop

(* No process, no call; and the account says what the provider did.        *)
LEMMA CallPreserved ==
    IInv /\ BookInv /\ [Next]_vars => CallIsOfNow' /\ GatedIsOfItsLife'
<1> SUFFICES ASSUME IInv, BookInv, [Next]_vars PROVE CallIsOfNow' /\ GatedIsOfItsLife'
  OBVIOUS
<1>0. charges \in Seq(Charges) /\ CallIsOfNow /\ GatedIsOfItsLife
  BY DEF IInv, TypeOK, BookInv
<1>1. CASE UNCHANGED <<charges, life, call>> /\ (up' = up \/ call = Idle)
  <2>1. \A x : Paid(x)' <=> Paid(x)
    BY <1>0, <1>1, AccountEffect
  <2>. QED  BY <1>0, <1>1, <2>1 DEF CallIsOfNow, GatedIsOfItsLife, PermitId, Idle, Deciding
<1>2. CASE call' = Idle /\ UNCHANGED <<charges, life>>
  BY <1>0, <1>2 DEF CallIsOfNow, GatedIsOfItsLife, Idle, Deciding
<1>3. CASE Restart
  BY <1>0, <1>3 DEF Restart, Reopen, CallIsOfNow, GatedIsOfItsLife, Idle, Deciding
<1>4. ASSUME NEW d \in tokens, NEW a \in Actions, NEW v \in Providers, Present(d, a, v)
      PROVE  CallIsOfNow' /\ GatedIsOfItsLife'
  <2>1. Charge(d, a, v) /\ call = Idle /\ call' = Idle
    BY <1>4 DEF Present
  <2>2. GatedIsOfItsLife'
    BY <1>0, <2>1, ChargeEffect DEF GatedIsOfItsLife
  <2>. QED  BY <2>1, <2>2 DEF CallIsOfNow, Idle, Deciding
<1>5. CASE Record /\ call.at = "allowed"
  <2>1. /\ call' = [at |-> "recorded", decision |-> call.decision]
        /\ up' = up /\ up /\ UNCHANGED <<charges, life>>
    BY <1>5 DEF Record, Log, memory, IInv, TypeOK, Idle
  <2>2. ~Paid(PermitId(call.decision.permit))'
    BY <1>0, <1>5, <2>1 DEF CallIsOfNow, Paid, PermitId
  <2>. QED  BY <1>0, <1>5, <2>1, <2>2 DEF CallIsOfNow, GatedIsOfItsLife, Deciding
<1>6. ASSUME NEW p \in permits, NEW a \in Actions, NEW v \in Providers, NEW s \in BOOLEAN,
             Verify(p, a, v, s)
      PROVE  CallIsOfNow' /\ GatedIsOfItsLife'
  <2>0. up /\ up' = up /\ UNCHANGED <<charges, life>>
    BY <1>6 DEF Verify, ledgerVars
  <2>1. CASE call' = [at |-> "denied"]
    BY <1>0, <2>0, <2>1 DEF CallIsOfNow, GatedIsOfItsLife, Deciding
  <2>2. CASE call' # [at |-> "denied"]
    <3>0. PICK d : d = [permit |-> p, provider |-> v, issued |-> now, life |-> life]
      OBVIOUS
    <3>1. call' = [at |-> "allowed", decision |-> d] /\ p.counter > highest[Agent[p.action]]
      <4>1. ~Replayed(p) /\ call' = [at |-> "allowed", decision |-> d]
        BY <1>6, <2>2, <3>0 DEF Verify
      <4>2. p \in Permit /\ highest[Agent[p.action]] \in Nat
        BY DEF IInv, TypeOK, Permit, Agents
      <4>. QED  BY <4>1, <4>2 DEF Replayed, Permit
    <3>2. ASSUME NEW i \in DOMAIN charges, charges[i].gated, charges[i].life = life,
                 PermitId(charges[i].decision.permit) = PermitId(p)
          PROVE  FALSE
      <4> DEFINE e == charges[i].decision
      <4>1. e \in Minted /\ e.life = life
        BY <1>0, <3>2 DEF GatedIsOfItsLife, Minted
      <4>2. e.permit.counter = p.counter /\ e.permit.action = p.action
        BY <3>2 DEF PermitId
      <4>3. e.permit.counter <= highest[Agent[e.permit.action]]
        BY <4>1 DEF IInv, CountersRise
      <4>4. p.counter \in Nat /\ highest[Agent[p.action]] \in Nat
        BY DEF IInv, TypeOK, Permit, Agents
      <4>. QED  BY <3>1, <4>2, <4>3, <4>4
    <3>3. ~Paid(PermitId(call.decision.permit))'
      <4>1. call'.decision.permit = p
        BY <3>0, <3>1
      <4>. QED  BY <2>0, <3>2, <4>1 DEF Paid, PermitId
    <3>4. call'.at = "allowed" /\ call'.decision.life = life'
      BY <2>0, <3>0, <3>1
    <3>. QED  BY <1>0, <2>0, <3>3, <3>4 DEF CallIsOfNow, GatedIsOfItsLife, Deciding
  <2>. QED  BY <2>1, <2>2
<1>7. CASE Commit
  <2> DEFINE d == call.decision
  <2>1. /\ Charge(d, d.permit.action, d.provider)
        /\ up /\ up' = up /\ life' = life /\ call.at = "recorded"
        /\ call'.at = "answered" /\ call'.decision = d
    BY <1>7 DEF Commit, ledgerVars
  <2>2. d.life = life /\ ~Paid(PermitId(d.permit))
    BY <1>0, <2>1 DEF CallIsOfNow, Deciding
  <2>3. ASSUME NEW x, x = PermitId(d.permit)
        PROVE  call'.codes = {} <=> Paid(x)'
    BY <1>0, <1>7, <2>2, <2>3, AccountEffect
  <2>4. call'.codes = {} <=> Paid(PermitId(call.decision.permit))'
    BY <2>1, <2>3 DEF Paid, PermitId
  <2>5. GatedIsOfItsLife'
    BY <1>0, <2>1, <2>2, ChargeEffect DEF GatedIsOfItsLife
  <2>6. d.life = life' /\ up'
    BY <2>1, <2>2
  <2>. QED  BY <2>1, <2>4, <2>5, <2>6 DEF CallIsOfNow, Deciding
<1>. QED
  BY <1>1, <1>2, <1>3, <1>4, <1>5, <1>6, <1>7
  DEF Next, vars, ledgerVars, Tick, Issue, Revoke, Record, RecordRaises, Stop, Log, Idle, memory

(* The decision of a call is on record before the provider is asked. *)
LEMMA RecordedPreserved ==
    IInv /\ LedgerInv /\ CallIsOfNow /\ RecordedIsLast /\ [Next]_vars => RecordedIsLast'
<1> SUFFICES ASSUME IInv, LedgerInv, CallIsOfNow, RecordedIsLast, [Next]_vars,
                    call'.at \in {"recorded", "answered"}
             PROVE  records' # <<>> /\ records'[Len(records')].what = Decided(call.decision)'
  BY DEF RecordedIsLast
<1>0. TypeOK /\ records \in Seq(Envelopes)
  BY DEF IInv, LedgerInv, LedgerType
<1>1. CASE UNCHANGED <<records, call>>
  BY <1>1 DEF RecordedIsLast, Decided
<1>2. CASE Commit
  <2>1. call.at = "recorded" /\ records' = records /\ call'.decision = call.decision
    BY <1>2 DEF Commit, ledgerVars
  <2>. QED  BY <2>1 DEF RecordedIsLast, Decided
<1>3. CASE Record
  <2>1. /\ call.at = "allowed" /\ call'.decision = call.decision
        /\ records' = Append(records, Envelope(Pending))
        /\ Pending \in Entries /\ Pending = Decided(call.decision)
    BY <1>0, <1>3, PendingType DEF Record, Log, Idle, TypeOK, Pending
  <2>2. Envelope(Pending) \in Envelopes /\ Envelope(Pending).what = Pending
    BY <1>0, <2>1, EnvelopeType DEF Envelope
  <2>3. records' # <<>> /\ records'[Len(records')] = Envelope(Pending)
    BY <1>0, <2>1, <2>2
  <2>. QED  BY <2>1, <2>2, <2>3 DEF Decided
<1>4. CASE Restart
  BY <1>4 DEF Restart, Reopen, CallIsOfNow, Idle
<1>5. CASE call' = Idle
  BY <1>5 DEF Idle
<1>6. CASE \E p \in permits, a \in Actions, v \in Providers, s \in BOOLEAN : Verify(p, a, v, s)
  BY <1>6 DEF Verify
<1>. QED
  BY <1>1, <1>2, <1>3, <1>4, <1>5, <1>6
  DEF Next, vars, ledgerVars, Tick, Issue, Revoke, Present, RecordRaises, Stop

(* A permit is used up by a call that accounts for it before it returns.   *)
LEMMA UsesPreserved ==
    IInv /\ LedgerInv /\ BookInv /\ [Next]_vars => UsesAreBooked'
<1> SUFFICES ASSUME IInv, LedgerInv, BookInv, [Next]_vars, up', ~behind', NEW x \in used'
             PROVE  InCall(x)' \/ Accounted(x)'
  BY DEF UsesAreBooked
<1>0. /\ charges \in Seq(Charges) /\ records \in Seq(Envelopes)
      /\ CallIsOfNow /\ UsesAreBooked /\ RecordedIsLast /\ TypeOK
  BY DEF IInv, TypeOK, BookInv, LedgerInv, LedgerType
<1>1. ~Restart /\ ~Stop /\ \A how \in Cuts : ~RecordRaises(how)
  BY DEF Restart, Stop, Die, DieLogging, RecordRaises, LogRaises
<1>3. CASE Record
  <2>1. /\ Writing /\ Pending \in Entries /\ up /\ ~behind
        /\ records' = Append(records, Envelope(Pending))
        /\ UNCHANGED <<used, charges, life>>
    BY <1>0, <1>3, PendingType DEF Record, Log, memory
  <2>2. Envelope(Pending) \in Envelopes /\ Envelope(Pending).what = Pending
    BY <1>0, <2>1, EnvelopeType DEF Envelope
  <2>3. Paid(x)' <=> Paid(x)
    BY <1>0, <2>1, AccountEffect
  <2>4. CASE ~InCall(x)
    <3>1. Accounted(x)
      BY <1>0, <2>1, <2>4 DEF UsesAreBooked
    <3>2. ~AllowsPermit(Pending, x)
      <4>1. CASE call.at = "allowed"
        BY <2>4, <4>1 DEF Pending, Decided, AllowsPermit, InCall, Deciding
      <4>2. CASE call.at = "answered"
        BY <4>2 DEF Pending, Committed, AllowsPermit
      <4>3. CASE call.at = "denied"
        BY <4>3 DEF Pending, Denied, AllowsPermit
      <4>. QED  BY <2>1, <4>1, <4>2, <4>3 DEF Writing
    <3>. QED  BY <1>0, <2>1, <2>2, <2>3, <3>1, <3>2, AccountedStays
  <2>5. CASE InCall(x) /\ call.at = "allowed"
    <3>1. call' = [at |-> "recorded", decision |-> call.decision]
      BY <1>0, <1>3, <2>5 DEF Record, TypeOK, Idle
    <3>. QED  BY <2>5, <3>1 DEF InCall, Deciding, PermitId
  <2>6. CASE InCall(x) /\ call.at = "answered"
    <3> DEFINE k == Len(records)
    <3>1. /\ k \in DOMAIN records' /\ k + 1 \in DOMAIN records'
          /\ \A j \in DOMAIN records' : j > k => j = k + 1
          /\ records'[k].what = Decided(call.decision)
          /\ records'[k + 1].what = Committed(call.decision, call.codes)
      <4>1. records # <<>> /\ records[k].what = Decided(call.decision)
        BY <1>0, <2>6 DEF RecordedIsLast
      <4>2. k \in Nat /\ k > 0 /\ DOMAIN records = 1 .. k
        BY <1>0, <4>1
      <4>3. /\ DOMAIN records' = 1 .. k + 1 /\ records'[k] = records[k]
            /\ records'[k + 1] = Envelope(Pending)
        <5>1. PICK e \in Envelopes : e = Envelope(Pending) /\ records' = Append(records, e)
          BY <2>1, <2>2
        <5>2. records \in Seq(Envelopes)
          BY <1>0
        <5>3. /\ DOMAIN Append(records, e) = 1 .. k + 1
              /\ Append(records, e)[k] = records[k] /\ Append(records, e)[k + 1] = e
          <6>1. k \in 1 .. Len(records) /\ k = Len(records)
            BY <4>2
          <6>2. /\ Append(records, e) \in Seq(Envelopes)
                /\ Len(Append(records, e)) = Len(records) + 1
                /\ Append(records, e)[Len(records) + 1] = e
                /\ \A i \in 1 .. Len(records) : Append(records, e)[i] = records[i]
            BY <5>2
          <6> HIDE DEF k
          <6>. QED  BY <6>1, <6>2
        <5>. QED  BY <5>1, <5>3
      <4>4. Pending = Committed(call.decision, call.codes)
        BY <2>6 DEF Pending
      <4> HIDE DEF k
      <4>. QED  BY <2>2, <4>1, <4>2, <4>3, <4>4
    <3> HIDE DEF k
    <3>2. AllowsPermit(records'[k].what, x)
      BY <2>6, <3>1 DEF Decided, AllowsPermit, InCall
    <3>3. ~AllowsPermit(records'[k + 1].what, x) /\ records'[k + 1].what.type = "commit"
      BY <3>1 DEF Committed, AllowsPermit
    <3>4. records'[k + 1].what.authorized <=> call.codes = {}
      BY <3>1 DEF Committed
    <3>5. call.codes = {} <=> Paid(x)
      BY <1>0, <2>6 DEF CallIsOfNow, InCall
    <3>6. \E i \in DOMAIN records' :
              /\ AllowsPermit(records'[i].what, x)
              /\ \A j \in DOMAIN records' : j > i => ~AllowsPermit(records'[j].what, x)
              /\ i + 1 \in DOMAIN records'
              /\ records'[i + 1].what.type = "commit"
              /\ records'[i + 1].what.authorized <=> Paid(x)'
      BY <2>3, <3>1, <3>2, <3>3, <3>4, <3>5
    <3>. QED  BY <3>6 DEF Accounted, AllowsPermit, PermitId
  <2>7. InCall(x) => call.at \in {"allowed", "answered"}
    BY <2>1 DEF Writing, InCall, Deciding
  <2>. QED  BY <2>4, <2>5, <2>6, <2>7
<1>4. CASE Commit
  <2>1. /\ up /\ ~behind /\ UNCHANGED <<records, used>>
        /\ call'.at = "answered" /\ call'.decision = call.decision
    BY <1>4 DEF Commit, ledgerVars
  <2>2. CASE PermitId(call.decision.permit) = x
    BY <2>1, <2>2 DEF InCall, Deciding, PermitId
  <2>3. CASE PermitId(call.decision.permit) # x
    <3>1. Accounted(x)
      BY <1>0, <2>1, <2>3 DEF UsesAreBooked, InCall
    <3>2. Paid(x)' <=> Paid(x)
      BY <1>0, <1>4, <2>3, AccountEffect
    <3>. QED  BY <1>0, <2>1, <3>1, <3>2, AccountedStays
  <2>. QED  BY <2>2, <2>3
<1>5. ASSUME NEW p \in permits, NEW a \in Actions, NEW v \in Providers, NEW s \in BOOLEAN,
             Verify(p, a, v, s)
      PROVE  InCall(x)' \/ Accounted(x)'
  <2>1. up /\ ~behind /\ UNCHANGED <<records, charges, life>> /\ call = Idle
    BY <1>5 DEF Verify, ledgerVars
  <2>2. CASE x \in used
    <3>1. Accounted(x)
      BY <1>0, <2>1, <2>2 DEF UsesAreBooked, InCall, Idle, Deciding
    <3>2. Paid(x)' <=> Paid(x)
      BY <1>0, <2>1, AccountEffect
    <3>. QED  BY <1>0, <2>1, <3>1, <3>2, AccountedStays
  <2>3. CASE x \notin used
    <3>1. x = PermitId(p)
          /\ call' = [at |-> "allowed",
                      decision |-> [permit |-> p, provider |-> v, issued |-> now, life |-> life]]
      BY <1>5, <2>3 DEF Verify
    <3>2. call'.at = "allowed" /\ call'.decision.permit = p
      BY <3>1
    <3>. QED  BY <3>1, <3>2 DEF InCall, Deciding, PermitId
  <2>. QED  BY <2>2, <2>3
<1>6. CASE /\ UNCHANGED <<records, used, call, up, behind>>
           /\ \/ UNCHANGED <<charges, life>>
              \/ \E d \in tokens, a \in Actions, v \in Providers : Present(d, a, v)
  <2>1. CASE InCall(x)
    BY <1>6, <2>1 DEF InCall
  <2>2. CASE Accounted(x)
    <3>1. Paid(x)' <=> Paid(x)
      BY <1>0, <1>6, AccountEffect
    <3>. QED  BY <1>0, <1>6, <2>2, <3>1, AccountedStays
  <2>. QED  BY <1>0, <1>6, <2>1, <2>2 DEF UsesAreBooked
<1>. QED
  BY <1>1, <1>3, <1>4, <1>5, <1>6
  DEF Next, vars, ledgerVars, memory, Tick, Issue, Revoke, Present

(* The lines that split are the records of payments. *)
LEMMA SplitsPreserved ==
    IInv /\ LedgerInv /\ CallIsOfNow /\ SplitsByPayment /\ [Next]_vars => SplitsByPayment'
<1> SUFFICES ASSUME IInv, LedgerInv, CallIsOfNow, SplitsByPayment, [Next]_vars,
                    NEW k \in DOMAIN lines', lines'[k] # Torn, lines'[k].what.splits
             PROVE  \E i \in DOMAIN charges' :
                        charges'[i].gated /\ charges'[i].action \in Separated
  BY DEF SplitsByPayment
<1>0. TypeOK /\ charges \in Seq(Charges) /\ LedgerType
  BY DEF IInv, TypeOK, LedgerInv
<1>1. \A i \in DOMAIN charges : i \in DOMAIN charges' /\ charges'[i] = charges[i]
  <2>1. CASE UNCHANGED charges
    BY <2>1
  <2>2. ASSUME NEW d, NEW a, NEW v, Charge(d, a, v)
        PROVE  \A i \in DOMAIN charges : i \in DOMAIN charges' /\ charges'[i] = charges[i]
    BY <1>0, <2>2, ChargeEffect
  <2>. QED
    BY <2>1, <2>2
    DEF Next, vars, Tick, Issue, Revoke, Verify, Record, RecordRaises, Commit, Present, Stop,
        Restart
<1>2. CASE k \in DOMAIN lines /\ lines'[k] = lines[k]
  BY <1>1, <1>2 DEF SplitsByPayment
<1>3. ASSUME Writing, NEW how, Pending \in Entries, WriteLine(Envelope(Pending), how)
      PROVE  \E i \in DOMAIN charges' :
                 charges'[i].gated /\ charges'[i].action \in Separated
  <2> DEFINE base == IF loose THEN Front(lines) ELSE lines
             line == IF loose \/ how = "part" THEN Torn ELSE Envelope(Pending)
  <2>1. CASE how = "none"
    BY <1>2, <1>3, <2>1 DEF WriteLine
  <2>2. CASE how # "none"
    <3>1. lines' = Append(base, line)
      BY <1>3, <2>2 DEF WriteLine
    <3>2. /\ base \in Seq(Envelopes \cup {Torn})
          /\ \A i \in DOMAIN base : i \in DOMAIN lines /\ base[i] = lines[i]
      <4>1. CASE loose
        <5>1. base = SubSeq(lines, 1, Len(lines) - 1) /\ lines # <<>>
          BY <1>0, <4>1 DEF Front, LedgerType
        <5>2. lines \in Seq(Envelopes \cup {Torn}) /\ Len(lines) \in Nat \ {0}
          BY <1>0, <5>1 DEF LedgerType
        <5>3. /\ base \in Seq(Envelopes \cup {Torn}) /\ DOMAIN base = 1 .. Len(lines) - 1
              /\ \A i \in 1 .. Len(lines) - 1 : base[i] = lines[i]
          BY <5>1, <5>2
        <5>. QED  BY <5>2, <5>3
      <4>2. CASE ~loose
        BY <1>0, <4>2 DEF LedgerType
      <4>. QED  BY <4>1, <4>2
    <3> HIDE DEF base, line
    <3>3. (k \in DOMAIN base /\ lines'[k] = base[k]) \/ lines'[k] = line
      BY <3>1, <3>2
    <3>4. CASE lines'[k] = line
      <4>1. line = Envelope(Pending) /\ Pending.splits
        BY <3>4 DEF line, Envelope
      <4>2. call.at = "answered" /\ call.codes = {} /\ call.decision.permit.action \in Separated
        BY <1>3, <4>1 DEF Writing, Pending, Denied, Decided, Committed
      <4>3. PICK i \in DOMAIN charges :
              charges[i].gated /\ PermitId(charges[i].decision.permit) = PermitId(call.decision.permit)
        BY <4>2 DEF CallIsOfNow, Paid
      <4>4. charges[i].action = call.decision.permit.action
        BY <4>3 DEF PermitId, IInv, ChargedAsMinted
      <4>. QED  BY <1>1, <4>2, <4>3, <4>4
    <3>. QED  BY <1>2, <3>2, <3>3, <3>4
  <2>. QED  BY <2>1, <2>2
<1>4. CASE UNCHANGED lines
  BY <1>2, <1>4
<1>. QED
  BY <1>0, <1>3, <1>4, LedgerSteps DEF Log, LogRaises, DieLogging, Die, Reopen, ledgerVars

(* To begin with nothing is decided or used up. *)
LEMMA BooksStart == Init => DecidedFirst /\ BookInv /\ SplitsByPayment
BY DEF Init, LedgerInit, DecidedFirst, Decisive, BookInv, CallIsOfNow, GatedIsOfItsLife,
       RecordedIsLast, UsesAreBooked, SplitsByPayment, Idle, Deciding

AuditInv == IInv /\ LedgerInv /\ DecidedFirst /\ BookInv /\ SplitsByPayment

(* The ledger, the gate and the account keep their promises together.      *)
THEOREM AuditInvariance == Spec => []AuditInv
<1>1. Init => AuditInv
  BY InitEstablishes, LedgerStarts, BooksStart DEF AuditInv
<1>2. AuditInv /\ [Next]_vars => AuditInv'
  BY StepPreserves, LedgerPreserved, DecidedPreserved, CallPreserved, RecordedPreserved,
     UsesPreserved, SplitsPreserved
  DEF AuditInv, BookInv
<1>. QED  BY <1>1, <1>2, PTL DEF Spec

(* Whatever writes fail and wherever the process dies, a ledger file that  *)
(* reads back is a chain verify_chain accepts, if and only if it was never *)
(* continued behind a record whose write had failed.                       *)
THEOREM LedgersVerify == Spec => []FileVerifies
<1>1. AuditInv => FileVerifies
  BY DEF AuditInv, LedgerInv
<1>. QED  BY <1>1, AuditInvariance, PTL

(* No failure costs the file a record whose append has returned.           *)
THEOREM AcknowledgedIsKept == Spec => []KeptStays
<1>1. AuditInv => KeptStays
  BY DEF AuditInv, LedgerInv, KeptIsClosed, KeptStays
<1>. QED  BY <1>1, AuditInvariance, PTL

(* Nobody charges without the ALLOW in the file first, through the gate or *)
(* with a decision receipt.                                                *)
THEOREM ChargesAreAudited == Spec => []AuditedBeforeCharged
<1>1. AuditInv => AuditedBeforeCharged
  BY DEF AuditInv, DecidedFirst, Decisive, AuditedBeforeCharged
<1>. QED  BY <1>1, AuditInvariance, PTL

(* Between calls, every permit that is used up has its last ALLOW on       *)
(* record, directly followed by a provider record that says whether it was *)
(* charged, unless a write of the ledger raised.                           *)
THEOREM UsesAreRecorded == Spec => []EveryUseIsRecorded
<1>1. AuditInv => EveryUseIsRecorded
  BY DEF AuditInv, BookInv, UsesAreBooked, InCall, Idle, Deciding, EveryUseIsRecorded
<1>. QED  BY <1>1, AuditInvariance, PTL

(* A file without a cut line that no process can open again is the work of *)
(* a payment the gate made.                                                *)
THEOREM OnlyPaymentsSplit == Spec => []UnreadableByPayment
<1>1. AuditInv => UnreadableByPayment
  <2>1. Whole /\ ~Readable =>
            \E k \in DOMAIN lines : lines[k] # Torn /\ lines[k].what.splits
    BY DEF Whole, Readable, Parses
  <2>. QED  BY <2>1 DEF AuditInv, SplitsByPayment, UnreadableByPayment
<1>. QED  BY <1>1, AuditInvariance, PTL
============================================================================
