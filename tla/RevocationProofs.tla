-------------------------- MODULE RevocationProofs --------------------------
(***************************************************************************)
(* How long a revocation can be overlooked, for any accepted ages, drift   *)
(* and resolution of the clock, any receipts and any publications.  What   *)
(* is published later knows all that was published before; so evidence     *)
(* that is not too old knows what was out for longer than the horizon.     *)
(***************************************************************************)
EXTENDS Revocation, TLAPS

(* What is published was so at its time, and later ones know more. *)
Chronology ==
    /\ now \in Nat /\ revoked \subseteq Revocable
    /\ \A p \in published :
           p.at \in Nat /\ p.at <= now /\ p.revoked \subseteq revoked /\ p.signed
    /\ \A p, q \in published : p.at < q.at => p.revoked \subseteq q.revoked

(* The code of a check that passes. *)
Passes == ""

Bounded == ExposureIsBounded /\ CheckpointsBoundExposure /\ RevokedIsGrounded

RevocationInv == Chronology /\ Bounded

----------------------------------------------------------------------------
(* Ages *)

(* Whole seconds within the accepted age are less than a second more.      *)
LEMMA AgeIsBounded ==
    ASSUME NEW ticks \in Int, NEW max \in Nat, WholeSeconds(ticks) <= max
    PROVE  ticks < (max + 1) * Second
<1>0. Second \in Nat /\ Second > 0
  BY RevocationCheckAssumption
<1>1. CASE ticks < 0
  <2>1. (max + 1) * Second >= 0
    BY <1>0
  <2>. QED  BY <1>1, <2>1, <1>0
<1>2. CASE ticks >= 0
  <2>1. PICK q : q = ticks \div Second
    OBVIOUS
  <2>2. q \in Int /\ ticks < (q + 1) * Second
    BY <1>0, <1>2, <2>1
  <2>3. q <= max
    BY <1>2, <2>1 DEF WholeSeconds
  <2>4. (q + 1) * Second <= (max + 1) * Second
    BY <1>0, <2>2, <2>3
  <2>5. (q + 1) * Second \in Int /\ (max + 1) * Second \in Int
    BY <1>0, <2>2
  <2>. QED  BY <2>2, <2>4, <2>5
<1>. QED  BY <1>1, <1>2

LEMMA SecondsType == ASSUME NEW ticks \in Int PROVE WholeSeconds(ticks) \in Int
<1>1. Second \in Nat /\ Second > 0
  BY RevocationCheckAssumption
<1>2. ASSUME NEW t \in Int PROVE t \div Second \in Int
  BY <1>1
<1>. QED  BY <1>2 DEF WholeSeconds

(* Evidence that is not too old on a clock that is not too far ahead or    *)
(* behind is from within the horizon.                                      *)
LEMMA FreshIsRecent ==
    ASSUME NEW max \in Nat, now \in Nat, NEW at \in Int, NEW drift \in Int,
           -drift <= MaxDrift, ~TooOld(now + drift * Second, at, max)
    PROVE  now < at + Horizon(max)
<1>0. Second \in Nat /\ Second > 0 /\ MaxDrift \in Nat
  BY RevocationCheckAssumption
<1> DEFINE clock == now + drift * Second
<1>1. drift * Second \in Int /\ clock \in Int
  BY <1>0
<1>2. clock - at < (max + 1) * Second
  <2>1. PICK ticks \in Int : ticks = clock - at
    BY <1>1
  <2>2. WholeSeconds(ticks) \in Int /\ ~(WholeSeconds(ticks) > max)
    BY <2>1, SecondsType DEF TooOld
  <2>. QED  BY <2>1, <2>2, AgeIsBounded
<1>3. (drift + MaxDrift) * Second >= 0
  BY <1>0
<1>4. (drift + MaxDrift) * Second = drift * Second + MaxDrift * Second
  BY <1>0
<1>5. Horizon(max) = (max + 1) * Second + MaxDrift * Second
  BY <1>0 DEF Horizon
<1>6. MaxDrift * Second \in Int /\ (max + 1) * Second \in Int
  BY <1>0
<1>. QED  BY <1>1, <1>2, <1>3, <1>4, <1>5, <1>6

(* What the check of the time accepts.                                     *)
LEMMA TimeIsTolerated ==
    ASSUME NEW drift \in Int, NEW clock, TimeCode(drift, clock) = Passes
    PROVE  -drift <= MaxDrift /\ clock \in 0 .. ValidTo
<1>1. MaxDrift \in Nat
  BY RevocationCheckAssumption
<1>2. ~(-drift > MaxDrift) /\ clock \in 0 .. ValidTo
  BY DEF Passes, TimeCode
<1>. QED  BY <1>1, <1>2

(* A clock that is not too far behind says when receipts end.              *)
LEMMA EndIsBounded ==
    ASSUME now \in Nat, NEW drift \in Int, -drift <= MaxDrift, now + drift * Second <= ValidTo
    PROVE  now <= ValidTo + MaxDrift * Second
<1>0. Second \in Nat /\ MaxDrift \in Nat /\ ValidTo \in Nat
  BY RevocationCheckAssumption
<1>1. (drift + MaxDrift) * Second >= 0
  BY <1>0
<1>2. (drift + MaxDrift) * Second = drift * Second + MaxDrift * Second
  BY <1>0
<1>3. drift * Second \in Int /\ MaxDrift * Second \in Int
  BY <1>0
<1>. QED  BY <1>0, <1>1, <1>2, <1>3

(* What has been out for the horizon is known to evidence that is not too  *)
(* old.                                                                    *)
LEMMA RecentKnows ==
    ASSUME Chronology, NEW max \in Nat, NEW drift \in Int, -drift <= MaxDrift,
           NEW q \in published, ~TooOld(now + drift * Second, q.at, max),
           NEW p \in published, p.at + Horizon(max) <= now
    PROVE  p.revoked \subseteq q.revoked
<1>1. now \in Nat /\ p.at \in Nat /\ q.at \in Nat
  BY DEF Chronology
<1>2. now < q.at + Horizon(max)
  <2>1. PICK at \in Int : at = q.at
    BY <1>1
  <2>. QED  BY <1>1, <2>1, FreshIsRecent
<1>3. Horizon(max) \in Int
  BY RevocationCheckAssumption DEF Horizon
<1>4. p.at < q.at
  BY <1>1, <1>2, <1>3
<1>. QED  BY <1>4 DEF Chronology

----------------------------------------------------------------------------
(* Verdicts *)

(* What a call is given, with or without a fresh status.                   *)
LEMMA EvidenceType ==
    ASSUME NEW e \in FreshEvidence \cup OtherEvidence
    PROVE  /\ e.list \in published \cup {None, Forged}
           /\ e.checkpoint \in published \cup {None, Forged}
           /\ e.proofs \in published \cup {None}
           /\ e.drift \in Int /\ e.status \in Statuses
           /\ e.policy.signed \in BOOLEAN /\ e.policy.merkle \in BOOLEAN
BY RevocationAssumption DEF FreshEvidence, OtherEvidence, Statuses

(* Nothing published is taken for no list, or for a forged one. *)
LEMMA SignedIsPublished ==
    ASSUME Chronology, NEW x \in published \cup {None, Forged}, x.signed
    PROVE  x \in published
BY DEF None, Forged

(* A receipt allowed by lists is on none that is not too old. *)
LEMMA ListsBound ==
    ASSUME Chronology, NEW r, NEW e \in FreshEvidence \cup OtherEvidence,
           ListCode(r, e, Clock(e)) = Passes
    PROVE  /\ e.list \in published /\ ~TooOld(Clock(e), e.list.at, MaxAge)
           /\ Targets(r) \cap e.list.revoked = {}
<1>1. e.list # None /\ e.list.signed
  BY DEF Passes, ListCode
<1>2. e.list \in published
  BY <1>1, EvidenceType, SignedIsPublished
<1>. QED  BY <1>1, <1>2 DEF Passes, ListCode

(* What an accepted proof shows. *)
LEMMA ProofMeans ==
    ASSUME NEW x, NEW e, NEW root, ProofCode(x, e, root) = Passes, x \in root
    PROVE  e.cut /\ CutOff(x, root)
<1>1. e.proofs # None /\ e.proofs.revoked = root
  BY DEF Passes, ProofCode
<1>2. ~(x \in e.proofs.revoked /\ ~e.cut)
  BY <1>1 DEF Passes, ProofCode
<1>3. CutOff(x, e.proofs.revoked)
  BY <1>1, <1>2 DEF Passes, ProofCode
<1>. QED  BY <1>1, <1>2, <1>3

(* Of two targets that are each cut off behind an earlier entry, the first *)
(* is so behind an entry that is no target; then so is the other.          *)
LEMMA CutOffByAnother ==
    ASSUME NEW r \in Receipts, NEW keys \in SUBSET Revocable,
           \A x \in Targets(r) \cap keys : CutOff(x, keys)
    PROVE  \A x \in Targets(r) \cap keys : CutOff(x, keys \ Targets(r))
<1>1. /\ \A y \in Revocable : Place[y] \in Nat
      /\ Place[Issuer[r]] < Place[r]
      /\ Targets(r) = {r, Issuer[r]} /\ Targets(r) \subseteq Revocable
  BY RevocationAssumption DEF Targets, Revocable
<1>2. ASSUME Issuer[r] \in keys
      PROVE  \E z \in keys \ Targets(r) : Place[z] < Place[Issuer[r]]
  <2>1. PICK z \in keys : Place[z] < Place[Issuer[r]]
    BY <1>1, <1>2 DEF CutOff
  <2>2. z # Issuer[r] /\ z # r
    BY <1>1, <2>1
  <2>. QED  BY <1>1, <2>1, <2>2
<1>3. ASSUME r \in keys
      PROVE  \E z \in keys \ Targets(r) : Place[z] < Place[r]
  <2>1. PICK y \in keys : Place[y] < Place[r]
    BY <1>1, <1>3 DEF CutOff
  <2>2. CASE y = Issuer[r]
    <3>1. PICK z \in keys \ Targets(r) : Place[z] < Place[Issuer[r]]
      BY <1>2, <2>2
    <3>2. Place[z] \in Nat /\ Place[Issuer[r]] \in Nat /\ Place[r] \in Nat
      BY <1>1
    <3>3. Place[z] < Place[r]
      BY <1>1, <3>1, <3>2
    <3>. QED  BY <3>1, <3>3
  <2>3. CASE y # Issuer[r]
    <3>1. y # r
      BY <1>1, <2>1
    <3>. QED  BY <1>1, <2>1, <2>3, <3>1
  <2>. QED  BY <2>2, <2>3
<1>. QED  BY <1>1, <1>2, <1>3 DEF CutOff

(* A receipt allowed by proofs is in the tree of the checkpoint, which is  *)
(* not too old, only if the proofs cut it off behind an entry that is none *)
(* of the receipt's own.                                                   *)
LEMMA CheckpointsBound ==
    ASSUME Chronology, NEW r \in Receipts, NEW e \in FreshEvidence \cup OtherEvidence,
           MerkleCode(r, e, Clock(e)) = Passes
    PROVE  /\ e.checkpoint \in published
           /\ ~TooOld(Clock(e), e.checkpoint.at, MaxCheckpointAge)
           /\ \A x \in Targets(r) \cap e.checkpoint.revoked :
                 e.cut /\ CutOff(x, revoked \ Targets(r))
<1>1. /\ CheckpointCode(e, Clock(e)) = Passes
      /\ ProofCode(r, e, e.checkpoint.revoked) = Passes
      /\ ProofCode(Issuer[r], e, e.checkpoint.revoked) = Passes
  BY DEF Passes, MerkleCode
<1>2. e.checkpoint # None /\ e.checkpoint.signed
  BY <1>1 DEF Passes, CheckpointCode
<1>3. e.checkpoint \in published
  BY <1>2, EvidenceType, SignedIsPublished
<1>4. ~TooOld(Clock(e), e.checkpoint.at, MaxCheckpointAge)
  BY <1>1, <1>2 DEF Passes, CheckpointCode
<1>5. \A x \in Targets(r) \cap e.checkpoint.revoked : e.cut /\ CutOff(x, e.checkpoint.revoked)
  BY <1>1, ProofMeans DEF Targets
<1>6. e.checkpoint.revoked \subseteq revoked /\ e.checkpoint.revoked \in SUBSET Revocable
  BY <1>3 DEF Chronology
<1>7. \A x \in Targets(r) \cap e.checkpoint.revoked : CutOff(x, e.checkpoint.revoked \ Targets(r))
  BY <1>5, <1>6, CutOffByAnother
<1>8. \A x \in Targets(r) \cap e.checkpoint.revoked : CutOff(x, revoked \ Targets(r))
  BY <1>6, <1>7 DEF CutOff
<1>. QED  BY <1>3, <1>4, <1>5, <1>8

(* Whoever is told that a receipt is revoked is so by published evidence.  *)
LEMMA RevokedIsPublished ==
    ASSUME Chronology, NEW r, NEW e \in FreshEvidence \cup OtherEvidence,
           e.status # "revoked", Code(r, e) = "REVOKED_CONFIRMED"
    PROVE  Targets(r) \cap revoked # {}
<1>1. FreshCode(r, e, Clock(e)) = "REVOKED_CONFIRMED"
  BY DEF Code, TimeCode, StatusCode, UnavailableCode
<1>2. \A x \in published \cup {None, Forged} : x.revoked \subseteq revoked
  BY DEF Chronology, None, Forged
<1>3. CASE Targets(r) \cap e.list.revoked # {}
  BY <1>2, <1>3, EvidenceType
<1>4. CASE Targets(r) \cap e.proofs.revoked # {}
  BY <1>2, <1>4, EvidenceType
<1>5. ListCode(r, e, Clock(e)) = "REVOKED_CONFIRMED" => Targets(r) \cap e.list.revoked # {}
  BY DEF ListCode
<1>6. CopyCode(r, e, Clock(e)) = "REVOKED_CONFIRMED" => Targets(r) \cap e.list.revoked # {}
  BY DEF CopyCode
<1>7. MerkleCode(r, e, Clock(e)) = "REVOKED_CONFIRMED" => Targets(r) \cap e.proofs.revoked # {}
  <2>1. CheckpointCode(e, Clock(e)) # "REVOKED_CONFIRMED"
    BY DEF CheckpointCode
  <2>2. ASSUME NEW x, NEW root, ProofCode(x, e, root) = "REVOKED_CONFIRMED"
        PROVE  x \in e.proofs.revoked
    BY <2>2 DEF ProofCode
  <2>. QED  BY <2>1, <2>2 DEF MerkleCode, Targets
<1>. QED  BY <1>1, <1>3, <1>4, <1>5, <1>6, <1>7 DEF FreshCode

----------------------------------------------------------------------------
(* The steps *)

(* A call of the verifier gets a verdict within the bounds. *)
LEMMA VerdictIsBounded ==
    ASSUME Chronology, NEW r \in Receipts, NEW e \in FreshEvidence \cup OtherEvidence,
           Verify(r, e)
    PROVE  Bounded'
<1>0. /\ answer' = [receipt |-> r, code |-> Code(r, e), status |-> e.status,
                    partitioned |-> e.partitioned, policy |-> e.policy, cut |-> e.cut]
      /\ UNCHANGED <<now, revoked, published>>
  BY DEF Verify
<1>1. RevokedIsGrounded'
  BY <1>0, RevokedIsPublished DEF RevokedIsGrounded
<1> SUFFICES ASSUME Code(r, e) = Passes PROVE ExposureIsBounded' /\ CheckpointsBoundExposure'
  BY <1>0, <1>1 DEF Passes, Bounded, ExposureIsBounded, CheckpointsBoundExposure, Allowed
<1>2. /\ TimeCode(e.drift, Clock(e)) = Passes /\ StatusCode(r, e, Clock(e)) = Passes
  BY DEF Passes, Code
<1>3. MaxAge \in Nat /\ MaxCheckpointAge \in Nat /\ MaxDrift \in Nat
  BY RevocationCheckAssumption
<1>7. PICK ahead \in Int : ahead = e.drift
  BY EvidenceType
<1>8. -ahead <= MaxDrift /\ Clock(e) \in 0 .. ValidTo
  BY <1>2, <1>7, TimeIsTolerated
<1>4. ASSUME NEW max \in Nat, NEW q \in published, ~TooOld(Clock(e), q.at, max)
      PROVE  \A p \in published : p.at + Horizon(max) <= now => p.revoked \subseteq q.revoked
  BY <1>4, <1>7, <1>8, RecentKnows DEF Clock
<1>5. CASE e.status = "fresh"
  <2>1. FreshCode(r, e, Clock(e)) = Passes
    BY <1>2, <1>5 DEF StatusCode, Unavailable
  <2>2. CheckpointsBoundExposure'
    <3>1. SUFFICES ASSUME e.policy.merkle
                   PROVE  \A p \in published, x \in Targets(r) :
                              x \in p.revoked /\ p.at + Horizon(MaxCheckpointAge) <= now =>
                                  e.cut /\ CutOff(x, revoked \ Targets(r))
      BY <1>0 DEF CheckpointsBoundExposure, Horizon, Targets, CutOff
    <3>2. MerkleCode(r, e, Clock(e)) = Passes
      BY <2>1, <3>1 DEF Passes, FreshCode
    <3>. QED  BY <1>3, <1>4, <3>2, CheckpointsBound
  <2>3. ExposureIsBounded'
    <3>1. SUFFICES ASSUME e.policy.signed
                   PROVE  \A p \in published :
                              ~(p.at + Horizon(MaxAge) <= now /\ Targets(r) \cap p.revoked # {})
      BY <1>0, <1>5 DEF ExposureIsBounded, LongOut, Horizon, Targets
    <3>2. ListCode(r, e, Clock(e)) = Passes
      BY <2>1, <3>1 DEF Passes, FreshCode
    <3>. QED  BY <1>3, <1>4, <3>2, ListsBound
  <2>. QED  BY <2>2, <2>3
<1>6. CASE e.status # "fresh"
  <2>1. CheckpointsBoundExposure'
    BY <1>0, <1>6 DEF CheckpointsBoundExposure
  <2>2. e.status \in Unavailable /\ UnavailableCode(r, e) = Passes
    BY <1>2, <1>6, EvidenceType DEF Passes, StatusCode, Statuses, Unavailable
  <2>3. e.partitioned /\ e.policy.offline /\ r \in e.policy.relaxes
    BY <2>2 DEF Passes, UnavailableCode, MayRelax
  <2>4. now <= ValidTo + MaxDrift * Second
    <3>1. now \in Nat /\ now + ahead * Second <= ValidTo
      BY <1>7, <1>8 DEF Clock, Chronology
    <3>. QED  BY <1>7, <1>8, <3>1, EndIsBounded
  <2>5. ExposureIsBounded'
    BY <1>0, <2>2, <2>3, <2>4 DEF ExposureIsBounded
  <2>. QED  BY <2>1, <2>5
<1>. QED  BY <1>5, <1>6

(* Time, revocations and publications go on in order.                      *)
LEMMA ChronologyKept == Chronology /\ [Next]_vars => Chronology'
<1> SUFFICES ASSUME Chronology, [Next]_vars PROVE Chronology'
  OBVIOUS
<1>1. CASE Tick
  BY <1>1 DEF Tick, Chronology
<1>2. CASE \E x \in Revocable : Revoke(x)
  BY <1>2 DEF Revoke, Chronology
<1>3. CASE Publish
  <2> DEFINE new == [at |-> now, revoked |-> revoked, signed |-> TRUE]
  <2>1. published' = published \cup {new} /\ UNCHANGED <<now, revoked>>
    BY <1>3 DEF Publish
  <2>2. new.at = now /\ new.revoked = revoked /\ new.signed
    OBVIOUS
  <2> HIDE DEF new
  <2>3. now \in Nat
    BY DEF Chronology
  <2>. QED  BY <2>1, <2>2, <2>3 DEF Chronology
<1>4. CASE UNCHANGED <<now, revoked, published>>
  BY <1>4 DEF Chronology
<1>. QED  BY <1>1, <1>2, <1>3, <1>4 DEF Next, vars, Verify

(* Every step keeps the order of publications and the bounds.              *)
LEMMA RevocationStep == RevocationInv /\ [Next]_vars => RevocationInv'
<1> SUFFICES ASSUME RevocationInv, [Next]_vars PROVE RevocationInv'
  OBVIOUS
<1>1. Chronology'
  BY ChronologyKept DEF RevocationInv
<1>2. ASSUME UNCHANGED vars PROVE Bounded'
  <2>1. UNCHANGED <<now, revoked, published, answer>>
    BY <1>2 DEF vars
  <2>2. ASSUME NEW max PROVE LongOut(max)' <=> LongOut(max)
    BY <2>1 DEF LongOut, Horizon
  <2>3. ExposureIsBounded' /\ CheckpointsBoundExposure' /\ RevokedIsGrounded'
    BY <2>1, <2>2
    DEF RevocationInv, Bounded, ExposureIsBounded, CheckpointsBoundExposure, RevokedIsGrounded,
        Allowed
  <2>. QED  BY <2>3 DEF Bounded
<1>3. ASSUME answer = NoAnswer, answer' = answer PROVE Bounded'
  <2>1. answer'.code # "" /\ answer'.code # "REVOKED_CONFIRMED"
    BY <1>3 DEF NoAnswer
  <2>2. ~Allowed'
    BY <2>1 DEF Allowed
  <2>3. ExposureIsBounded' /\ CheckpointsBoundExposure'
    BY <2>2 DEF ExposureIsBounded, CheckpointsBoundExposure
  <2>4. RevokedIsGrounded'
    BY <2>1 DEF RevokedIsGrounded
  <2>. QED  BY <2>3, <2>4 DEF Bounded
<1>4. ASSUME NEW r \in Receipts, NEW e \in FreshEvidence \cup OtherEvidence, Verify(r, e)
      PROVE  Bounded'
  BY <1>4, VerdictIsBounded DEF RevocationInv
<1>5. Bounded'
  BY <1>2, <1>3, <1>4 DEF RevocationInv, Next, Tick, Publish, Revoke
<1>. QED  BY <1>1, <1>5 DEF RevocationInv

(* Whatever is published and presented, within the bounds.                 *)
THEOREM RevocationInvariance == Spec => []RevocationInv
<1>1. Init => RevocationInv
  BY DEF Init, RevocationInv, Chronology, Bounded, ExposureIsBounded, CheckpointsBoundExposure,
         RevokedIsGrounded, Allowed, NoAnswer
<1>. QED  BY <1>1, RevocationStep, PTL DEF Spec

(* A revocation that has been out for the accepted age, the second that is *)
(* cut off and the tolerated drift is not overlooked, but by a policy that *)
(* asked for it (verify_permit_receipt).                                   *)
THEOREM ExposureHasAHorizon == Spec => []ExposureIsBounded
<1>1. RevocationInv => ExposureIsBounded
  BY DEF RevocationInv, Bounded
<1>. QED  BY <1>1, RevocationInvariance, PTL

(* Nor is one that is in a checkpoint out for that long, by a policy that  *)
(* requires Merkle proofs, but by one that cuts the log off behind an      *)
(* entry of somebody else.                                                 *)
THEOREM CheckpointsHaveAHorizon == Spec => []CheckpointsBoundExposure
<1>1. RevocationInv => CheckpointsBoundExposure
  BY DEF RevocationInv, Bounded
<1>. QED  BY <1>1, RevocationInvariance, PTL

(* Evidence confirms a revocation only when there is one.                  *)
THEOREM NoFalseRevocation == Spec => []RevokedIsGrounded
<1>1. RevocationInv => RevokedIsGrounded
  BY DEF RevocationInv, Bounded
<1>. QED  BY <1>1, RevocationInvariance, PTL
=============================================================================
