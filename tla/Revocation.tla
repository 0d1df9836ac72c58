----------------------------- MODULE Revocation -----------------------------
(***************************************************************************)
(* Revocation and time in verify_permit_receipt (orprg_eval/verifier.py).  *)
(* Revocations of receipts and issuers are published from time to time, as *)
(* a signed list and as a signed checkpoint of a transparency log.  Who    *)
(* calls the verifier hands it any of these, old or new, with a status of  *)
(* its own judgement, under a clock that drifts.  The verifier keeps       *)
(* nothing between calls: how long a revocation can go unnoticed follows   *)
(* from the ages it accepts.                                               *)
(*                                                                         *)
(* Nobody forges a signature, and an accepted Merkle proof shows what      *)
(* MerkleLog finds of it: inclusion is true, absence is true or of a log   *)
(* that is cut off behind an earlier entry.                                *)
(***************************************************************************)
EXTENDS RevocationCheck, FiniteSets

CONSTANTS
    Receipts,
    Drifts,                 \* what the verifier's clock may be ahead, in seconds
    MaxTime, MaxPublished   \* bounds: ticks; publications

Revocable == UNION {Targets(r) : r \in Receipts}

(* An entry's key is "issuer:..." or "receipt:...".                        *)
ASSUME RevocationAssumption ==
    /\ {MaxTime, MaxPublished} \subseteq Nat /\ Drifts \subseteq Int
    /\ Place \in [Revocable -> Nat]
    /\ \A r, q \in Receipts : Place[Issuer[q]] < Place[r]

VARIABLES
    now,            \* the time of the authority, in ticks
    revoked,        \* receipts and issuers revoked so far
    published,      \* what has been published, as a list and as a checkpoint
    answer          \* what the call of the verifier returned

vars == <<now, revoked, published, answer>>

(* What a call gets: a status; a list, or the caller's own copy of one with *)
(* or without its date; a checkpoint with proofs made for some checkpoint,  *)
(* cut off or not; whether a partition is declared; how far the clock is    *)
(* ahead; and what the policy asks for and relaxes, for all effects or none *)
(* Only a tolerable clock and a fresh status make the verifier look at      *)
(* lists, and only one that is unavailable at the partition; only a policy  *)
(* that requires proofs, at checkpoints: the rest is not varied.            *)
FreshEvidence ==
    {e \in [status : {"fresh"}, list : published \cup {None, Forged}, dated : BOOLEAN,
            checkpoint : published \cup {None, Forged}, proofs : published \cup {None},
            cut : BOOLEAN, partitioned : {FALSE},
            drift : {d \in Drifts : TimeCode(d, 0) = ""},
            policy : [signed : BOOLEAN, merkle : BOOLEAN, offline : {FALSE}, relaxes : {{}}]] :
        /\ e.dated \/ (e.list \in published /\ ~e.policy.signed)
        /\ e.policy.merkle \/ (e.checkpoint = None /\ e.proofs = None)
        /\ e.cut => e.proofs.revoked # {}}
OtherEvidence ==
    {e \in [status : Statuses \ {"fresh"}, list : {None}, dated : {FALSE},
            checkpoint : {None}, proofs : {None}, cut : {FALSE}, partitioned : BOOLEAN,
            drift : Drifts,
            policy : [signed : {TRUE}, merkle : {FALSE}, offline : BOOLEAN,
                      relaxes : {{}, Receipts}]] :
        e.partitioned \/ e.policy.offline => e.status \in Unavailable}

NoAnswer == [code |-> "none"]

Init ==
    /\ now = 0 /\ revoked = {} /\ published = {}
    /\ answer = NoAnswer

----------------------------------------------------------------------------

Clock(e) == now + e.drift * Second

Code(r, e) ==
    LET code == TimeCode(e.drift, Clock(e)) IN IF code # "" THEN code ELSE StatusCode(r, e, Clock(e))

----------------------------------------------------------------------------

Tick ==
    /\ now < MaxTime
    /\ now' = now + 1
    /\ UNCHANGED <<revoked, published, answer>>

Revoke(x) ==
    /\ revoked' = revoked \cup {x}
    /\ UNCHANGED <<now, published, answer>>

Publish ==
    /\ Cardinality(published) < MaxPublished
    /\ published' = published \cup {[at |-> now, revoked |-> revoked, signed |-> TRUE]}
    /\ UNCHANGED <<now, revoked, answer>>

(* verify_permit_receipt, of a receipt all other checks of which pass *)
Verify(r, e) ==
    /\ answer' = [receipt |-> r, code |-> Code(r, e), status |-> e.status,
                  partitioned |-> e.partitioned, policy |-> e.policy, cut |-> e.cut]
    /\ UNCHANGED <<now, revoked, published>>

(* As the verifier keeps nothing, a behaviour need have only one call, at  *)
(* its end.                                                                *)
Next ==
    /\ answer = NoAnswer
    /\ \/ Tick \/ Publish
       \/ \E x \in Revocable : Revoke(x)
       \/ \E r \in Receipts : \E e \in FreshEvidence \cup OtherEvidence : Verify(r, e)

Spec == Init /\ [][Next]_vars

----------------------------------------------------------------------------

Allowed == answer.code = ""

(* How long a published revocation can go unnoticed: the age the policy    *)
(* accepts, the second that is cut off, and the drift it tolerates.        *)
Horizon(max) == (max + 1 + MaxDrift) * Second

LongOut(max) ==
    \E p \in published : p.at + Horizon(max) <= now /\ Targets(answer.receipt) \cap p.revoked # {}

(* What has been published as revoked before the horizon of the policy is  *)
(* not allowed any more, unless the policy does without signed lists, or   *)
(* in a declared partition for an offline effect, and then only until the  *)
(* receipt ends.                                                           *)
ExposureIsBounded ==
    Allowed /\ LongOut(MaxAge) =>
        LET policy == answer.policy IN
        \/ ~policy.signed /\ answer.status = "fresh"
        \/ /\ answer.status \in Unavailable /\ answer.partitioned
           /\ policy.offline /\ answer.receipt \in policy.relaxes
           /\ now <= ValidTo + MaxDrift * Second

(* When the policy asks for Merkle proofs, the checkpoints bound the       *)
(* exposure too, even of a policy without signed lists: a proof kept from  *)
(* before the revocation is of no use with a fresh checkpoint.  Only a     *)
(* proof that cuts the log off has none, and it needs another receipt or   *)
(* issuer, revoked as well, whose entry sorts first.                       *)
CheckpointsBoundExposure ==
    Allowed /\ answer.policy.merkle /\ answer.status = "fresh" =>
        \A p \in published, x \in Targets(answer.receipt) :
            x \in p.revoked /\ p.at + Horizon(MaxCheckpointAge) <= now =>
                /\ answer.cut
                /\ CutOff(x, revoked \ Targets(answer.receipt))

(* Nobody is told REVOKED_CONFIRMED on the strength of another receipt's   *)
(* revocation, nor before there is one.                                    *)
RevokedIsGrounded ==
    answer.code = "REVOKED_CONFIRMED" /\ answer.status # "revoked" =>
        Targets(answer.receipt) \cap revoked # {}
============================================================================
