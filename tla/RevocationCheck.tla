-------------------------- MODULE RevocationCheck --------------------------
(***************************************************************************)
(* What the evidence of revocation and the time amount to in               *)
(* verify_permit_receipt (orprg_eval/verifier.py).  A list or checkpoint   *)
(* has the time it was issued, what it says is revoked, and whether the    *)
(* authority signed it.  clock is the verifier's time, in ticks, Second of *)
(* them to a second: ages are cut to whole seconds.  A code is "" when the *)
(* check passes.                                                           *)
(***************************************************************************)
EXTENDS Integers

CONSTANTS
    Issuer,                 \* the issuer of each receipt
    Place,                  \* of receipts and issuers in the order of entry_key
    ValidTo,                \* the last instant of every receipt; the first is 0
    Second,                 \* ticks of a second
    MaxAge, MaxCheckpointAge, MaxDrift      \* of the policy, in seconds

ASSUME RevocationCheckAssumption ==
    {ValidTo, MaxAge, MaxCheckpointAge, MaxDrift} \subseteq Nat /\ Second \in Nat \ {0}

Targets(r) == {r, Issuer[r]}

Statuses == {"fresh", "missing", "stale", "unknown", "conflicting", "revoked"}
Unavailable == {"missing", "stale", "unknown"}

None == [at |-> -1, revoked |-> {}, signed |-> FALSE]
Forged == [at |-> 0, revoked |-> {}, signed |-> FALSE]

(* int(timedelta.total_seconds()) cuts towards zero. *)
WholeSeconds(ticks) == IF ticks >= 0 THEN ticks \div Second ELSE -((-ticks) \div Second)

(* Mutant: a second more is accepted. *)
TooOldByOne(clock, at, max) == WholeSeconds(clock - at) < 0 \/ WholeSeconds(clock - at) > max + 1

TooOld(clock, at, max) == WholeSeconds(clock - at) < 0 \/ WholeSeconds(clock - at) > max

(* Mutant: any entry of the list will do. *)
ListCodeAnyEntry(r, e, clock) ==
    CASE e.list = None -> "REVOCATION_UNKNOWN_OR_STALE"
      [] e.list # None /\ ~e.list.signed -> "REVOCATION_SIGNATURE_INVALID"
      [] OTHER -> IF TooOld(clock, e.list.at, MaxAge) THEN "REVOCATION_UNKNOWN_OR_STALE"
                  ELSE IF e.list.revoked # {} THEN "REVOKED_CONFIRMED" ELSE ""

ListCode(r, e, clock) ==
    CASE e.list = None -> "REVOCATION_UNKNOWN_OR_STALE"
      [] e.list # None /\ ~e.list.signed -> "REVOCATION_SIGNATURE_INVALID"
      [] OTHER -> IF TooOld(clock, e.list.at, MaxAge) THEN "REVOCATION_UNKNOWN_OR_STALE"
                  ELSE IF Targets(r) \cap e.list.revoked # {} THEN "REVOKED_CONFIRMED" ELSE ""

(* Without signed lists the caller's own copy counts, and last_updated is  *)
(* the present when it is absent.                                          *)
CopyCode(r, e, clock) ==
    IF Targets(r) \cap e.list.revoked # {} THEN "REVOKED_CONFIRMED"
    ELSE IF e.list # None /\ e.dated /\ TooOld(clock, e.list.at, MaxAge)
    THEN "REVOCATION_UNKNOWN_OR_STALE" ELSE ""

CheckpointCode(e, clock) ==
    CASE e.checkpoint = None -> "TRANSPARENCY_PROOF_MISSING"
      [] e.checkpoint # None /\ ~e.checkpoint.signed -> "SIGNED_CHECKPOINT_INVALID"
      [] OTHER -> IF TooOld(clock, e.checkpoint.at, MaxCheckpointAge)
                  THEN "REVOCATION_UNKNOWN_OR_STALE" ELSE ""

(* An entry can be shown absent with the inclusion proof of an earlier one *)
(* as its last neighbour, when the size next to it ends the log there      *)
(* (MerkleLog!NonInclusionSound): nothing compares that size.              *)
CutOff(x, keys) == \E y \in keys : Place[y] < Place[x]

(* The proof of a receipt or issuer, against a root that is or is not the  *)
(* one it was made for: of inclusion, or of absence when it is absent or   *)
(* the caller tries to have it cut off.                                    *)
ProofCode(x, e, root) ==
    LET verifies == e.proofs.revoked = root
        revoked == x \in e.proofs.revoked
    IN
    CASE e.proofs = None -> "MERKLE_INCLUSION_REQUIRED_BUT_MISSING"
      [] e.proofs # None /\ revoked /\ ~e.cut ->
            IF verifies THEN "REVOKED_CONFIRMED" ELSE "TRANSPARENCY_PROOF_INVALID"
      [] OTHER -> IF verifies /\ (revoked => CutOff(x, e.proofs.revoked))
                  THEN "" ELSE "NON_INCLUSION_PROOF_INVALID"

(* Mutant: proofs are believed whatever checkpoint they were made for. *)
MerkleCodeUnbound(r, e, clock) ==
    LET receipt == ProofCode(r, e, e.proofs.revoked)
    IN  IF CheckpointCode(e, clock) # "" THEN CheckpointCode(e, clock)
        ELSE IF receipt # "" THEN receipt ELSE ProofCode(Issuer[r], e, e.proofs.revoked)

(* The proof of the receipt comes first, then that of its issuer.          *)
MerkleCode(r, e, clock) ==
    LET receipt == ProofCode(r, e, e.checkpoint.revoked)
    IN  IF CheckpointCode(e, clock) # "" THEN CheckpointCode(e, clock)
        ELSE IF receipt # "" THEN receipt ELSE ProofCode(Issuer[r], e, e.checkpoint.revoked)

FreshCode(r, e, clock) ==
    LET code == IF e.policy.signed THEN ListCode(r, e, clock) ELSE CopyCode(r, e, clock)
    IN  IF code = "" /\ e.policy.merkle THEN MerkleCode(r, e, clock) ELSE code

TimeCode(drift, clock) ==
    IF drift > MaxDrift \/ -drift > MaxDrift THEN "TIME_SOURCE_UNTRUSTED_OR_DRIFT"
    ELSE IF clock \notin 0 .. ValidTo THEN "VALIDITY_WINDOW_EXPIRED" ELSE ""

MayRelax(e) == e.partitioned /\ e.policy.offline

UnavailableCode(r, e) ==
    IF ~MayRelax(e) THEN "REVOCATION_UNKNOWN_OR_STALE"
    ELSE IF r \notin e.policy.relaxes THEN "CONSTRAINED_MODE_DENIAL" ELSE ""

StatusCode(r, e, clock) ==
    CASE e.status = "revoked" -> "REVOKED_CONFIRMED"
      [] e.status = "conflicting" -> "CROSS_LOG_COHERENCE_NOT_SATISFIED"
      [] e.status \in Unavailable -> UnavailableCode(r, e)
      [] OTHER -> FreshCode(r, e, clock)
============================================================================
