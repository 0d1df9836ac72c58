----------------------------- MODULE MerkleLog -----------------------------
(***************************************************************************)
(* A transparency log over the Merkle set (orprg_eval/merkle.py): keys are *)
(* revoked, checkpoints are signed now and then, and holders of receipts   *)
(* keep the proofs they were given against whatever checkpoint was current *)
(* then, to show them against a later one.                                 *)
(***************************************************************************)
EXTENDS MerkleSet

CONSTANTS
    Keys,       \* ranks of the keys
    MaxProofs   \* bound on the proofs that are kept

ASSUME KeysAssumption == Keys \subseteq Nat /\ IsFiniteSet(Keys) /\ MaxProofs \in Nat

VARIABLES
    committed,  \* the entries the newest signed checkpoint commits to
    parts,      \* inclusion proofs given out so far
    absences    \* proofs of absence given out, and the entries they were for

vars == <<committed, parts, absences>>

(* The signed checkpoint: the root and its size. *)
Checkpoint == Root(committed)

Init == committed = {} /\ parts = {} /\ absences = {}

SignCheckpoint(keys) ==
    /\ committed' = committed \cup keys
    /\ UNCHANGED <<parts, absences>>

CanGive == Cardinality(parts) + Cardinality(absences) < MaxProofs

GiveInclusion(k) ==
    /\ k \in committed /\ CanGive
    /\ parts' = parts \cup {InclusionProof(committed, k)}
    /\ UNCHANGED <<committed, absences>>

GiveAbsence(k) ==
    /\ k \notin committed /\ CanGive
    /\ absences' = absences \cup
           {[keys |-> committed, proof |-> NonInclusionProof(committed, k)]}
    /\ UNCHANGED <<committed, parts>>

Next ==
    \/ \E keys \in SUBSET (Keys \ committed) : SignCheckpoint(keys)
    \/ \E k \in Keys : GiveInclusion(k) \/ GiveAbsence(k)

Spec == Init /\ [][Next]_vars

----------------------------------------------------------------------------

Sizes == 0 .. Cardinality(Keys)

TypeOK ==
    /\ committed \subseteq Keys
    /\ \A p \in parts : p.entry \in Keys /\ p.size \in Sizes /\ p.index < p.size

(* Every key has a proof the verifier accepts: of inclusion if it is       *)
(* committed and of non-inclusion if it is not.                            *)
ProofsComplete ==
    \A k \in Keys :
        IF k \in committed THEN VerifyInclusion(InclusionProof(committed, k), Checkpoint)
        ELSE VerifyNonInclusion(NonInclusionProof(committed, k), Checkpoint)

(* A proof that is accepted, whichever checkpoint it was made for and with *)
(* whatever position and size written on it, is of a committed key and     *)
(* states its true position and the true size ("an inclusion proof cannot  *)
(* silently change tree_size", merkle.py:7-8).                             *)
InclusionSound ==
    \A p \in parts, i \in Sizes, n \in Sizes :
        VerifyInclusion([p EXCEPT !.index = i, !.size = n], Checkpoint) =>
            /\ p.entry \in committed
            /\ n = Cardinality(committed)
            /\ i = Cardinality({k \in committed : k < p.entry})

(* Neighbours from proofs of any age, with whatever size next to them,     *)
(* show a committed key as absent in one way only: an entry before it is   *)
(* shown as the last, by a size that ends the log there.                   *)
NonInclusionSound ==
    \A prev, next \in parts \cup {Absent}, k \in Keys, n \in Sizes :
        VerifyNonInclusion([target |-> k, size |-> n, prev |-> prev, next |-> next], Checkpoint)
        => \/ k \notin committed
           \/ next = Absent /\ n \in 1 .. Rank(committed, k)

(* No committed key is shown as absent, whatever size stands next to the   *)
(* neighbours: to compare it with the committed one "would be redundant"   *)
(* (merkle.py:172-173).                                                    *)
AbsenceIsTrue ==
    \A prev, next \in parts \cup {Absent}, k \in Keys, n \in Sizes :
        VerifyNonInclusion([target |-> k, size |-> n, prev |-> prev, next |-> next], Checkpoint)
        => k \notin committed
============================================================================
