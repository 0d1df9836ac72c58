---------------------------- MODULE Conformance ----------------------------
(***************************************************************************)
(* run_vectors.py: the evaluation vectors are verified one after the       *)
(* other, then published with what is expected of them; and a reader of    *)
(* the published vectors verifies them again.  Signatures are checked      *)
(* through the caches of the process, which other scripts and threads of   *)
(* it use as well (run_all_hybrid.py runs all in one process, the payment  *)
(* profile with its scenarios among them): the receipt of a call step by   *)
(* step, the other signatures as part of the verdict.                      *)
(***************************************************************************)
EXTENDS Vectors, CryptoCache

CONSTANTS
    Evaluated,      \* the vectors, as build_vectors makes them
    Scenarios,      \* the calls of the payment profile
    Runner,         \* the thread that verifies the vectors
    OtherChecks     \* what other threads check meanwhile

ASSUME ConformanceAssumption == Runner \in Threads /\ OtherChecks \subseteq Checks

VARIABLES
    round,          \* "run", "replay" by a reader, or "end"
    answers,        \* the codes of this round, vector by vector
    used            \* the calls whose nonces are recorded in their context

vars == <<pubs, sigs, call, round, answers, used>>

\* A check as its key, what is signed, and what the signature is.
Check(key, object, signature) == <<key, object, signature>>
ReceiptCheck(v) ==
    Check(v.receipt.issuer_id, v.receipt.core, IF v.receipt.signed THEN "genuine" ELSE "forged")

\* Whether the checks before the signature let the call pass.
Consulted(v) ==
    /\ v.receipt \notin {Absent, Bad}
    /\ PermitCode([v EXCEPT !.receipt.signed = TRUE]) # PermitCode([v EXCEPT !.receipt.signed = FALSE])

Init ==
    /\ CacheInit
    /\ round = "run" /\ answers = <<>> /\ used = {}

----------------------------------------------------------------------------

\* The scenarios of the payment profile follow in the first round only.
Cases == Evaluated \o Scenarios

ASSUME CasesAssumption ==
    /\ Evaluated \in Seq({Evaluated[i] : i \in DOMAIN Evaluated})
    /\ Scenarios \in Seq({Scenarios[i] : i \in DOMAIN Scenarios})
    /\ \A i \in DOMAIN Cases :
        /\ "receipt" \in DOMAIN Cases[i]
        /\ Cases[i].receipt \notin {Absent, Bad} => ReceiptCheck(Cases[i]) \in Checks

Verifying ==
    \/ round = "run" /\ Len(answers) < Len(Cases)
    \/ round = "replay" /\ Len(answers) < Len(Evaluated)
Current == Len(answers) + 1

\* A call once those of a set were allowed: an ALLOW records the nonces in its context.
RecordedBy(allowed, i) ==
    LET v == Cases[i] IN
    IF \E j \in allowed : Cases[j].id = v.id
    THEN [v EXCEPT !.context = [used_nonces |-> {v.receipt.core.nonce},
            used_capability_nonces |-> IF NeedsCapability(v)
                THEN {v.context.capability_token.core.nonce} ELSE {}] @@ @]
    ELSE v

\* A signature is genuine where the receipt says that it is signed, whether the
\* calls that ought to be allowed have been recorded or not.
ASSUME SignaturesAssumption ==
    \A i \in DOMAIN Cases : \A allowed \in {{}, {j \in DOMAIN Cases : Cases[j].expected = ""}} :
        LET v == RecordedBy(allowed, i) IN
        v.receipt \notin {Absent, Bad} => [v EXCEPT !.receipt.signed = Valid(ReceiptCheck(v))] = v

\* The call as it is by now.
Recorded(i) == RecordedBy(used, i)

Ask ==
    /\ Verifying /\ Consulted(Recorded(Current))
    /\ VerifySignature(Runner, ReceiptCheck(Recorded(Current)))
    /\ UNCHANGED <<round, answers, used>>

(* Mutant: the nonces of an allowed call are not recorded. *)
ConcludeUnrecorded(v) ==
    /\ answers' = Append(answers, PermitCode(v))
    /\ UNCHANGED <<round, used>>

\* An ALLOW consumes the nonces of the vector, in the lists of its context.
Conclude(v) ==
    LET code == PermitCode(v) IN
    /\ answers' = Append(answers, code)
    /\ used' = IF code = "" THEN used \cup {Current} ELSE used
    /\ UNCHANGED round

ConcludeUnsigned ==
    /\ Verifying /\ ~Consulted(Recorded(Current))
    /\ Conclude(Recorded(Current))
    /\ UNCHANGED <<pubs, sigs, call>>

ConcludeSigned ==
    /\ Verifying /\ Consulted(Recorded(Current)) /\ Return(Runner)
    /\ Conclude([Recorded(Current) EXCEPT !.receipt.signed = call[Runner].valid])

\* The vectors are written as they are after their verification.  The reader is
\* another process, with empty caches, or what else this one runs.
Publish ==
    /\ round = "run" /\ ~Verifying
    /\ \A t \in Threads : call[t] = Idle
    /\ round' = "replay" /\ answers' = <<>>
    /\ \/ pubs' = <<>> /\ sigs' = <<>>
       \/ UNCHANGED <<pubs, sigs>>
    /\ UNCHANGED <<call, used>>

Finish ==
    /\ round = "replay" /\ ~Verifying
    /\ round' = "end"
    /\ UNCHANGED <<pubs, sigs, call, answers, used>>

Meanwhile(t) ==
    /\ \/ Step(t) \/ Return(t)
       \/ Verifying /\ \E c \in OtherChecks : VerifySignature(t, c)
    /\ UNCHANGED <<round, answers, used>>

Next ==
    \/ Ask \/ ConcludeUnsigned \/ ConcludeSigned \/ Publish \/ Finish
    \/ Step(Runner) /\ UNCHANGED <<round, answers, used>>
    \/ \E t \in Threads \ {Runner} : Meanwhile(t)

Spec == Init /\ [][Next]_vars

----------------------------------------------------------------------------

(* Each vector gets the decision and the code it is published with, when it *)
(* is verified as build_vectors made it, and each scenario of the payment   *)
(* profile the one it is for, whatever else the process has checked and     *)
(* whoever shares the caches.                                               *)
VectorsGetTheirCodes ==
    round = "run" => \A i \in DOMAIN answers : answers[i] = Cases[i].expected

(* A published vector gets the decision it is published with, unless that   *)
(* is ALLOW: run_vectors.py writes the vectors after it has verified them,  *)
(* with the nonces this has consumed, and whoever verifies one of these is  *)
(* told ANTI_REPLAY_FAILURE.                                                *)
PublishedVectorsReplay ==
    round \in {"replay", "end"} => \A i \in DOMAIN answers :
        LET v == Evaluated[i]
        IN answers[i] = IF v.expected = "" THEN "ANTI_REPLAY_FAILURE" ELSE v.expected
============================================================================
