------------------------------ MODULE Vectors ------------------------------
(***************************************************************************)
(* The evaluation vectors of orprg_eval/vector_factory.py: calls of        *)
(* verify_permit_receipt with the decision each is to get.  What a vector  *)
(* says of revocation is evidence of the kind Revocation describes, from   *)
(* which its code follows.  Times are in seconds, from the day called OLD. *)
(* Descriptions, invariants and categories are left out.  The scenarios of *)
(* the payment profile (paygate_ref/reference.py) are calls of this kind.  *)
(***************************************************************************)
EXTENDS Verifier, TLC

CONSTANT Zeros      \* a digest of nothing that is here ("00" * 32, "11" * 32)

With(obj, field, value) == (field :> value) @@ obj
Without(obj, fields) == [f \in DOMAIN obj \ fields |-> obj[f]]
Nothing == [f \in {} |-> Absent]

Day == 86400
OLD == 0
VALID_FROM == Day
EXPIRED_TO == Day
NOW == 2 * Day
VALID_TO == 3 * Day
FUTURE_FROM == 3 * Day
IssuedAt == NOW - 20

base_scope ==
    [effect_type |-> "DATA_EGRESS", interface_id |-> "egress-gateway-1", action_type |-> "POST",
     target_id |-> "partner-api-submit", tenant_id |-> "tenant-A", purpose_id |-> "support",
     representation_class_id |-> "json-v1", max_effect_budget |-> 10]
base_request == With(base_scope, "payload_digest", "payload-synth-001")

base_policy ==
    [now |-> NOW, policy_digest |-> "policy-digest-synth-v12", current_epoch_id |-> 47,
     minimum_epoch_id |-> 47, epoch_compatibility |-> "strict",
     canonicalization_profile_ref |-> Profile, trusted_issuers |-> {"issuer"},
     revocation_authorities |-> {"revocation-authority"}, transparency_logs |-> {"log"},
     trusted_capability_issuers |-> {"capability-issuer"},
     trusted_authority_profile_ids |-> {"AP-SYNTH-AL5"}, trusted_assurance_level_ids |-> {"AL5"},
     trusted_permit_provenance_digests |-> {"provenance"}, max_clock_drift_seconds |-> 300,
     revocation_max_age_seconds |-> 3600, checkpoint_max_age_seconds |-> 3600,
     require_signed_revocation_list |-> TRUE, require_merkle_revocation_proof |-> FALSE,
     require_transparency |-> FALSE, require_purpose |-> FALSE,
     require_identity_binding |-> FALSE, require_permit_provenance |-> TRUE,
     require_assurance_evidence |-> FALSE, require_capability_token |-> FALSE,
     offline_constrained_mode_allowed |-> FALSE, offline_constrained_effect_types |-> {}]

base_context ==
    [now |-> NOW, jurisdiction |-> "US", resolved_tenant_id |-> "tenant-A",
     used_nonces |-> {}, used_capability_nonces |-> {}]

----------------------------------------------------------------------------
(* Receipts and tokens, signed after the changes made to their core.       *)

issue_receipt(core) == [core |-> core, issuer_id |-> core.issuer_id, signed |-> TRUE]
issue_capability_token(core) ==
    [core |-> core, issuer_id |-> "capability-issuer", signed |-> TRUE]

make_receipt(q, p, scope, nonce) == issue_receipt(
    [policy_digest |-> p.policy_digest, epoch_id |-> p.current_epoch_id,
     valid_from |-> VALID_FROM, valid_to |-> VALID_TO, action_digest |-> q, scope |-> scope,
     nonce |-> nonce, canonicalization_profile_ref |-> p.canonicalization_profile_ref,
     authority_profile_id |-> "AP-SYNTH-AL5", assurance_level_id |-> "AL5",
     issuer_id |-> "issuer", permit_provenance_digest |-> "provenance",
     tenant_id |-> scope.tenant_id, purpose_id |-> scope.purpose_id, jurisdiction |-> "US"])

Plain(nonce) == make_receipt(base_request, base_policy, base_scope, nonce)
\* core_overrides, and fields left out.
Reissued(r, overrides) == issue_receipt(overrides @@ r.core)
Lacking(r, field) == issue_receipt(Without(r.core, {field}))

make_capability(q, r, p, nonce) == issue_capability_token(
    [action_digest |-> q, receipt_digest |-> r.core, policy_digest |-> p.policy_digest,
     epoch_id |-> r.core.epoch_id, audience |-> q.interface_id, tenant_id |-> q.tenant_id,
     valid_to |-> VALID_TO, nonce |-> nonce])

----------------------------------------------------------------------------
(* Evidence of revocation, and its code.  An entry of a list names its     *)
(* kind, as the keys of the Merkle set do.                                 *)

ReceiptEntry(r) == <<"receipt", IF r \in {Absent, Bad} THEN r ELSE r.core>>
IssuerEntry(r) == <<"issuer", IF r \in {Absent, Bad} THEN r ELSE r.issuer_id>>

Rev(r, p) == INSTANCE RevocationCheck WITH
    Issuer <- [x \in {ReceiptEntry(r)} |-> IssuerEntry(r)],
    Place <- IssuerEntry(r) :> 0 @@ ReceiptEntry(r) :> 1, ValidTo <- VALID_TO, Second <- 1,
    MaxAge <- p.revocation_max_age_seconds,
    MaxCheckpointAge <- p.checkpoint_max_age_seconds, MaxDrift <- p.max_clock_drift_seconds

None == Rev(Absent, base_policy)!None
Forged == Rev(Absent, base_policy)!Forged

make_revocation_state(revoked, at) ==
    [status |-> "fresh", list |-> [at |-> at, revoked |-> revoked, signed |-> TRUE],
     checkpoint |-> None, proofs |-> None]
base_revocation == make_revocation_state({}, IssuedAt)
Status(status) == [base_revocation EXCEPT !.status = status, !.list = None]

add_merkle_proofs(state, at) ==
    [state EXCEPT !.checkpoint = [at |-> at, revoked |-> state.list.revoked, signed |-> TRUE],
                  !.proofs = [at |-> at, revoked |-> state.list.revoked, signed |-> TRUE]]
\* A proof with a changed path or target is one of some other set.
Corrupted(state) == [state EXCEPT !.proofs.revoked = {<<"receipt", Absent>>}]

RevocationCode(v) ==
    LET p == v.policy
        evidence == v.state @@
            [dated |-> TRUE, cut |-> FALSE, partitioned |-> Flag(v.context, "partitioned"),
             policy |-> [signed |-> p.require_signed_revocation_list,
                         merkle |-> p.require_merkle_revocation_proof,
                         offline |-> p.offline_constrained_mode_allowed,
                         relaxes |-> IF v.request.effect_type \in p.offline_constrained_effect_types
                                     THEN {ReceiptEntry(v.receipt)} ELSE {}]]
    IN  IF v.state = Bad THEN Bad
        ELSE Rev(v.receipt, p)!StatusCode(ReceiptEntry(v.receipt), evidence, NOW)

Vector(id, code, given) == [id |-> id, expected |-> code] @@ given

\* _v: what is not given is as in the baseline.
Complete(given) ==
    LET q == GetOr(given, "request", base_request)
        v == given @@
             [request |-> q, policy |-> base_policy, state |-> base_revocation,
              context |-> base_context,
              receipt |-> make_receipt(q, base_policy, base_scope, given.id)]
    IN v @@ [revocation |-> RevocationCode(v),
             merkle |-> v.state # Bad /\ v.state.checkpoint # None]

CompleteAll(all) == [i \in DOMAIN all |-> Complete(all[i])]

----------------------------------------------------------------------------
(* The vectors, in order; those of build_vectors differ from the baseline  *)
(* in what is given.                                                       *)

Receipt(code, id, r) == Vector(id, code, [receipt |-> r])
Recore(code, id, overrides) == Receipt(code, id, Reissued(Plain(id), overrides))
Context(code, id, x) == Vector(id, code, [context |-> x @@ base_context])

Requiring(flags) == [f \in flags |-> TRUE] @@ base_policy
WithMerkle == Requiring({"require_merkle_revocation_proof", "require_transparency"})
WithCapability == Requiring({"require_capability_token"})
Offline == [base_policy EXCEPT !.offline_constrained_mode_allowed = TRUE,
                               !.offline_constrained_effect_types = {"SAFETY_HEARTBEAT"}]

Capability(code, id, r, token, x) == Vector(id, code,
    [receipt |-> r, policy |-> WithCapability,
     context |-> x @@ With(base_context, "capability_token", token)])
Merkle(code, id, r, state) ==
    Vector(id, code, [receipt |-> r, policy |-> WithMerkle, state |-> state])

Positive ==
    LET cap == Plain("KPOS-CAP")
    IN <<
    Vector("KPOS-BASELINE-ALLOW", "", Nothing),
    Merkle("", "KPOS-MERKLE-NON-INCLUSION-ALLOW", Plain("KPOS-MERKLE"),
           add_merkle_proofs(base_revocation, IssuedAt)),
    Capability("", "KPOS-SIGNED-CAPABILITY-ALLOW", cap,
               make_capability(base_request, cap, WithCapability, "cap-KPOS"), Nothing) >>

Shapes == <<
    Receipt("MISSING_RECEIPT", "KNEG-MISSING-RECEIPT", Absent),
    Receipt("RECEIPT_MALFORMED", "KNEG-MALFORMED-RECEIPT", Bad),
    Vector("KNEG-REQUEST-SCHEMA-MISSING-FIELD", "SCHEMA_VALIDATION_FAILURE",
           [request |-> Without(base_request, {"target_id"}), receipt |-> Absent]),
    Receipt("SCHEMA_VALIDATION_FAILURE", "KNEG-RECEIPT-SCHEMA-MISSING-FIELD",
            [Plain("schema-missing") EXCEPT !.core = Without(@, {"policy_digest"})]) >>

Receipts == <<
    Receipt("SIGNATURE_INVALID", "KNEG-SIGNATURE-INVALID", [Plain("bad-sig") EXCEPT !.signed = FALSE]),
    Receipt("SIGNATURE_INVALID", "KNEG-AUTH-ISSUER-MISMATCH",
            [Plain("issuer-mismatch") EXCEPT !.issuer_id = "rogue", !.signed = FALSE]),
    Recore("ISSUER_UNTRUSTED", "KNEG-ISSUER-UNTRUSTED", "issuer_id" :> "rogue"),
    Recore("POLICY_DIGEST_MISMATCH", "KNEG-POLICY-DIGEST-MISMATCH", "policy_digest" :> "old-policy"),
    Recore("VALIDITY_WINDOW_EXPIRED", "KNEG-VALIDITY-EXPIRED", "valid_to" :> EXPIRED_TO),
    Recore("VALIDITY_WINDOW_EXPIRED", "KNEG-VALIDITY-FUTURE", "valid_from" :> FUTURE_FROM),
    Recore("ACTION_DIGEST_MISMATCH", "KNEG-ACTION-DIGEST-MISMATCH",
           "action_digest" :> [base_request EXCEPT !.target_id = "attacker-exfil-api"]),
    Recore("CANONICALIZATION_PROFILE_MISMATCH", "KNEG-CANONICALIZATION-PROFILE-MISMATCH",
           "canonicalization_profile_ref" :> "CP-OLD"),
    Vector("KNEG-CANONICALIZATION-FLOAT-REJECTED", "CANONICALIZATION_PROFILE_MISMATCH",
           [request |-> With(base_request, "max_effect_budget", Uncanonical), receipt |-> Absent]) >>

\* A receipt of another scope, of the request or of one that differs from the baseline.
Scoped(code, id, q, fields, core) ==
    LET scope == fields @@ base_scope
    IN Vector(id, code, [request |-> q,
        receipt |-> Reissued(make_receipt(q, base_policy, scope, id), core)])

Scopes ==
    LET of_B == [base_request EXCEPT !.tenant_id = "tenant-B"]
        in_B == With(base_context, "resolved_tenant_id", "tenant-B")
        core_A == make_receipt(of_B, base_policy, With(base_scope, "tenant_id", "tenant-B"), "tenant-core")
    IN <<
    Scoped("SCOPE_VIOLATION", "KNEG-SCOPE-VIOLATION-TARGET", base_request,
           "target_id" :> "approved-only", Nothing),
    Scoped("SCOPE_VIOLATION", "KNEG-SCOPE-VIOLATION-BUDGET-OMITTED",
           Without(base_request, {"max_effect_budget"}), Nothing, Nothing),
    Scoped("SCOPE_VIOLATION", "KNEG-SCOPE-VIOLATION-BUDGET", base_request,
           "max_effect_budget" :> 5, Nothing),
    Vector("KNEG-TENANT-MISMATCH-CORE", "TENANT_MISMATCH",
           [request |-> of_B, context |-> in_B, receipt |-> Reissued(core_A, "tenant_id" :> "tenant-A")]),
    Scoped("TENANT_MISMATCH", "KNEG-TENANT-MISMATCH-SCOPE", of_B, Nothing, "tenant_id" :> "tenant-B"),
    Vector("KNEG-PURPOSE-OUT-OF-SCOPE", "PURPOSE_OUT_OF_SCOPE_OR_MISSING",
           [receipt |-> Reissued(Plain("purpose"), "purpose_id" :> "marketing"),
            policy |-> Requiring({"require_purpose"}),
            context |-> With(base_context, "purpose_id", "clinical-care")]),
    Scoped("REPRESENTATION_CLASS_VIOLATION", "KNEG-REPRESENTATION-CLASS-VIOLATION",
           [base_request EXCEPT !.representation_class_id = "xml-v0"], Nothing, Nothing) >>

Contexts ==
    LET required(code, id, flag) == Vector(id, code, [policy |-> Requiring({flag})]) IN <<
    Vector("KNEG-IDENTITY-BINDING-MISMATCH", "IDENTITY_BINDING_MISMATCH",
           [receipt |-> Reissued(Plain("idbind"), "identity_binding" :> "agent-A"),
            policy |-> Requiring({"require_identity_binding"}),
            context |-> With(base_context, "identity_binding", "agent-B")]),
    Context("JURISDICTION_CONTEXT_INDETERMINATE_OR_CONFLICT", "KNEG-JURISDICTION-AMBIGUOUS",
            "jurisdiction_ambiguous" :> TRUE),
    Recore("JURISDICTION_CONTEXT_INDETERMINATE_OR_CONFLICT", "KNEG-JURISDICTION-CONFLICT",
           "jurisdiction" :> "EU"),
    Context("AUTHORITY_PROFILE_SELECTION_FAILED", "KNEG-AUTHORITY-PROFILE-AMBIGUOUS",
            "authority_profile_ambiguous" :> TRUE),
    Receipt("PERMIT_PROVENANCE_INVALID_OR_MISSING", "KNEG-PERMIT-PROVENANCE-MISSING",
            Lacking(Plain("prov"), "permit_provenance_digest")),
    required("ASSURANCE_PROFILE_NOT_SATISFIED", "KNEG-ASSURANCE-EVIDENCE-MISSING",
             "require_assurance_evidence"),
    Context("ATTESTATION_FAILURE", "KNEG-ATTESTATION-MISSING",
            [attestation_required |-> TRUE, attestation_present |-> FALSE]),
    Context("ATTESTATION_STALE", "KNEG-ATTESTATION-STALE",
            [attestation_required |-> TRUE, attestation_stale |-> TRUE]),
    Context("TIME_SOURCE_UNTRUSTED_OR_DRIFT", "KNEG-TIME-SOURCE-UNTRUSTED",
            "time_source_untrusted" :> TRUE),
    Context("TIME_SOURCE_UNTRUSTED_OR_DRIFT", "KNEG-CLOCK-DRIFT", "clock_drift_seconds" :> 9999),
    Recore("EPOCH_MISMATCH", "KNEG-EPOCH-MISMATCH", "epoch_id" :> 48),
    Recore("EPOCH_ROLLBACK_ATTEMPT", "KNEG-EPOCH-ROLLBACK", "epoch_id" :> 46),
    Context("EPOCH_ROLLBACK_ATTEMPT", "KNEG-EPOCH-SPLIT-BRAIN", "epoch_sources" :> {47, 46}) >>

Revoked(r) == make_revocation_state({ReceiptEntry(r)}, IssuedAt)
RevokedIssuer == make_revocation_state({<<"issuer", "issuer">>}, IssuedAt)

RevocationLists ==
    LET evidence(code, id, state) == Vector(id, code, [state |-> state])
        rec == Plain("revoked-receipt")
    IN <<
    evidence("REVOCATION_UNKNOWN_OR_STALE", "KNEG-REVOCATION-STATE-STALE", Status("stale")),
    evidence("REVOCATION_UNKNOWN_OR_STALE", "KNEG-REVOCATION-STATE-MISSING", Status("missing")),
    evidence("REVOCATION_SIGNATURE_INVALID", "KNEG-REVOCATION-LIST-SIGNATURE-INVALID",
             [base_revocation EXCEPT !.list = Forged]),
    Vector("KNEG-REVOCATION-CONFIRMED-RECEIPT", "REVOKED_CONFIRMED",
           [receipt |-> rec, state |-> Revoked(rec)]),
    evidence("REVOKED_CONFIRMED", "KNEG-REVOCATION-CONFIRMED-ISSUER", RevokedIssuer),
    evidence("REVOCATION_UNKNOWN_OR_STALE", "KNEG-REVOCATION-LIST-AGE-EXCEEDED",
             make_revocation_state({}, OLD)) >>

MerkleProofs ==
    LET recM == Plain("merkle-missing")
        rec == Plain("merkle-revoked-receipt")
        fresh(state) == add_merkle_proofs(state, IssuedAt)
        other == make_revocation_state({<<"receipt", Zeros>>}, IssuedAt)
        policy == [policy |-> Requiring({"require_transparency"})]
    IN <<
    Merkle("TRANSPARENCY_PROOF_MISSING", "KNEG-MERKLE-PROOF-MISSING", recM, base_revocation),
    Merkle("SIGNED_CHECKPOINT_INVALID", "KNEG-MERKLE-CHECKPOINT-SIGNATURE-INVALID", recM,
           [fresh(base_revocation) EXCEPT !.checkpoint = Forged]),
    Merkle("REVOCATION_UNKNOWN_OR_STALE", "KNEG-MERKLE-CHECKPOINT-STALE", recM,
           add_merkle_proofs(base_revocation, OLD)),
    Merkle("NON_INCLUSION_PROOF_INVALID", "KNEG-MERKLE-NON-INCLUSION-TARGET-MISMATCH", recM,
           Corrupted(fresh(base_revocation))),
    Merkle("NON_INCLUSION_PROOF_INVALID", "KNEG-MERKLE-AUDIT-PATH-INVALID", recM, Corrupted(fresh(other))),
    Merkle("REVOKED_CONFIRMED", "KNEG-MERKLE-REVOKED-RECEIPT-INCLUSION", rec, fresh(Revoked(rec))),
    Merkle("REVOKED_CONFIRMED", "KNEG-MERKLE-REVOKED-ISSUER-INCLUSION",
           Plain("merkle-revoked-issuer"), fresh(RevokedIssuer)),
    Vector("KNEG-TRANSPARENCY-PROOF-MISSING", "TRANSPARENCY_PROOF_MISSING", policy),
    Vector("KNEG-TRANSPARENCY-PROOF-INVALID", "TRANSPARENCY_PROOF_INVALID", policy @@
           [context |-> [transparency_proof_present |-> TRUE, transparency_proof_valid |-> FALSE]
                            @@ base_context]),
    Vector("KNEG-CROSS-LOG-CONFLICT", "CROSS_LOG_COHERENCE_NOT_SATISFIED",
           [state |-> Status("conflicting")]) >>

KeyRelease ==
    [effect_type |-> "KEY_RELEASE", interface_id |-> "kms-1", action_type |-> "KEY_OP",
     target_id |-> "kms:key/123", key_id |-> "kms:key/123"]

ReplayAndKeys ==
    LET scope == With(KeyRelease @@ base_scope, "key_ops", {"DECRYPT"})
        key(id, op, x) ==
            LET q == With(KeyRelease @@ base_request, "key_op", op)
            IN Vector(id, "KEY_RELEASE_DENIED",
                [request |-> q, receipt |-> make_receipt(q, base_policy, scope, id),
                 context |-> x @@ base_context])
    IN <<
    Vector("KNEG-ANTI-REPLAY-NONCE-REUSE", "ANTI_REPLAY_FAILURE",
           [receipt |-> Plain("used-nonce"), context |-> With(base_context, "used_nonces", {"used-nonce"})]),
    key("KNEG-KEY-RELEASE-OP-OUT-OF-SCOPE", "SIGN", Nothing),
    key("KNEG-KEY-RELEASE-ATTESTATION-MISSING", "DECRYPT",
        [attestation_required |-> TRUE, attestation_present |-> FALSE]) >>

Capabilities ==
    LET recC == Plain("cap-base")
        cap(nonce) == make_capability(base_request, recC, WithCapability, nonce)
        changed(nonce, fields) == issue_capability_token(fields @@ cap(nonce).core)
    IN <<
    Vector("KNEG-CAPABILITY-MISSING", "CAPABILITY_TOKEN_INVALID_OR_MISSING",
           [receipt |-> recC, policy |-> WithCapability]),
    Capability("CAPABILITY_SIGNATURE_INVALID", "KNEG-CAPABILITY-SIGNATURE-INVALID", recC,
               [cap("cap-invalid-sig") EXCEPT !.signed = FALSE], Nothing),
    Capability("CAPABILITY_AUDIENCE_MISMATCH", "KNEG-CAPABILITY-AUDIENCE-MISMATCH", recC,
               changed("cap-aud", "audience" :> "other-gateway"), Nothing),
    Capability("CAPABILITY_EXPIRED", "KNEG-CAPABILITY-EXPIRED", recC,
               changed("cap-exp", "valid_to" :> EXPIRED_TO), Nothing),
    Capability("CAPABILITY_REPLAY", "KNEG-CAPABILITY-REPLAY", recC,
               cap("cap-replay"), "used_capability_nonces" :> {"cap-replay"}),
    Capability("CAPABILITY_TOKEN_INVALID_OR_MISSING", "KNEG-CAPABILITY-ACTION-MISMATCH", recC,
               changed("cap-action", "action_digest" :> Zeros), Nothing),
    Capability("TENANT_MISMATCH", "KNEG-CAPABILITY-TENANT-MISMATCH", recC,
               changed("cap-tenant", "tenant_id" :> "tenant-B"), Nothing) >>

Heartbeat ==
    [effect_type |-> "SAFETY_HEARTBEAT", interface_id |-> "safety-bus-1",
     action_type |-> "PUBLISH", target_id |-> "heartbeat"]
\* In a declared partition, without revocation state.
Partition(code, id, policy, nonce, x) ==
    LET q == Heartbeat @@ base_request
    IN Vector(id, code,
        [request |-> q, receipt |-> make_receipt(q, policy, Heartbeat @@ base_scope, nonce),
         policy |-> policy, state |-> Status("missing"),
         context |-> x @@ With(base_context, "partitioned", TRUE)])

Partitions == <<
    Partition("", "KPOS-OFFLINE-CONSTRAINED-ALLOW", Offline, "offline-allow", Nothing),
    Vector("KNEG-OFFLINE-NONCONSTRAINED-DENY", "CONSTRAINED_MODE_DENIAL",
           [policy |-> Offline, state |-> Status("missing"),
            context |-> With(base_context, "partitioned", TRUE)]) >>

\* Signed after they were changed: what is wrong is the content, not the signature.
Adversarial ==
    LET rec == Plain("cap-binding-receipt")
        cap(nonce) == make_capability(base_request, rec, WithCapability, nonce)
        evidence(code, id, state) == Vector(id, code, [receipt |-> Plain(id), state |-> state])
    IN <<
    Receipt("SCHEMA_VALIDATION_FAILURE", "KNEG-SIGNED-RECEIPT-NONCE-MISSING",
            Lacking(Plain("signed-missing-nonce"), "nonce")),
    Recore("SCHEMA_VALIDATION_FAILURE", "KNEG-SIGNED-RECEIPT-NONCE-NULL", "nonce" :> Bad),
    Recore("SCHEMA_VALIDATION_FAILURE", "KNEG-SIGNED-RECEIPT-NAIVE-TIMESTAMP", "valid_from" :> Bad),
    Context("TIME_SOURCE_UNTRUSTED_OR_DRIFT", "KNEG-NEGATIVE-CLOCK-DRIFT-ABSOLUTE",
            "clock_drift_seconds" :> -301),
    evidence("REVOKED_CONFIRMED", "KNEG-REVOCATION-TOPLEVEL-REVOKED",
             [base_revocation EXCEPT !.status = "revoked"]),
    evidence("SCHEMA_VALIDATION_FAILURE", "KNEG-REVOCATION-STATUS-FIELD-MISSING", Bad),
    evidence("SCHEMA_VALIDATION_FAILURE", "KNEG-REVOCATION-TOPLEVEL-UNKNOWN-ENUM", Bad),
    Capability("CAPABILITY_RECEIPT_BINDING_MISMATCH", "KNEG-CAPABILITY-RECEIPT-BINDING-MISMATCH", rec,
        issue_capability_token(With(cap("cap-binding-wrong").core, "receipt_digest", Zeros)), Nothing),
    Capability("CAPABILITY_TOKEN_INVALID_OR_MISSING", "KNEG-SIGNED-CAPABILITY-NONCE-MISSING", rec,
        issue_capability_token(Without(cap("cap-signed-missing-nonce").core, {"nonce"})), Nothing),
    Partition("ANTI_REPLAY_FAILURE", "KNEG-OFFLINE-CONSTRAINED-REPLAY", Offline,
        "offline-replayed-nonce", "used_nonces" :> {"offline-replayed-nonce"}),
    Partition("CAPABILITY_TOKEN_INVALID_OR_MISSING", "KNEG-OFFLINE-CONSTRAINED-CAPABILITY-MISSING",
        With(Offline, "require_capability_token", TRUE), "offline-capability-required", Nothing) >>

Extensions == <<
    Vector("KNEG-EXTENSION-SCHEMA-MISSING-ARTIFACT", "SCHEMA_VALIDATION_FAILURE",
           [request |-> [effect_type |-> "EXTENSION_INSTALL", interface_id |-> "ext-market-1",
                         action_type |-> "INSTALL", target_id |-> "ext:pub/tool@1.0"] @@ base_request,
            receipt |-> Absent]) >>

build_vectors == CompleteAll(
    Positive \o Shapes \o Receipts \o Scopes \o Contexts \o RevocationLists \o MerkleProofs
        \o ReplayAndKeys \o Capabilities \o Partitions \o Adversarial \o Extensions)

----------------------------------------------------------------------------
(* The scenarios of paygate_ref/reference.py: payments as effects, under a *)
(* policy of their own.  The replayed one has a replay cache, and is asked *)
(* for twice; its two calls carry one name.  Scenario C has the purchase   *)
(* of A once more, in a context that knows nothing of it.                  *)

payment_request(amount, merchant, cart) ==
    [effect_type |-> "PAYMENT_ATTEMPT", interface_id |-> "paygate-ref-psp-adapter",
     action_type |-> "AUTHORIZE_SANDBOX", target_id |-> merchant, tenant_id |-> "tenant-A",
     purpose_id |-> "agentic_purchase", representation_class_id |-> "json-v1",
     max_effect_budget |-> amount, payload_digest |-> cart, agent_id |-> "agent",
     merchant_id |-> merchant, currency |-> "USD", cart_digest |-> cart]

payment_scope(q, most) ==
    With([f \in DOMAIN base_scope |-> q[f]], "max_effect_budget", most)

policy_state ==
    [policy_digest |-> "policy-digest-paygate-ref", current_epoch_id |-> 72,
     minimum_epoch_id |-> 72, require_purpose |-> TRUE,
     trusted_permit_provenance_digests |-> {"paygate-provenance"}] @@ base_policy

context_state == With(base_context, "purpose_id", "agentic_purchase")

issue_payment_permit(q, most, nonce) ==
    Reissued(make_receipt(q, policy_state, payment_scope(q, most), nonce),
             "permit_provenance_digest" :> "paygate-provenance")

Payment(code, id, q, most, revoked) ==
    LET permit == issue_payment_permit(q, most, id)
    IN Vector(id, code, [request |-> q, receipt |-> permit, policy |-> policy_state,
           context |-> context_state,
           state |-> make_revocation_state(IF revoked THEN {ReceiptEntry(permit)} ELSE {}, IssuedAt)])

reference_scenarios ==
    LET in_scope(id) ==
            [Payment("", "A_IN_SCOPE_AGENT_PURCHASE",
                payment_request(2499, "merchant-alpha", "demo-001"), 2499, FALSE) EXCEPT !.id = id]
        replayed(code) == Payment(code, "B3_REPLAY_ATTEMPT_FAIL_CLOSED",
            payment_request(2499, "merchant-gamma", "demo-replay"), 2499, FALSE)
    IN CompleteAll(<<
    in_scope("A_IN_SCOPE_AGENT_PURCHASE"),
    Payment("SCOPE_VIOLATION", "B_OUT_OF_SCOPE_HOLD_OR_FAIL",
            payment_request(9999, "merchant-alpha", "demo-001"), 2500, FALSE),
    Payment("REVOKED_CONFIRMED", "B2_REVOKED_DELEGATION_FAIL_CLOSED",
            payment_request(2499, "merchant-beta", "demo-revoked"), 2499, TRUE),
    replayed(""), replayed("ANTI_REPLAY_FAILURE"),
    in_scope("C_DISPUTED_TRANSACTION_SELECTIVE_DISCLOSURE") >>)
============================================================================
