------------------------------- MODULE Schema -------------------------------
(***************************************************************************)
(* The shape checks of orprg_eval/schema.py.  A JSON object is a function  *)
(* from the fields it has to their values, so that a field may be missing, *)
(* unknown or optional.  What the checks on a single value (its type, its  *)
(* length, its digits, its list of strings) would refuse is the value Bad; *)
(* what canonicalization would refuse is Uncanonical.                      *)
(***************************************************************************)
EXTENDS Naturals

CONSTANTS
    Absent,         \* Python's None: no such field, or no such object
    Bad,            \* a value of the wrong type or out of range
    Uncanonical     \* a value CP-JSON-2 has no form for, such as a float

ASSUME SchemaAssumption ==
    /\ Bad # Uncanonical /\ Absent \notin {Bad, Uncanonical}
    /\ \A b \in BOOLEAN : b \notin {Absent, Bad, Uncanonical}

GetOr(obj, field, default) == IF field \in DOMAIN obj THEN obj[field] ELSE default
Get(obj, field) == GetOr(obj, field, Absent)

Shaped(obj, required, allowed) ==
    /\ required \subseteq DOMAIN obj /\ DOMAIN obj \subseteq allowed
    /\ \A f \in DOMAIN obj : obj[f] # Bad

JsonSafe(obj) == \A f \in DOMAIN obj : obj[f] # Uncanonical

----------------------------------------------------------------------------

RequestRequired ==
    {"effect_type", "interface_id", "action_type", "target_id", "tenant_id", "purpose_id",
     "payload_digest"}
RequestAllowed == RequestRequired \cup
    {"representation_class_id", "artifact_id", "key_id", "key_op", "max_effect_budget",
     "agent_id", "merchant_id", "currency", "cart_digest", "idempotency_key",
     "sensor_receipt_core_digest"}

\* What else a kind of effect must name.
AlsoRequired(effect_type) ==
    CASE effect_type = "KEY_RELEASE" -> {"key_id", "key_op"}
      [] effect_type \in {"EXTENSION_INSTALL", "EXTENSION_ENABLE", "EXTENSION_UPDATE"} -> {"artifact_id"}
      [] OTHER -> {}

RequestOk(q) ==
    /\ q # Bad
    /\ Shaped(q, RequestRequired, RequestAllowed) /\ JsonSafe(q)
    /\ AlsoRequired(q.effect_type) \subseteq DOMAIN q

(* An empty scope would allow everything and an unknown field would be      *)
(* ignored: neither is accepted.                                            *)
ScopeFields ==
    {"effect_type", "interface_id", "action_type", "target_id", "tenant_id", "purpose_id",
     "representation_class_id", "artifact_id", "key_id", "key_op", "key_ops",
     "max_effect_budget"}
ScopeOk(scope) ==
    /\ Shaped(scope, {}, ScopeFields) /\ JsonSafe(scope)
    /\ DOMAIN scope # {}
    /\ "key_ops" \in DOMAIN scope => scope.key_ops # {}

ReceiptRequired ==
    {"policy_digest", "epoch_id", "valid_from", "valid_to", "action_digest", "scope", "nonce",
     "canonicalization_profile_ref", "authority_profile_id", "assurance_level_id", "issuer_id"}
ReceiptAllowed == ReceiptRequired \cup
    {"permit_provenance_digest", "tenant_id", "purpose_id", "jurisdiction",
     "assurance_evidence_digest", "transparency_anchor_digest", "identity_binding"}

\* A receipt is its signed core, who claims to have signed it, and whether the
\* signature is that issuer's; Bad is a receipt without these parts.
ReceiptSchemaCode(receipt) ==
    LET core == receipt.core IN
    IF receipt = Bad THEN "RECEIPT_MALFORMED"
    ELSE IF /\ Shaped(core, ReceiptRequired, ReceiptAllowed) /\ JsonSafe(core)
            /\ ScopeOk(core.scope)
            /\ core.valid_from <= core.valid_to
            /\ Bad \notin {receipt.issuer_id, receipt.signed}
         THEN "" ELSE "SCHEMA_VALIDATION_FAILURE"

CapabilityFields ==
    {"action_digest", "receipt_digest", "policy_digest", "epoch_id", "audience", "tenant_id",
     "valid_to", "nonce"}
CapabilityOk(token) ==
    /\ token \notin {Absent, Bad}
    /\ Shaped(token.core, CapabilityFields, CapabilityFields) /\ JsonSafe(token.core)
    /\ Bad \notin {token.issuer_id, token.signed}

PolicyRequired ==
    {"now", "policy_digest", "current_epoch_id", "canonicalization_profile_ref",
     "trusted_issuers", "trusted_authority_profile_ids", "trusted_assurance_level_ids",
     "trusted_permit_provenance_digests"}
PolicyAllowed == PolicyRequired \cup
    {"minimum_epoch_id", "epoch_compatibility", "revocation_authorities", "transparency_logs",
     "trusted_capability_issuers", "max_clock_drift_seconds", "revocation_max_age_seconds",
     "checkpoint_max_age_seconds", "require_signed_revocation_list",
     "require_merkle_revocation_proof", "require_transparency", "require_purpose",
     "require_identity_binding", "require_permit_provenance", "require_assurance_evidence",
     "require_capability_token", "offline_constrained_mode_allowed",
     "offline_constrained_effect_types"}
PolicyOk(policy) ==
    /\ Shaped(policy, PolicyRequired, PolicyAllowed)
    /\ Get(policy, "epoch_compatibility") \in {Absent, "strict"}
    /\ {} \notin {policy.trusted_authority_profile_ids, policy.trusted_assurance_level_ids,
                  policy.trusted_permit_provenance_digests}

ContextAllowed ==
    {"now", "clock_drift_seconds", "time_source_untrusted", "authority_profile_ambiguous",
     "jurisdiction_ambiguous", "jurisdiction_conflict", "jurisdiction", "resolved_tenant_id",
     "purpose_id", "identity_binding", "attestation_required", "attestation_present",
     "attestation_stale", "attestation_nonce_mismatch", "transparency_proof_present",
     "transparency_proof_valid", "cross_log_coherence", "partitioned",
     "downstream_capability_present", "canonicalization_profile_ref", "epoch_sources",
     "used_nonces", "used_capability_nonces", "replay_cache", "capability_replay_cache",
     "capability_token", "expected_receipt_digest"}
\* A token that is not an object is refused here, one with bad parts later.
ContextOk(context) ==
    /\ Shaped(context, {}, ContextAllowed)
    /\ Get(context, "cross_log_coherence") \in {Absent, "coherent", "conflict"}

============================================================================
