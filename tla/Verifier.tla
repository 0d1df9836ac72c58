------------------------------ MODULE Verifier ------------------------------
(***************************************************************************)
(* The checks of verify_permit_receipt and verify_capability_token         *)
(* (orprg_eval/verifier.py) up to their transaction: comparisons of        *)
(* request, receipt, policy and context in a fixed order, of which the     *)
(* first to fail names the denial.  A digest is what it is taken of.  What *)
(* the evidence of revocation amounts to is the subject of Revocation; its *)
(* code is part of the call here.                                          *)
(*                                                                         *)
(* A code is "" when all checks pass.  The order matters: a check reads    *)
(* what those before it have shown to be there.                            *)
(***************************************************************************)
EXTENDS Integers, FiniteSets, Sequences, Schema

Profile == "CP-JSON-2"

\* A table of checks, each <<refuses, code>>: the code of the first that refuses.
FirstCode(checks) ==
    LET refusing == {i \in DOMAIN checks : checks[i][1]}
    IN  IF refusing = {} THEN ""
        ELSE checks[CHOOSE i \in refusing : \A j \in refusing : i <= j][2]

\* The second table is only looked at if the first passes.
OrElse(code, next) == IF code # "" THEN code ELSE next

Flag(obj, field) == Get(obj, field) = TRUE
Now(c) == GetOr(c.context, "now", c.policy.now)
UsedProfile(c) ==
    GetOr(c.context, "canonicalization_profile_ref", c.policy.canonicalization_profile_ref)

SchemaCode(c) ==
    IF c.request # Bad /\ PolicyOk(c.policy) /\ ContextOk(c.context) /\ c.revocation # Bad
    THEN "" ELSE "SCHEMA_VALIDATION_FAILURE"

RequestChecks(c) == <<
    <<\/ UsedProfile(c) # c.policy.canonicalization_profile_ref
      \/ UsedProfile(c) # Profile
      \/ ~JsonSafe(c.request),             "CANONICALIZATION_PROFILE_MISMATCH">>,
    <<~RequestOk(c.request),               "SCHEMA_VALIDATION_FAILURE">>,
    <<c.receipt = Absent,                  "MISSING_RECEIPT">> >>

\* Who signed the receipt, for which policy, epoch, time and action.
ReceiptChecks(c) ==
    LET core == c.receipt.core
        p == c.policy
        drift == GetOr(c.context, "clock_drift_seconds", 0)
        maximum == GetOr(p, "max_clock_drift_seconds", 300)
    IN <<
    <<core.canonicalization_profile_ref # p.canonicalization_profile_ref,
                                           "CANONICALIZATION_PROFILE_MISMATCH">>,
    <<c.receipt.issuer_id # core.issuer_id, "SIGNATURE_INVALID">>,
    <<c.receipt.issuer_id \notin p.trusted_issuers, "ISSUER_UNTRUSTED">>,
    <<~c.receipt.signed,                   "SIGNATURE_INVALID">>,
    <<core.policy_digest # p.policy_digest, "POLICY_DIGEST_MISMATCH">>,
    <<Cardinality(GetOr(c.context, "epoch_sources", {})) > 1, "EPOCH_ROLLBACK_ATTEMPT">>,
    <<core.epoch_id < GetOr(p, "minimum_epoch_id", p.current_epoch_id),
                                           "EPOCH_ROLLBACK_ATTEMPT">>,
    <<core.epoch_id # p.current_epoch_id,  "EPOCH_MISMATCH">>,
    <<Flag(c.context, "time_source_untrusted") \/ drift > maximum \/ -drift > maximum,
                                           "TIME_SOURCE_UNTRUSTED_OR_DRIFT">>,
    <<~(core.valid_from <= Now(c) /\ Now(c) <= core.valid_to), "VALIDITY_WINDOW_EXPIRED">>,
    <<core.action_digest # c.request,      "ACTION_DIGEST_MISMATCH">> >>

(* Mutant: a field only one side has is a disagreement. *)
DisagreeUnlessSame(one, other) == one # other

\* Both sides say something, and not the same.
Disagree(one, other) == Absent \notin {one, other} /\ one # other

\* Authority, assurance, place, tenant, identity, purpose and attestation.
ContextChecks(c) ==
    LET core == c.receipt.core
        p == c.policy
        x == c.context
    IN <<
    <<\/ Flag(x, "authority_profile_ambiguous")
      \/ core.authority_profile_id \notin p.trusted_authority_profile_ids,
                                           "AUTHORITY_PROFILE_SELECTION_FAILED">>,
    <<core.assurance_level_id \notin p.trusted_assurance_level_ids,
                                           "ASSURANCE_PROFILE_NOT_SATISFIED">>,
    <<\/ Flag(x, "jurisdiction_ambiguous") \/ Flag(x, "jurisdiction_conflict")
      \/ Disagree(Get(core, "jurisdiction"), Get(x, "jurisdiction")),
                                           "JURISDICTION_CONTEXT_INDETERMINATE_OR_CONFLICT">>,
    <<Disagree(Get(x, "resolved_tenant_id"), Get(core, "tenant_id")), "TENANT_MISMATCH">>,
    <</\ Flag(p, "require_identity_binding")
      /\ \/ Get(core, "identity_binding") = Absent
         \/ Get(core, "identity_binding") # Get(x, "identity_binding"),
                                           "IDENTITY_BINDING_MISMATCH">>,
    <</\ Flag(p, "require_purpose")
      /\ \/ Get(core, "purpose_id") = Absent
         \/ Get(core, "purpose_id") # Get(x, "purpose_id"),
                                           "PURPOSE_OUT_OF_SCOPE_OR_MISSING">>,
    <</\ Flag(p, "require_permit_provenance")
      /\ Get(core, "permit_provenance_digest") \notin p.trusted_permit_provenance_digests,
                                           "PERMIT_PROVENANCE_INVALID_OR_MISSING">>,
    <</\ Flag(p, "require_assurance_evidence")
      /\ Get(core, "assurance_evidence_digest") = Absent,
                                           "ASSURANCE_PROFILE_NOT_SATISFIED">>,
    <</\ Flag(x, "attestation_required")
      /\ Flag(x, "attestation_stale") \/ Flag(x, "attestation_nonce_mismatch"),
                                           "ATTESTATION_STALE">>,
    <<Flag(x, "attestation_required") /\ ~Flag(x, "attestation_present"),
        IF c.request.effect_type = "KEY_RELEASE" THEN "KEY_RELEASE_DENIED"
                                                 ELSE "ATTESTATION_FAILURE">> >>

\* Whether the request is one the receipt's scope covers.
ScopeChecks(q, scope) ==
    LET differs(f) == f \in DOMAIN scope /\ Get(q, f) # scope[f]
        exact == {"effect_type", "interface_id", "action_type", "target_id",
                  "artifact_id", "key_id", "key_op"}
    IN <<
    <<differs("tenant_id"),                "TENANT_MISMATCH">>,
    <<differs("purpose_id"),               "PURPOSE_OUT_OF_SCOPE_OR_MISSING">>,
    <<differs("representation_class_id"),  "REPRESENTATION_CLASS_VIOLATION">>,
    <<\E f \in exact : differs(f),
        IF q.effect_type = "KEY_RELEASE" THEN "KEY_RELEASE_DENIED" ELSE "SCOPE_VIOLATION">>,
    <<"key_ops" \in DOMAIN scope /\ Get(q, "key_op") \notin scope.key_ops, "KEY_RELEASE_DENIED">>,
    <</\ "max_effect_budget" \in DOMAIN scope
      /\ \/ "max_effect_budget" \notin DOMAIN q
         \/ q.max_effect_budget > scope.max_effect_budget, "SCOPE_VIOLATION">> >>

\* c.merkle: the revocation state holds Merkle evidence.
TransparencyChecks(c) ==
    LET present == Flag(c.context, "transparency_proof_present")
        required == Flag(c.policy, "require_transparency")
    IN <<
    <<required /\ ~c.merkle /\ ~present,   "TRANSPARENCY_PROOF_MISSING">>,
    <<required /\ present /\ ~Flag(c.context, "transparency_proof_valid"),
                                           "TRANSPARENCY_PROOF_INVALID">> >>

NeedsCapability(c) ==
    \/ Flag(c.policy, "require_capability_token")
    \/ Get(c.context, "downstream_capability_present") = FALSE

\* A token for this action, under this receipt, for this interface and tenant.
TokenChecks(c, expected) ==
    LET token == c.context.capability_token
        core == token.core
        q == c.request
    IN <<
    <<token.issuer_id \notin GetOr(c.policy, "trusted_capability_issuers", {}),
                                           "CAPABILITY_TOKEN_INVALID_OR_MISSING">>,
    <<~token.signed,                       "CAPABILITY_SIGNATURE_INVALID">>,
    <<core.valid_to < Now(c),              "CAPABILITY_EXPIRED">>,
    <<c.policy.canonicalization_profile_ref # Profile \/ ~JsonSafe(q),
                                           "CANONICALIZATION_PROFILE_MISMATCH">>,
    <<core.action_digest # q,              "CAPABILITY_TOKEN_INVALID_OR_MISSING">>,
    <<core.receipt_digest # expected,      "CAPABILITY_RECEIPT_BINDING_MISMATCH">>,
    <<core.audience # q.interface_id,      "CAPABILITY_AUDIENCE_MISMATCH">>,
    <<core.tenant_id # q.tenant_id,        "TENANT_MISMATCH">>,
    <<core.policy_digest # c.policy.policy_digest, "POLICY_DIGEST_MISMATCH">>,
    <<core.epoch_id # c.policy.current_epoch_id,   "EPOCH_MISMATCH">>,
    <<core.nonce \in GetOr(c.context, "used_capability_nonces", {}), "CAPABILITY_REPLAY">>,
    <<{"capability_replay_cache", "used_capability_nonces"} \cap DOMAIN c.context = {},
                                           "REPLAY_STATE_FAILURE">> >>

TokenCode(c, expected) ==
    IF CapabilityOk(Get(c.context, "capability_token"))
    THEN FirstCode(TokenChecks(c, expected)) ELSE "CAPABILITY_TOKEN_INVALID_OR_MISSING"

(* Mutant: nonces the caller lists as used do not count. *)
ReplayChecksOfCaches(c) == <<
    <<{"replay_cache", "used_nonces"} \cap DOMAIN c.context = {}, "REPLAY_STATE_FAILURE">>,
    <<Get(c.context, "downstream_capability_present") = FALSE,
                                           "CAPABILITY_TOKEN_INVALID_OR_MISSING">> >>

\* The checks between revocation and the first reservation.
ReplayChecks(c) == <<
    <<c.receipt.core.nonce \in GetOr(c.context, "used_nonces", {}), "ANTI_REPLAY_FAILURE">>,
    <<{"replay_cache", "used_nonces"} \cap DOMAIN c.context = {}, "REPLAY_STATE_FAILURE">>,
    <<Get(c.context, "downstream_capability_present") = FALSE,
                                           "CAPABILITY_TOKEN_INVALID_OR_MISSING">> >>

PermitCode(c) ==
    OrElse(SchemaCode(c), OrElse(FirstCode(RequestChecks(c)), OrElse(ReceiptSchemaCode(c.receipt),
    OrElse(FirstCode(ReceiptChecks(c)), OrElse(FirstCode(ContextChecks(c)),
    OrElse(FirstCode(ScopeChecks(c.request, c.receipt.core.scope)),
    OrElse(FirstCode(TransparencyChecks(c)), OrElse(c.revocation, OrElse(FirstCode(ReplayChecks(c)),
        IF NeedsCapability(c) THEN TokenCode(c, c.receipt.core) ELSE "")))))))))

----------------------------------------------------------------------------
(* What a call is: Bad stands for a value that the checks of schema.py on  *)
(* a single value refuse, so that any other has the type they demand.      *)
(* None of them lets null through, but for a token or a replay cache, and  *)
(* the code takes either for one that is not there.                        *)

Present(obj) == \A f \in DOMAIN obj : obj[f] # Absent
Typed(obj, field, type) ==
    field \in DOMAIN obj /\ obj[field] \notin {Bad, Uncanonical} => obj[field] \in type

TypedReceipt(receipt) ==
    LET core == receipt.core IN
    /\ Present(core)
    /\ \A f \in {"epoch_id", "valid_from", "valid_to"} : Typed(core, f, Int)
    /\ "scope" \in DOMAIN core /\ core.scope # Bad =>
         Present(core.scope) /\ Typed(core.scope, "max_effect_budget", Nat)

TypedPolicy(p) ==
    /\ \A f \in DOMAIN p : p[f] # Uncanonical
    /\ \A f \in {"now", "current_epoch_id", "minimum_epoch_id", "max_clock_drift_seconds"} :
          Typed(p, f, Int)

TypedContext(x) ==
    /\ \A f \in DOMAIN x : x[f] # Uncanonical
    /\ \A f \in DOMAIN x \ {"capability_token"} : x[f] # Absent
    /\ \A f \in {"now", "clock_drift_seconds"} : Typed(x, f, Int)
    /\ LET sources == Get(x, "epoch_sources") IN sources \notin {Absent, Bad} => IsFiniteSet(sources)
    /\ LET token == Get(x, "capability_token")
       IN  token \notin {Absent, Bad} => Typed(token.core, "valid_to", Int)

WellTyped(c) ==
    /\ DOMAIN c = {"request", "receipt", "policy", "context", "merkle", "revocation"}
    /\ c.request # Bad => Present(c.request) /\ Typed(c.request, "max_effect_budget", Nat)
    /\ c.receipt \notin {Absent, Bad} => TypedReceipt(c.receipt)
    /\ TypedPolicy(c.policy) /\ TypedContext(c.context)

----------------------------------------------------------------------------
(* What the checks amount to, without their order or their codes: the      *)
(* reference they are compared with.                                       *)

\* A trusted issuer signed exactly this action under this policy.
Vouched(c) ==
    LET core == c.receipt.core IN
    /\ core.issuer_id = c.receipt.issuer_id /\ c.receipt.signed
    /\ core.issuer_id \in c.policy.trusted_issuers
    /\ core.policy_digest = c.policy.policy_digest
    /\ core.action_digest = c.request
    /\ Profile = c.policy.canonicalization_profile_ref
    /\ core.canonicalization_profile_ref = Profile /\ UsedProfile(c) = Profile

\* In the policy's epoch, which nobody doubts, and within the window.
Timely(c) ==
    LET core == c.receipt.core
        minimum == GetOr(c.policy, "minimum_epoch_id", core.epoch_id)
    IN /\ core.epoch_id = c.policy.current_epoch_id /\ minimum <= core.epoch_id
       /\ \A a, b \in GetOr(c.context, "epoch_sources", {}) : a = b
       /\ Now(c) \in core.valid_from .. core.valid_to
       /\ ~Flag(c.context, "time_source_untrusted")
       /\ LET max == GetOr(c.policy, "max_clock_drift_seconds", 300)
          IN  GetOr(c.context, "clock_drift_seconds", 0) \in -max .. max

\* Each field of the scope covers the request.
Covered(q, scope) ==
    \A f \in DOMAIN scope :
        CASE f = "key_ops" -> Get(q, "key_op") \in scope[f]
          [] f = "max_effect_budget" -> f \in DOMAIN q /\ q[f] \in 0 .. scope[f]
          [] OTHER -> f \in DOMAIN q /\ q[f] = scope[f]

\* What the policy demands of the receipt, and context and receipt of each other.
Satisfied(c) ==
    LET core == c.receipt.core
        p == c.policy
        x == c.context
        demands(flag, ok) == Flag(p, flag) => ok
        same(f) == f \in DOMAIN core /\ f \in DOMAIN x /\ core[f] = x[f]
        clash(f, g) == f \in DOMAIN core /\ g \in DOMAIN x /\ core[f] # x[g]
    IN /\ core.authority_profile_id \in p.trusted_authority_profile_ids
       /\ core.assurance_level_id \in p.trusted_assurance_level_ids
       /\ ~clash("jurisdiction", "jurisdiction") /\ ~clash("tenant_id", "resolved_tenant_id")
       /\ demands("require_identity_binding", same("identity_binding"))
       /\ demands("require_purpose", same("purpose_id"))
       /\ demands("require_permit_provenance",
            Get(core, "permit_provenance_digest") \in p.trusted_permit_provenance_digests)
       /\ demands("require_assurance_evidence", "assurance_evidence_digest" \in DOMAIN core)
       /\ demands("require_transparency",
            IF Flag(x, "transparency_proof_present") THEN Flag(x, "transparency_proof_valid")
                                                     ELSE c.merkle)
       /\ \A f \in {"authority_profile_ambiguous", "jurisdiction_ambiguous",
                     "jurisdiction_conflict"} : ~Flag(x, f)
       /\ Flag(x, "attestation_required") =>
            /\ Flag(x, "attestation_present")
            /\ ~Flag(x, "attestation_stale") /\ ~Flag(x, "attestation_nonce_mismatch")

\* The capability at hand is for this request under this receipt.
Entitled(c, receipt_digest) ==
    /\ CapabilityOk(Get(c.context, "capability_token"))
    /\ LET token == c.context.capability_token
           bound == [action_digest |-> c.request, receipt_digest |-> receipt_digest,
                     audience |-> c.request.interface_id, tenant_id |-> c.request.tenant_id,
                     policy_digest |-> c.policy.policy_digest,
                     epoch_id |-> c.policy.current_epoch_id]
       IN /\ token.issuer_id \in GetOr(c.policy, "trusted_capability_issuers", {})
          /\ token.signed
          /\ token.core.valid_to >= Now(c)
          /\ c.policy.canonicalization_profile_ref = Profile
          /\ token.core.nonce \notin GetOr(c.context, "used_capability_nonces", {})
          /\ {"capability_replay_cache", "used_capability_nonces"} \cap DOMAIN c.context # {}
          /\ \A f \in DOMAIN bound : token.core[f] = bound[f]

Permitted(c) ==
    /\ SchemaCode(c) = "" /\ RequestOk(c.request)
    /\ c.receipt # Absent /\ ReceiptSchemaCode(c.receipt) = ""
    /\ Vouched(c) /\ Timely(c) /\ Satisfied(c)
    /\ Covered(c.request, c.receipt.core.scope)
    /\ c.revocation = ""
    /\ c.receipt.core.nonce \notin GetOr(c.context, "used_nonces", {})
    /\ {"replay_cache", "used_nonces"} \cap DOMAIN c.context # {}
    /\ Get(c.context, "downstream_capability_present") # FALSE
    /\ Flag(c.policy, "require_capability_token") => Entitled(c, c.receipt.core)

============================================================================
