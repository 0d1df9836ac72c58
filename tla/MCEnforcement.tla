--------------------------- MODULE MCEnforcement ---------------------------
(* Permits that collide in each way, and calls that differ from one of     *)
(* them in one or two fields, so that every check refuses some and passes  *)
(* others.                                                                 *)
EXTENDS Enforcement, TLC

CONSTANTS t1, t2, Other

With(obj, field, value) == (field :> value) @@ obj
Without(obj, fields) == [f \in DOMAIN obj \ fields |-> obj[f]]

Read == [effect_type |-> "EXTERNAL_CALL", interface_id |-> "gw", action_type |-> "GET",
         target_id |-> "record", tenant_id |-> "A", purpose_id |-> "support",
         payload_digest |-> "p", max_effect_budget |-> 1]
ReadMissing == [Read EXCEPT !.target_id = "nothing"]

Policy(digest, epoch) ==
    [now |-> 1, policy_digest |-> digest, current_epoch_id |-> epoch, minimum_epoch_id |-> epoch,
     epoch_compatibility |-> "strict", canonicalization_profile_ref |-> Profile,
     trusted_issuers |-> {"I", "J"}, trusted_capability_issuers |-> {"C"},
     trusted_authority_profile_ids |-> {"AP"}, trusted_assurance_level_ids |-> {"AL"},
     trusted_permit_provenance_digests |-> {"prov"}, max_clock_drift_seconds |-> 1]
Plain == Policy("p1", 1)
Dual == With(Policy("p2", 2), "require_capability_token", TRUE)

Permit(q, p, issuer, nonce, scope) ==
    [core |-> [policy_digest |-> p.policy_digest, epoch_id |-> p.current_epoch_id,
               valid_from |-> 1, valid_to |-> 2, action_digest |-> q, scope |-> scope,
               nonce |-> nonce, canonicalization_profile_ref |-> Profile,
               authority_profile_id |-> "AP", assurance_level_id |-> "AL",
               issuer_id |-> issuer, tenant_id |-> "A", jurisdiction |-> "US"],
     issuer_id |-> issuer, signed |-> TRUE]

Narrow == [interface_id |-> "gw", target_id |-> "record", tenant_id |-> "A",
           purpose_id |-> "support", max_effect_budget |-> 1]
Wide == [interface_id |-> "gw"]

Capability(q, r, p, nonce) ==
    [core |-> [action_digest |-> q, receipt_digest |-> r.core, policy_digest |-> p.policy_digest,
               epoch_id |-> p.current_epoch_id, audience |-> "gw", tenant_id |-> "A",
               valid_to |-> 2, nonce |-> nonce],
     issuer_id |-> "C", signed |-> TRUE]

Context == [now |-> 1, jurisdiction |-> "US", resolved_tenant_id |-> "A"]
Under(r, k) == Context @@ [expected_receipt_digest |-> r.core, capability_token |-> k]

Call(q, r, p, x) ==
    [request |-> q, receipt |-> r, policy |-> p, context |-> x, merkle |-> FALSE, revocation |-> ""]

\* One nonce of two issuers, and of one issuer under two policies and in two receipts.
R1 == Permit(Read, Plain, "I", "n", Narrow)
R2 == Permit(ReadMissing, Plain, "J", "n", Wide)
R3 == Permit(Read, Dual, "I", "n", Narrow)
R4 == Permit(Read, Dual, "I", "n", Wide)
K3 == Capability(Read, R3, Dual, "k")
K3b == Capability(Read, R3, Dual, "m")
K4 == Capability(Read, R4, Dual, "k")

Simple == Call(Read, R1, Plain, Context)
Full == Call(Read, R3, Dual, Under(R3, K3))
\* The nonce and issuer of Simple, at another interface: another permit.
Elsewhere == LET q == [Read EXCEPT !.interface_id = Other]
             IN Call(q, Permit(q, Plain, "I", "n", [effect_type |-> "EXTERNAL_CALL"]), Plain, Context)
Permits ==
    {Simple, Elsewhere, Call(ReadMissing, R2, Plain, Context), Full,
     Call(Read, R3, Dual, Under(R3, K3b)), Call(Read, R4, Dual, Under(R4, K4))}

Refusals == {[Simple EXCEPT !.revocation = "REVOKED_CONFIRMED"],
             [Full EXCEPT !.context.capability_token.core.tenant_id = "B"]}
Submitted == Permits \cup Refusals

----------------------------------------------------------------------------
(* One field more, other, or less.                                         *)

InReceipt(c, core) == [c EXCEPT !.receipt.core = core]
Receipts(c) ==
    LET core == c.receipt.core IN
    {InReceipt(c, With(core, "policy_digest", v)) : v \in {Other, Bad}}
    \cup {InReceipt(c, With(core, "epoch_id", v)) : v \in {0, 1, 2, 3}}
    \cup {InReceipt(c, [core EXCEPT !.valid_from = w[1], !.valid_to = w[2]]) :
             w \in {<<0, 0>>, <<0, 1>>, <<1, 1>>, <<2, 2>>, <<2, 0>>}}
    \cup {InReceipt(c, With(core, "action_digest", ReadMissing)),
          InReceipt(c, With(core, "canonicalization_profile_ref", Other)),
          InReceipt(c, With(core, "authority_profile_id", Other)),
          InReceipt(c, With(core, "assurance_level_id", Other)),
          InReceipt(c, With(core, "issuer_id", "J")),
          InReceipt(c, With(core, "surplus", 1)),
          InReceipt(c, With(core, "identity_binding", Uncanonical)),
          InReceipt(c, Without(core, {"nonce"})),
          InReceipt(c, Without(core, {"tenant_id", "jurisdiction"})),
          [c EXCEPT !.receipt.issuer_id = "J"],
          [c EXCEPT !.receipt.issuer_id = "X", !.receipt.core.issuer_id = "X"],
          [c EXCEPT !.receipt.signed = FALSE], [c EXCEPT !.receipt.signed = Bad],
          [c EXCEPT !.receipt = Absent], [c EXCEPT !.receipt = Bad]}

InScope(c, scope) == [c EXCEPT !.receipt.core.scope = scope]
Scopes(c) ==
    {InScope(c, With(Narrow, f, Other)) :
        f \in {"tenant_id", "purpose_id", "representation_class_id", "target_id", "key_id"}}
    \cup {InScope(c, With(Narrow, "max_effect_budget", n)) : n \in {0, 2}}
    \cup {InScope(c, s) : s \in {<<>>, With(Narrow, "surplus", 1), With(Narrow, "key_ops", {})}}

\* The receipt is for the request, whatever that is.
Asked(c, q) == [c EXCEPT !.request = q, !.receipt.core.action_digest = q]
Key == Read @@ [key_id |-> "key", key_op |-> "DECRYPT"]
Requests(c) ==
    {Asked(c, q) : q \in {Bad, With(Read, "surplus", 1), With(Read, "target_id", Bad),
        With(Read, "payload_digest", Uncanonical), Without(Read, {"purpose_id"}),
        Without(Read, {"max_effect_budget"}), [Read EXCEPT !.interface_id = Other],
        [Read EXCEPT !.effect_type = "KEY_RELEASE"], [Read EXCEPT !.effect_type = "EXTENSION_INSTALL"],
        With(With(Read, "effect_type", "EXTENSION_INSTALL"), "artifact_id", "x")}}
    \cup {InScope(Asked(c, [Key EXCEPT !.effect_type = "KEY_RELEASE"]),
                  With(Wide, "key_ops", ops)) : ops \in {{"DECRYPT"}, {"SIGN"}}}

InContext(c, x) == [c EXCEPT !.context = x @@ @]
Flags == {"time_source_untrusted", "authority_profile_ambiguous", "jurisdiction_ambiguous",
          "jurisdiction_conflict", "attestation_required", "attestation_stale",
          "downstream_capability_present", "transparency_proof_present"}
Contexts(c) ==
    {InContext(c, f :> v) : f \in Flags, v \in BOOLEAN}
    \cup {InContext(c, x) : x \in {
        [attestation_required |-> TRUE, attestation_present |-> TRUE],
        [attestation_required |-> TRUE, attestation_present |-> FALSE],
        [attestation_required |-> TRUE, attestation_present |-> TRUE, attestation_stale |-> TRUE],
        [attestation_required |-> TRUE, attestation_present |-> TRUE,
         attestation_nonce_mismatch |-> TRUE],
        "jurisdiction" :> "EU", "resolved_tenant_id" :> "B", "now" :> 0, "now" :> 2, "now" :> 3,
        "clock_drift_seconds" :> 1, "clock_drift_seconds" :> -1, "clock_drift_seconds" :> 2,
        "clock_drift_seconds" :> -2, "epoch_sources" :> {1, 2}, "epoch_sources" :> {2},
        "canonicalization_profile_ref" :> Other, "canonicalization_profile_ref" :> Profile,
        "surplus" :> 1, "purpose_id" :> Bad,
        "cross_log_coherence" :> "maybe", "used_nonces" :> {"n"}, "used_nonces" :> {},
        "used_capability_nonces" :> {"k"}, "used_capability_nonces" :> {}}}
    \cup {[c EXCEPT !.context = Without(@, {"jurisdiction", "resolved_tenant_id", "now"})],
          [c EXCEPT !.context = Without(@, {"expected_receipt_digest"})],
          [c EXCEPT !.context = Without(@, {"capability_token"})]}

\* What a policy demands, with and without what it demands.
Demands(c) ==
    LET under(p) == [c EXCEPT !.policy = p @@ @] IN
    {under(p) : p \in {"now" :> Bad, "trusted_issuers" :> {"J"}, "minimum_epoch_id" :> 3,
        "minimum_epoch_id" :> 0, "current_epoch_id" :> 3, "epoch_compatibility" :> "loose",
        "trusted_authority_profile_ids" :> {}, "trusted_capability_issuers" :> {},
        "policy_digest" :> Other, "canonicalization_profile_ref" :> Other}}
    \cup UNION {LET d == under(r[1] :> TRUE)
                    e == InReceipt(d, With(d.receipt.core, r[2], r[3]))
                IN {d, e, InContext(e, r[2] :> r[3]), InContext(e, r[2] :> Other)} : r \in {
        <<"require_identity_binding", "identity_binding", "id">>,
        <<"require_purpose", "purpose_id", "support">>,
        <<"require_permit_provenance", "permit_provenance_digest", "prov">>,
        <<"require_permit_provenance", "permit_provenance_digest", "unknown">>,
        <<"require_assurance_evidence", "assurance_evidence_digest", "e">>}}
    \cup {[under("require_transparency" :> TRUE) EXCEPT !.merkle = v] : v \in BOOLEAN}

InToken(c, core) == [c EXCEPT !.context.capability_token.core = core]
Tokens(c) ==
    LET core == c.context.capability_token.core IN
    {InToken(c, With(core, f, Other)) :
        f \in {"action_digest", "receipt_digest", "policy_digest", "audience", "tenant_id"}}
    \cup {InToken(c, With(core, "epoch_id", 1)), InToken(c, With(core, "surplus", 1)),
          InToken(c, With(core, "valid_to", 0)), InToken(c, With(core, "valid_to", 1)),
          InToken(c, With(core, "nonce", Bad)), InToken(c, Without(core, {"nonce"})),
          InToken(c, With(core, "receipt_digest", R4.core)),
          InContext(c, "expected_receipt_digest" :> R4.core),
          InContext(c, "capability_token" :> Bad), InContext(c, "capability_token" :> Absent),
          [c EXCEPT !.context.capability_token.issuer_id = "X"],
          [c EXCEPT !.context.capability_token.signed = FALSE]}

OneOff(c) ==
    Receipts(c) \cup Scopes(c) \cup Requests(c) \cup Contexts(c) \cup Demands(c)
    \cup {[c EXCEPT !.revocation = r] : r \in {Bad, "REVOKED_CONFIRMED"}}
Deviations ==
    OneOff(Simple) \cup OneOff(Full) \cup Tokens(Full)
    \cup UNION {Contexts(d) \cup Receipts(d) : d \in Demands(Full)}
============================================================================
