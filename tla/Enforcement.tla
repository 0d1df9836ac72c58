---------------------------- MODULE Enforcement ----------------------------
(***************************************************************************)
(* Where verdicts turn into effects: the boundaries that call              *)
(* verify_permit_receipt before they serve a request (the retrieval        *)
(* adapter, the egress and ext_authz handlers, the KMS gate), and          *)
(* MockEgressGateway, which serves it again downstream under a capability. *)
(* Each request is handled in a thread of its own.  The boundary owns its  *)
(* replay caches; the gateway is given the boundary's capability cache or  *)
(* one of its own.  All caches are in memory (ReplayCache): a reservation  *)
(* is held until the call ends, and its commit cannot fail.                *)
(***************************************************************************)
EXTENDS Verifier, Bags

CONSTANTS
    Threads,
    Inputs,         \* what may be submitted: request, receipt, policy, context, ...
    Variants,       \* more calls to compare verdicts on; too many to follow
    Boundaries,     \* the kinds of boundary there may be
    GatewayId,      \* the interface the gateway serves
    Records         \* the targets the retrieval adapter has

ASSUME InputsAssumption == \A c \in Inputs \cup Variants : WellTyped(c)

VARIABLES
    boundary,       \* which boundary this is
    shared,         \* the gateway's capability cache is the boundary's
    used,           \* slots used up, in all caches
    thread,         \* what each thread is doing
    allowed         \* the calls answered with ALLOW so far, and what came of each

vars == <<boundary, shared, used, thread, allowed>>

Idle == [phase |-> "idle"]
Refused == [phase |-> "refused"]

Init ==
    /\ boundary \in Boundaries
    /\ shared \in BOOLEAN
    /\ used = {}
    /\ thread = [t \in Threads |-> Idle]
    /\ allowed = EmptyBag

----------------------------------------------------------------------------
(* What a boundary does to the context it is handed.                       *)

ReplayFields == {"replay_cache", "capability_replay_cache", "used_nonces", "used_capability_nonces"}
BoundaryCaches == {"replay_cache", "capability_replay_cache"}

\* Over HTTP: replay state of the caller is removed, that of the server put in.
WireContext(x) ==
    [f \in (DOMAIN x \ ReplayFields) \cup BoundaryCaches |->
        IF f \in BoundaryCaches THEN TRUE ELSE x[f]]

\* The KMS gate has a receipt cache, and takes a key to need attestation.
KmsContext(x) ==
    [f \in DOMAIN x \cup {"replay_cache", "attestation_required", "attestation_present"} |->
        IF f = "replay_cache" THEN TRUE ELSE GetOr(x, f, TRUE)]

\* The gateway's caller brings the context, with a cache for capabilities.
GatewayContext(x) ==
    [f \in DOMAIN x \cup {"capability_replay_cache"} |->
        IF f = "capability_replay_cache" THEN TRUE ELSE x[f]]

Prepared(b, c) ==
    [c EXCEPT !.context = IF b = "kms" THEN KmsContext(@) ELSE WireContext(@)]

(* Mutant: the slot is one of the receipt, not of its nonce. *)
ReceiptSlotOfReceipt(c) == <<"receipt", c.receipt.core>>

ReceiptSlot(c) ==
    LET core == c.receipt.core
    IN <<"receipt", c.receipt.issuer_id, GetOr(core, "tenant_id", c.request.tenant_id),
         c.request.interface_id, core.policy_digest, core.epoch_id, core.nonce>>

CapabilitySlot(c, store) ==
    LET token == c.context.capability_token
        core == token.core
    IN <<store, token.issuer_id, core.tenant_id, core.audience, core.policy_digest,
         core.epoch_id, core.nonce>>

\* A caller's own list of used capability nonces is seen by no other call.
PermitSlots(c) ==
    IF NeedsCapability(c) /\ "capability_replay_cache" \in DOMAIN c.context
    THEN <<ReceiptSlot(c), CapabilitySlot(c, "capability")>>
    ELSE <<ReceiptSlot(c)>>

GatewaySlots(c) == <<CapabilitySlot(c, IF shared THEN "capability" ELSE "gateway")>>

\* A request that is no object raises; so does a malformed time, without a
\* record in the audit list.
GatewayChecks(c) == <<
    <<Get(c.request, "interface_id") # GatewayId,           "CAPABILITY_AUDIENCE_MISMATCH">>,
    <<Get(c.context, "capability_token") = Absent,          "GATEWAY_BYPASS_DENIED">>,
    <<~RequestOk(c.request) \/ ~PolicyOk(c.policy) \/ ~ContextOk(c.context),
                                           "CAPABILITY_TOKEN_INVALID_OR_MISSING">>,
    <<Get(c.context, "expected_receipt_digest") = Absent,
                                           "CAPABILITY_RECEIPT_BINDING_MISMATCH">> >>

GatewayCode(c) ==
    IF c.request = Bad THEN "AttributeError"
    ELSE OrElse(FirstCode(GatewayChecks(c)),
                TokenCode(c, Get(c.context, "expected_receipt_digest")))

----------------------------------------------------------------------------

Submit(t, point, c, code, slots) ==
    /\ thread[t] = Idle
    /\ thread' = [thread EXCEPT ![t] =
            IF code # "" THEN Refused
            ELSE [phase |-> "reserving", point |-> point, call |-> c, slots |-> slots, held |-> 0]]
    /\ UNCHANGED <<boundary, shared, used, allowed>>

SubmitPermit(t, c) == Submit(t, "boundary", c, PermitCode(c), PermitSlots(c))

HandleRetrieve(t, c) == boundary = "retrieval" /\ SubmitPermit(t, Prepared(boundary, c))
HandleEgress(t, c) == boundary = "egress" /\ SubmitPermit(t, Prepared(boundary, c))
HandleCheck(t, c) == boundary = "ext_authz" /\ SubmitPermit(t, Prepared(boundary, c))
Release(t, c) == boundary = "kms" /\ SubmitPermit(t, Prepared(boundary, c))

GatewayCommit(t, c) ==
    LET d == [c EXCEPT !.context = GatewayContext(@)]
    IN  Submit(t, "gateway", d, GatewayCode(d), GatewaySlots(d))

Held(t) ==
    IF thread[t].phase = "reserving"
    THEN {thread[t].slots[i] : i \in 1 .. thread[t].held} ELSE {}

(* Mutant: a slot is used up as soon as it is reserved. *)
ReserveConsumes(t) ==
    /\ thread[t].phase = "reserving" /\ thread[t].held < Len(thread[t].slots)
    /\ LET s == thread[t].slots[thread[t].held + 1]
           taken == s \in used \cup UNION {Held(u) : u \in Threads}
       IN /\ thread' = [thread EXCEPT ![t] = IF taken THEN Refused
                                                  ELSE [thread[t] EXCEPT !.held = @ + 1]]
          /\ used' = used \cup {s}
    /\ UNCHANGED <<boundary, shared, allowed>>

\* The next slot of the call, or a refusal that gives all of them back.
Reserve(t) ==
    /\ thread[t].phase = "reserving" /\ thread[t].held < Len(thread[t].slots)
    /\ LET s == thread[t].slots[thread[t].held + 1]
       IN thread' = [thread EXCEPT ![t] =
            IF s \in used \cup UNION {Held(u) : u \in Threads} THEN Refused
            ELSE [thread[t] EXCEPT !.held = @ + 1]]
    /\ UNCHANGED <<boundary, shared, used, allowed>>

\* The commits of a call are one step: what it holds is refused to others
\* before and after.
Commit(t) ==
    /\ thread[t].phase = "reserving" /\ thread[t].held = Len(thread[t].slots)
    /\ used' = used \cup Held(t)
    /\ thread' = [thread EXCEPT ![t].phase = "allowed"]
    /\ UNCHANGED <<boundary, shared, allowed>>

\* Only the retrieval adapter looks for a record, once the permit is used up.
HasEffect(point, c) ==
    point = "boundary" /\ boundary = "retrieval" => c.request.target_id \in Records

Serve(t) ==
    /\ thread[t].phase = "allowed"
    /\ LET th == thread[t]
           answer == [point |-> th.point, call |-> th.call, slots |-> th.slots,
                      served |-> HasEffect(th.point, th.call)]
       IN allowed' = allowed (+) SetToBag({answer})
    /\ thread' = [thread EXCEPT ![t] = Idle]
    /\ UNCHANGED <<boundary, shared, used>>

Return(t) ==
    /\ thread[t] = Refused
    /\ thread' = [thread EXCEPT ![t] = Idle]
    /\ UNCHANGED <<boundary, shared, used, allowed>>

Next ==
    \E t \in Threads :
        \/ \E c \in Inputs :
            \/ HandleRetrieve(t, c) \/ HandleEgress(t, c) \/ HandleCheck(t, c) \/ Release(t, c)
            \/ GatewayCommit(t, c)
        \/ Reserve(t) \/ Commit(t) \/ Serve(t) \/ Return(t)

Spec == Init /\ [][Next]_vars

----------------------------------------------------------------------------
(* The verdict of the ordered checks is that of the reference, at the      *)
(* boundary and at the gateway: no check hides another or depends on what  *)
(* is only checked later, and an optional field that is absent is neither  *)
(* taken for one that matches nor for one that does not                    *)
(* (_verify_permit_receipt_inner, MockEgressGateway.commit).  It does not  *)
(* depend on what has been used, and is compared before anything is.       *)
VerdictIsExact ==
    used = {} /\ (\A t \in Threads : thread[t] = Idle) =>
    \A c \in Inputs \cup Variants :
        /\ LET d == Prepared(boundary, c)
           IN (PermitCode(d) = "") <=> Permitted(d)
        /\ LET d == [c EXCEPT !.context = GatewayContext(@)]
           IN (GatewayCode(d) = "") <=>
                /\ RequestOk(d.request) /\ PolicyOk(d.policy) /\ ContextOk(d.context)
                /\ d.request.interface_id = GatewayId
                /\ "expected_receipt_digest" \in DOMAIN d.context
                /\ Entitled(d, d.context.expected_receipt_digest)

\* What no two permits, or capabilities, of an issuer may have in common.
Identity(issuer, core, tenant, interface) ==
    <<issuer, core.policy_digest, core.epoch_id, tenant, interface, core.nonce>>

\* The receipt an effect is due to.  A receipt that names a tenant is that tenant's.
PermitIdentity(c) ==
    Identity(c.receipt.issuer_id, c.receipt.core,
             GetOr(c.receipt.core, "tenant_id", c.request.tenant_id), c.request.interface_id)

\* The capability an allowed call was bound to, unless its caller keeps account
\* of capabilities itself, as one of the KMS gate may.
Capabilities(e) ==
    IF \/ e.point = "gateway"
       \/ NeedsCapability(e.call) /\ "capability_replay_cache" \in DOMAIN e.call.context
    THEN LET token == e.call.context.capability_token
         IN {Identity(token.issuer_id, token.core, token.core.tenant_id, token.core.audience)}
    ELSE {}

(* A permit has one effect, whatever is submitted at once: two effects at   *)
(* the boundary are due to different receipts, no two of one issuer with    *)
(* one nonce for one tenant and interface under one policy and epoch; and   *)
(* of capabilities that agree in these one serves, once at each point, and  *)
(* only at one if these share a cache (replay_domain, and the caches each   *)
(* handler puts into the context).                                          *)
EffectsAreSingleUse ==
    /\ \A e \in BagToSet(allowed) : allowed[e] = 1
    /\ \A e, f \in BagToSet(allowed) : e # f =>
         /\ {e.point, f.point} = {"boundary"} => PermitIdentity(e.call) # PermitIdentity(f.call)
         /\ e.point = f.point \/ shared => Capabilities(e) \cap Capabilities(f) = {}

(* What is used up was answered with ALLOW, or is about to be: no denial,   *)
(* early or after a reservation, costs the caller its permit.  And what was *)
(* allowed was served, but for a record the retrieval adapter does not have *)
(* (handle_retrieve consumes the permit before it looks).                   *)
UsedMeansServed ==
    LET pending == {t \in Threads : thread[t].phase = "allowed"}
        slots(s) == {s[i] : i \in DOMAIN s}
    IN /\ used = UNION ({slots(e.slots) : e \in BagToSet(allowed)}
                        \cup {slots(thread[t].slots) : t \in pending})
       /\ \A e \in BagToSet(allowed) :
            e.served \/ (boundary = "retrieval" /\ e.call.request.target_id \notin Records)

============================================================================
