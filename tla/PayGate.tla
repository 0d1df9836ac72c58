------------------------------ MODULE PayGate ------------------------------
(***************************************************************************)
(* The PayGate domain gate (paygate_poc): an authority issues permits,     *)
(* authorize_and_commit verifies one, marks it used, records the decision, *)
(* has a provider charge, and records the result.  The gate and the        *)
(* simulated providers keep what they have seen in memory; the ledger is   *)
(* on disk; permits and decision receipts stay with the callers.  A call   *)
(* is a sequence of steps between which time passes, a ledger write fails  *)
(* or the process dies.                                                    *)
(*                                                                         *)
(* Signatures hold: only permits the authority issued and decisions the    *)
(* gate minted occur.  One thread does one thing at a time; only the clock *)
(* goes on during a call.                                                  *)
(***************************************************************************)
EXTENDS Ledger

CONSTANTS
    Actions, Agent,         \* payment actions, and the tenant|agent of each
    WithinLimits,           \* actions within the amount and currency limits
    Providers, Trusted,     \* adapters, and those of an allowed class
    Serves,                 \* the actions whose merchant a provider supports
    Separated,              \* actions with a separator (Ledger) in their totals
    Policies, ActivePolicy, \* policies permits are issued under; the gate's
    MaxCounter, MaxPermits, MaxTime, MaxDirect,   \* bounds
    PermitTTL, TokenTTL

ASSUME PayGateAssumption == {MaxCounter, MaxTime, PermitTTL, TokenTTL} \subseteq Nat

Agents == {Agent[a] : a \in Actions}

VARIABLES
    now,        \* the clock, in TTL units
    permits,    \* issued permits
    revoked,    \* verifier.revoked_receipts
    used,       \* replay_store.used_receipt_ids (and used_nonces)
    highest,    \* replay_store.highest_counter_by_audience
    spent,      \* used_decision_ids of each provider
    call,       \* where the running call of authorize_and_commit is
    tokens,     \* decision receipts returned to callers
    charges,    \* what the providers have charged, in order
    life,       \* how often the process has been started before
    direct      \* direct calls of a provider so far

memory == <<used, highest, spent>>
vars == <<now, permits, revoked, used, highest, spent, call, tokens, charges,
          life, direct, ledgerVars>>

Idle == [at |-> "idle"]

(* receipt_id and nonce are digests of the same three values; a decision   *)
(* id is one of the permit, the adapter and the time of the decision.      *)
PermitId(p) == <<p.action, p.counter, p.issued>>
DecisionId(d) == <<d.permit, d.provider, d.issued>>

(* What the ledger gets: "PAYGATE_DECISION" records with digests of the    *)
(* permit and the action and with the adapter, not the decision's id, and  *)
(* "PROVIDER_COMMIT" records, the provider's result.  Only an AUTHORIZED   *)
(* one has text of the caller's, the totals.                               *)
Decided(d) ==
    [type |-> "decision", outcome |-> "ALLOW", of |-> <<d.permit, d.provider>>,
     splits |-> FALSE]

Denied == [type |-> "decision", outcome |-> "DENY", splits |-> FALSE]

(* Mutants: every commit is recorded as authorized; a refused one is       *)
(* recorded with the totals too.                                           *)
CommittedAnyway(d, codes) ==
    [type |-> "commit", authorized |-> TRUE, id |-> DecisionId(d),
     splits |-> d.permit.action \in Separated]

CommittedInFull(d, codes) ==
    IF codes = {} THEN CommittedAnyway(d, codes)
    ELSE [type |-> "commit", authorized |-> FALSE, splits |-> d.permit.action \in Separated]

(* A refused one has the codes and the adapter, and nothing of the permit. *)
Committed(d, codes) ==
    IF codes = {}
    THEN [type |-> "commit", authorized |-> TRUE, id |-> DecisionId(d),
          splits |-> d.permit.action \in Separated]
    ELSE [type |-> "commit", authorized |-> FALSE, splits |-> FALSE]

Init ==
    /\ LedgerInit
    /\ now = 0 /\ permits = {} /\ revoked = {}
    /\ used = {} /\ highest = [g \in Agents |-> 0]
    /\ spent = [v \in Providers |-> {}]
    /\ call = Idle /\ tokens = {} /\ charges = <<>> /\ life = 0 /\ direct = 0

----------------------------------------------------------------------------
(* The world around the gate *)

Tick ==
    /\ now < MaxTime
    /\ now' = now + 1
    /\ UNCHANGED <<permits, revoked, memory, call, tokens, charges, life, direct, ledgerVars>>

Issue(a, counter, policy) ==
    /\ call = Idle /\ Cardinality(permits) < MaxPermits
    /\ permits' = permits \cup
           {[action |-> a, counter |-> counter, issued |-> now, policy |-> policy]}
    /\ UNCHANGED <<now, revoked, memory, call, tokens, charges, life, direct, ledgerVars>>

Revoke(p) ==
    /\ up /\ call = Idle
    /\ revoked' = revoked \cup {PermitId(p)}
    /\ UNCHANGED <<now, permits, memory, call, tokens, charges, life, direct, ledgerVars>>

----------------------------------------------------------------------------
(* verify_precommit: every check is made, then the replay store is asked   *)

(* Mutants: no check of the validity window; none of the merchant. *)
PermitFailsAnyMerchant(p, a, v, sensed) ==
    \/ PermitId(p) \in revoked
    \/ p.policy # ActivePolicy
    \/ p.issued > now \/ p.issued + PermitTTL < now
    \/ p.action # a \/ a \notin WithinLimits
    \/ v \notin Trusted
    \/ ~sensed

PermitFailsTimeless(p, a, v, sensed) ==
    \/ PermitId(p) \in revoked
    \/ p.policy # ActivePolicy
    \/ p.action # a \/ a \notin WithinLimits
    \/ v \notin Trusted \/ a \notin Serves[v]
    \/ ~sensed

PermitFails(p, a, v, sensed) ==
    \/ PermitId(p) \in revoked
    \/ p.policy # ActivePolicy
    \/ p.issued > now \/ p.issued + PermitTTL < now
    \/ p.action # a \/ a \notin WithinLimits
    \/ v \notin Trusted \/ a \notin Serves[v]
    \/ ~sensed

Replayed(p) ==
    PermitId(p) \in used \/ p.counter <= highest[Agent[p.action]]

Verify(p, a, v, sensed) ==
    /\ up /\ call = Idle
    /\ IF PermitFails(p, a, v, sensed) \/ Replayed(p)
       THEN call' = [at |-> "denied"] /\ UNCHANGED <<used, highest>>
       ELSE /\ used' = used \cup {PermitId(p)}
            /\ highest' = [highest EXCEPT ![Agent[p.action]] = p.counter]
            /\ call' = [at |-> "allowed",
                        decision |-> [permit |-> p, provider |-> v, issued |-> now, life |-> life]]
    /\ UNCHANGED <<now, permits, revoked, spent, tokens, charges, life, direct, ledgerVars>>

----------------------------------------------------------------------------
(* provider.commit *)

Refusals == {"BINDING", "ACTION", "EXPIRED", "REPLAY", "MERCHANT"}

ProviderCodes(d, a, v) ==
    {c \in Refusals :
        \/ c = "BINDING" /\ d.provider # v
        \/ c = "ACTION" /\ d.permit.action # a
        \/ c = "EXPIRED" /\ d.issued + TokenTTL < now
        \/ c = "REPLAY" /\ DecisionId(d) \in spent[v]
        \/ c = "MERCHANT" /\ a \notin Serves[v]}

(* Mutant: a decision is not remembered. *)
ChargeForgetful(d, a, v) ==
    /\ charges' = IF ProviderCodes(d, a, v) = {}
                  THEN Append(charges, [decision |-> d, action |-> a, provider |-> v,
                                        charged |-> now, life |-> life, gated |-> call # Idle])
                  ELSE charges
    /\ UNCHANGED spent

Charge(d, a, v) ==
    IF ProviderCodes(d, a, v) = {}
    THEN /\ spent' = [spent EXCEPT ![v] = @ \cup {DecisionId(d)}]
         /\ charges' = Append(charges, [decision |-> d, action |-> a, provider |-> v,
                                        charged |-> now, life |-> life, gated |-> call # Idle])
    ELSE UNCHANGED <<spent, charges>>

----------------------------------------------------------------------------
(* authorize_and_commit after the verification *)

(* The record that the call writes next, and where it goes once written. *)
Pending ==
    CASE call.at = "denied" -> Denied
      [] call.at = "allowed" -> Decided(call.decision)
      [] call.at = "answered" -> Committed(call.decision, call.codes)

Writing == call.at \in {"denied", "allowed", "answered"}

(* Mutant: the provider is asked before the decision is recorded. *)
CommitEarly ==
    /\ up /\ call.at = "allowed"
    /\ Charge(call.decision, call.decision.permit.action, call.decision.provider)
    /\ call' = [at |-> "answered", decision |-> call.decision,
                codes |-> ProviderCodes(call.decision, call.decision.permit.action,
                                        call.decision.provider)]
    /\ UNCHANGED <<now, permits, revoked, used, highest, tokens, life, direct, ledgerVars>>

Commit ==
    /\ up /\ call.at = "recorded"
    /\ Charge(call.decision, call.decision.permit.action, call.decision.provider)
    /\ call' = [at |-> "answered", decision |-> call.decision,
                codes |-> ProviderCodes(call.decision, call.decision.permit.action,
                                        call.decision.provider)]
    /\ UNCHANGED <<now, permits, revoked, used, highest, tokens, life, direct, ledgerVars>>

(* The write succeeds: on to the provider, or back to the caller, who gets *)
(* the decision receipt whatever the provider said.                        *)
Record ==
    /\ Writing /\ Log(Pending)
    /\ call' = IF call.at = "allowed" THEN [call EXCEPT !.at = "recorded"] ELSE Idle
    /\ tokens' = IF call.at = "answered" THEN tokens \cup {call.decision} ELSE tokens
    /\ UNCHANGED <<now, permits, revoked, memory, charges, life, direct>>

(* It raises: so does the call, and its caller gets nothing. *)
RecordRaises(how) ==
    /\ Writing /\ LogRaises(Pending, how)
    /\ call' = Idle
    /\ UNCHANGED <<now, permits, revoked, memory, tokens, charges, life, direct>>

(* A caller takes its decision receipt to a provider itself, with the      *)
(* action it was for or with another.                                      *)
Present(d, a, v) ==
    /\ up /\ call = Idle /\ direct < MaxDirect
    /\ direct' = direct + 1
    /\ Charge(d, a, v)
    /\ UNCHANGED <<now, permits, revoked, used, highest, call, tokens, life, ledgerVars>>

----------------------------------------------------------------------------
(* A stop of the process, and the start of the next one *)

Stop ==
    /\ Die \/ (Writing /\ \E how \in Cuts : DieLogging(Pending, how))
    /\ call' = Idle
    /\ UNCHANGED <<now, permits, revoked, memory, tokens, charges, life, direct>>

Restart ==
    /\ Reopen
    /\ used' = {} /\ highest' = [g \in Agents |-> 0]
    /\ spent' = [v \in Providers |-> {}]
    /\ revoked' = {}
    /\ life' = life + 1
    /\ UNCHANGED <<now, permits, call, tokens, charges, direct>>

Next ==
    \/ Tick
    \/ \E a \in Actions, n \in 1 .. MaxCounter, q \in Policies : Issue(a, n, q)
    \/ \E p \in permits : Revoke(p)
    \/ \E p \in permits, a \in Actions, v \in Providers, s \in BOOLEAN : Verify(p, a, v, s)
    \/ Record \/ (\E how \in Cuts : RecordRaises(how)) \/ Commit
    \/ \E d \in tokens, a \in Actions, v \in Providers : Present(d, a, v)
    \/ Stop \/ Restart

Spec == Init /\ [][Next]_vars

----------------------------------------------------------------------------

Permit ==
    [action : Actions, counter : 1 .. MaxCounter, issued : Nat, policy : Policies]
Decision == [permit : Permit, provider : Providers, issued : Nat, life : Nat]
Charges ==
    [decision : Decision, action : Actions, provider : Providers, charged : Nat,
     life : Nat, gated : BOOLEAN]

TypeOK ==
    /\ now \in Nat /\ life \in Nat
    /\ permits \subseteq Permit
    /\ highest \in [Agents -> Nat]
    /\ spent \in [Providers -> SUBSET (Permit \X Providers \X Nat)]
    /\ \/ call = Idle
       \/ call = [at |-> "denied"]
       \/ call \in [at : {"allowed", "recorded"}, decision : Decision]
       \/ call \in [at : {"answered"}, decision : Decision, codes : SUBSET Refusals]
    /\ tokens \subseteq Decision
    /\ charges \in Seq(Charges)

(* One charge for one counter of one agent, on whatever adapter and        *)
(* however often permits and decision receipts are presented, unless a     *)
(* restart has emptied the stores in between.                              *)
OneChargePerCounter ==
    \A i, j \in DOMAIN charges :
        LET c == charges[i]  e == charges[j] IN
        /\ i < j
        /\ Agent[c.action] = Agent[e.action]
        /\ c.decision.permit.counter = e.decision.permit.counter
        => c.life # e.life \/ c.decision.life # e.decision.life

(* What is charged is what was permitted: the action of the permit, at the *)
(* adapter of the decision, which the active policy allows, and not later  *)
(* than the decision's lifetime after the end of the permit's.             *)
ChargesArePermitted ==
    \A i \in DOMAIN charges :
        LET c == charges[i]  p == c.decision.permit IN
        /\ c.action = p.action /\ c.action \in WithinLimits
        /\ c.provider = c.decision.provider /\ c.provider \in Trusted
        /\ p.policy = ActivePolicy
        /\ p.issued <= c.charged /\ c.charged <= p.issued + PermitTTL + TokenTTL

(* As long as no line was cut, no charge without an ALLOW for its permit   *)
(* and adapter in the ledger file first.                                   *)
AuditedBeforeCharged ==
    Whole => \A i \in DOMAIN charges : \E k \in DOMAIN lines :
        lines[k].what = Decided(charges[i].decision)

(* The gate has charged a permit with this id, in this life. *)
Paid(x) ==
    \E i \in DOMAIN charges :
        /\ charges[i].gated /\ charges[i].life = life
        /\ PermitId(charges[i].decision.permit) = x

AllowsPermit(w, x) ==
    w.type = "decision" /\ w.outcome = "ALLOW" /\ PermitId(w.of[1]) = x

(* The last ALLOW of a permit is followed, as the next record, by what     *)
(* became of it: a refused commit does not name its permit, so that only   *)
(* its place says whose it is.                                             *)
Accounted(x) ==
    \E k \in DOMAIN records :
        /\ AllowsPermit(records[k].what, x)
        /\ \A j \in DOMAIN records : j > k => ~AllowsPermit(records[j].what, x)
        /\ k + 1 \in DOMAIN records
        /\ records[k + 1].what.type = "commit"
        /\ records[k + 1].what.authorized <=> Paid(x)

(* Between calls, unless a write has raised, every permit the store holds  *)
(* is accounted for in this way: the ledger tells a permit that paid from  *)
(* one that was used up and refused.                                       *)
EveryUseIsRecorded ==
    up /\ call = Idle /\ ~behind =>
        \A p \in permits : PermitId(p) \in used => Accounted(PermitId(p))

(* A file without a cut line that no process can open again holds the      *)
(* record of a payment with a separator in its totals, and the gate made   *)
(* that payment: one that was refused never gets there.                    *)
UnreadableByPayment ==
    Whole /\ ~Readable =>
        \E i \in DOMAIN charges : charges[i].gated /\ charges[i].action \in Separated

(* The provider refuses what the gate has just allowed only if the call    *)
(* took longer than the decision lives, or it has charged that very        *)
(* decision already.                                                       *)
AllowIsHonoured ==
    call.at = "answered" /\ call.codes # {} =>
        \/ call.codes = {"EXPIRED"}
        \/ \E i \in DOMAIN charges :
               DecisionId(charges[i].decision) = DecisionId(call.decision)
============================================================================
