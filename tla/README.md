# Verification of permit-receipt

TLA+ models, TLC configurations and TLAPS proofs for the core of this repository:
the receipt verifier `orprg_eval` with its checks, revocation evidence, replay stores,
signature caches and the boundaries that enforce its verdict; the payment gate
`paygate_poc` with its ledger; the evaluation vectors and what they expect; and the
tooling that makes and checks a release. Paths below are relative to `src/`.

- [The system](#the-system)
- [Modules](#modules)
- [Runs](#runs)
- [Fairness](#fairness)
- [Proofs](#proofs)
- [Where code and documentation disagree](#where-code-and-documentation-disagree)
- [What is not modelled](#what-is-not-modelled)
- [Plan](#plan)

## The system

A caller who wants an effect (release a key, return a record, charge a wallet)
presents a *permit receipt*: a signed statement by a trusted issuer that one request,
under one policy, in one epoch, is allowed during some window, once. The verifier
answers ALLOW or DENY with a code. Everything that may go wrong is a denial. The
verifier is stateless but for two things it is handed: replay stores, which it
changes, and revocation evidence, which it only reads.

| Part | State it keeps | Operations | Correct when |
|---|---|---|---|
| Replay stores: `orprg_eval/replay.py` (`ReplayCache`, `MutableNonceListReplayCache`), `persistent_replay.py` (`SQLiteReplayCache`) | nonces used up; nonces reserved, each under a random token | reserve, commit, release, check_and_mark; opening and upgrading the database file | a nonce is accepted once, across threads, processes, crashes and schema versions; a reservation is neither stolen nor leaked |
| Verifier, anti-replay transaction: `verifier.py` 374-474, 749-814 | reservation objects of the running call | reserve each nonce, commit each, release on failure, answer | an ALLOW has used up all its nonces and shares none; a denial costs nothing, or what the code says it costs |
| Verifier, time and revocation: `verifier.py` 235-333, 571-580, 673-748 | none (evidence is handed in) | drift, window, status, signed list, Merkle checkpoint | a revocation cannot be overlooked for longer than the policy accepts |
| Verifier, the other checks: `verifier.py` 200-232, 335-397, 477-671 | none | about thirty ordered comparisons of request, receipt, policy, context | an ALLOW passed every one; the first failing one gives the code |
| Merkle revocation set: `merkle.py` | none (proofs, roots) | build and verify inclusion and non-inclusion proofs | proofs of true statements verify; of false ones, only those that cut the log off (a finding) |
| Schema validation: `schema.py` | none | type and range checks of every input | nothing malformed gets further |
| Canonicalization, strict JSON: `canonicalization.py`, `jsonio.py` | none | normalise a request before hashing | equal requests hash alike, different ones do not |
| Signatures and caches: `crypto.py` | two bounded LRU caches under a lock | verify, look up, evict | a cached answer is the answer |
| Gateways: `gateway.py`, `retrieval_gateway_adapter.py` | an audit list; a replay cache | commit an effect under a capability; serve a record | no effect without a verified, unused permit |
| HTTP ingress and demos: `httpio.py`, `egress_gateway_demo.py`, `ext_authz_adapter_demo.py`, `kms_key_release_demo.py` | a server's caches | one handler per request, in threads | as the gateways |
| PayGate: `paygate_poc/verifier.py`, `paygate.py`, `providers.py`, `authority.py` | used receipts and nonces, highest counter, revoked receipts, used decisions of each provider: all in memory | issue, verify_precommit, authorize_and_commit, provider commit | one charge per permit and counter, only what was permitted, none without a record |
| PayGate ledger: `paygate_poc/ledger.py` | hash-chained records, in memory and in a file | append, reload, verify_chain | what was acknowledged stays in the file, and the chain verifies whenever the file can be read back and lacks nothing |
| Hybrid: `paygate_hybrid/` | none: each scenario makes a replay cache and a PayGate of its own | verify an ORPRG permit, then ask PayGate; the scenario that is allowed builds a TETpay | (not modelled) |
| Vectors: `orprg_eval/vector_factory.py`, `run_vectors.py`, `paygate_ref/reference.py` | the vectors with their contexts; a published file | build, verify one after the other, publish | each vector gets the code it states |
| Release tooling: `tools/`, `make_manifest.py`, `verify_manifest.py` | reports, attestation, SBOM, source inventory, manifest, four assets | generate, check, build, verify, each program in a script | an accepted archive is one tree, and that of the commit it names |
| Review packet, demos, fuzzers, benchmarks | files | sequential scripts | |

How they interact. `verify_permit_receipt` runs its comparisons, reads revocation
evidence (`merkle.py`, `crypto.py`), and ends in the transaction over one or two
stores. Several threads share a store object; several processes share a SQLite
file. `gateway.py` consumes a capability on its own (`verify_capability_token`)
and can share the store with the verifier. `PayGate.authorize_and_commit` calls its
verifier, its replay store, the ledger, a provider, and the ledger again; the
decision receipt it returns can be taken to a provider later by anyone who has it.
In the hybrid `verify_permit_receipt` comes first, and neither gate knows of the other.
All signature checks of a process go through two shared caches. The release programs
share nothing but files: each reads what earlier ones have left in the tree.

What is hard, and shapes the models:

- *Threads and processes*: two submissions of one permit, one capability with two
  receipts, a check made before a lock and used after it.
- *Partial failure*: two commits that are not one; a `release` that raises; a ledger
  write that raises after the list was extended.
- *Crashes*: between reserve and commit, between two `ALTER TABLE`s, between an
  audit record and a charge.
- *Staleness*: lists, checkpoints, proofs and decisions that are old but accepted;
  clocks that drift, ages cut to whole seconds.
- *Shared caches*: a lookup and an insertion are two lock regions, with evictions by
  others between them.
- *Files*: a build reads every file twice while the tree may change; a script stops at
  any program.
- *Boundaries*: odd ends of Merkle trees, windows inclusive at both ends, counters
  that must increase.

`PROJECT.json` lists each of these hazards at the line where it bites, with the
properties that would notice.

## Modules

| Module | Models | How |
|---|---|---|
| `SingleUse` | what a store promises | a call takes a set of one-time objects, uses them up, and may be allowed once it has them all |
| `ReplayTransaction` | `verifier.py`'s transaction over `replay.py` and `persistent_replay.py` | one action per outcome of each store method; the reserving loop of `_verify_permit_receipt_inner`, those of `_commit_all` and `_release_all`, and `__del__` are the phases of `pc`, their counters `idx` |
| `ReplayRefinement` | | maps the transaction to `SingleUse` |
| `DurableReplay` | processes, crashes and restarts over one SQLite file | composes `ReplayTransaction` with a `Crash` that clears the memory of a process and stops its calls |
| `SchemaUpgrade` | `SQLiteReplayCache._init` | one action per SQL statement, each its own transaction, next to users of the file and a v2.2.5 process |
| `Ledger` | `paygate_poc/ledger.py` | append, a write that stops at any of three places, crash, reload |
| `PayGate` | `paygate_poc/{paygate,verifier,providers,authority}.py` | extends `Ledger`; authorize_and_commit is a sequence of steps |
| `MerkleSet` | `merkle.py` | pure operators: trees, audit paths, proofs and both verifiers |
| `MerkleLog` | | a log that grows, with proofs and checkpoints given out on the way |
| `RevocationCheck` | time and revocation in `verifier.py` | pure operators: drift, validity, status, constrained mode, list, copy and proofs, with their codes |
| `Revocation` | | publications over time, and any call with any evidence a caller could hold |
| `Schema` | `schema.py` | a JSON object is a function from its fields; which fields, and which values together, are accepted |
| `Verifier` | the other checks of `verifier.py` | each group of checks is a table of conditions and codes in the order of the code; a reference says without order what an ALLOW means |
| `Enforcement` | `retrieval_gateway_adapter.py`, `gateway.py`, `egress_gateway_demo.py`, `ext_authz_adapter_demo.py`, `kms_key_release_demo.py` | extends `Verifier`; one action per handler, which runs in a thread; the transaction over in-memory caches in short |
| `CryptoCache` | `crypto.py` | one action per lock region, in threads |
| `Vectors` | `vector_factory.py`, the requests, policy, permits and scenarios of `paygate_ref/reference.py` | each vector as what it changes and expects, a call of `Verifier` |
| `Conformance` | `run_vectors.py` | composes `Vectors`, `Verifier`, `RevocationCheck` and `CryptoCache`: a loop, a published file, a reader |
| `Release` | `tools/`, `make_manifest.py`, `verify_manifest.py` | programs over a tree; the build one read or write of a file at a time |
| `*Proofs` | | theorems |
| `MC*` | | instances for TLC |

### The replay transaction

`seen` and `reserved` stand for what each kind of store keeps: `_seen` and
`_reserved`; the wrapped list and its entry in the registry; rows with
`committed=1` and `committed=0` and their `reservation_id`. The kinds differ in
the *slot* a nonce occupies (a list is keyed by the raw nonce, the other stores by
domain and nonce), in whether somebody else may write (a list can be appended to at
any moment), and in whether a method can raise (SQLite). Each method is one
step: it runs under the store's lock or inside one `BEGIN IMMEDIATE`. Between
methods anything may happen. A method that raises has changed nothing: the
exception handlers roll the transaction back. `res` is the Python reservation object, with what its
`_closed` and `_committed` flags say; an object whose last release raised is
`"lost"`. `Plan` gives each call its replay specs in order, as
`_verify_permit_receipt_inner` builds them; `Standalone` calls are
`verify_capability_token`, which drops its reservation instead of releasing it.

### Crashes

`DurableReplay` keeps the actions of the transaction and adds `Crash(p)`. Calls of
`p` that were running are `dead`: neither `release()` nor `__del__` runs.
Nothing in the code removes a row with `committed=0`, so neither does the model.

### Schema upgrade

A file of version 2.2.5 has bare rows. `CREATE TABLE IF NOT EXISTS`, `PRAGMA
table_info`, up to two `ALTER TABLE ... ADD COLUMN` and `CREATE INDEX IF NOT
EXISTS` are separate steps; an `ALTER TABLE` for a column that another opener added
meanwhile fails, and the constructor raises. The v2.2.5 process is external, known
from `persistent_replay.py`'s documentation and from the table it leaves.

### Ledger and PayGate

`append` extends the list, then writes the file. A write stops before the first
byte, inside the line, or before its newline; the next process reads what is
there or refuses to start. What refuses is `json.loads`, on a line that was cut or that
`splitlines()` has made two of: line 36 writes U+0085, U+2028 and U+2029 as they are
(`ensure_ascii=False`), and line 17 takes each for the end of a line. Of the text in a
record the model keeps whether it has such a character (`splits`). The totals of a
charged payment are the only text of a caller that gets there, and `Separated` are the
actions whose totals have one. `gap` is a history variable: a line was written while the
file lacked the record before it, because the write of that one had raised and the list
had kept it.

`PayGate` has the steps of `authorize_and_commit` in the order of the code: verify,
mark used, record the decision, commit at the provider, record the result. At each step
time may pass, the write may raise, or the process may stop; afterwards the memory of
gate and providers is empty and the ledger is whatever the file holds. The record of a
refused commit has codes and adapter and does not name its permit. `Present` is a
caller who takes a decision receipt to a provider without the gate, with the action it
was for or with another.

### Merkle proofs and revocation

Hashes are terms, hence injective; a proof is what the code puts in one, with both
copies of `tree_size`. The verifiers are asked not only about what the builders make:
`InclusionSound` takes any proof given out so far with any index and size written on
it, `NonInclusionSound` any two of them, of whatever age, as neighbours of any key, with any
size in the outer proof. A tree is given as a function from levels, so that `MerkleProofs` can speak about every
height. `RevocationCheck`
has of a proof which root it is for and whether its holder tries to cut the log off
(`cut`): this shows a revoked key as absent exactly if some entry comes before it
(`CutOff`, with `Place` for the order of keys), as `NonInclusionSound` has it.
`Revocation` asks what the accepted ages amount to. Time is in half-seconds because the code cuts ages to
whole seconds with `int()`, towards zero; the reported drift is the true one.

### Checks and boundaries

`PermitCode` runs the tables of `Verifier` one after the other, as
`_verify_permit_receipt_inner` runs its `if`s: what a later table reads, an earlier
one has shown to be there. A digest is what it is taken of, and "signed" says whether
the signature is that issuer's. `Permitted` and `Entitled` state the same without
order, codes or helpers. `WellTyped` says which values an input is made of: present or
absent, `Bad`, `Uncanonical`, or of the type its field has; it says nothing about which
fields there are. `InputsAssumption` requires it of every call, and TLC evaluates it for
those of the run. Two receipts are the same permit when issuer, policy, epoch, tenant,
interface and nonce agree (`PermitIdentity`): this is what `replay_domain` and the nonce
make of them, and a receipt without a tenant takes that of the request. The boundaries differ in what they do to the context: over
HTTP replay state of the caller is removed and that of the server put in; the KMS
gate puts in a receipt cache only and takes attestation to be required; the
gateway's caller brings a capability cache, that of the boundary (`shared`) or one of
its own. `Reserve`, `Commit` and the refusal that gives everything back are the
transaction of `ReplayTransaction` for stores that do not raise, where each slot in
hand is refused to everybody else. `Serve` is the effect: the retrieval adapter looks
for the record only now.

### Signature caches and vectors

`verify_signature` holds the lock for a lookup or an insertion. A call of `CryptoCache`
is `lookup`, `key`, `parsed`, `remember`, `answered`; between two of these any other
thread may move, and the entry just found missing, or just inserted, may come or go. A
cache is a sequence, the least recently used entry first. A check is what it amounts
to: a key, an object and a signature.

`Vectors` gives each call of `build_vectors` as what it changes in the defaults of
`_v`. Its codes are what the source states, the verifier of the model is `Verifier`
with the code of `RevocationCheck` for the evidence. `Conformance` runs them: a context
is shared with the vector, so an ALLOW records its nonces there, and `run_vectors.py`
writes the vectors afterwards. What a reader of that file is told is the second round.

### Release

A digest is what it is taken of, a version is a number, and an edit makes a new one.
Each program is one action, but `generate_supply_chain_metadata` (three files, of which
the second needs reports) and `build_release_asset` (each file read for its digest and
again for the archive, then four files written). A script is an order of programs from
the Makefile, the workflow or the publishing protocol, and ends with the first that
fails or when it is killed. Which orders there are is a constant; `Orderly` says what
they have in common: what changes vectors or metadata is followed by the gate and the
manifest's verifier, and the last two programs are a build and its check. `torn` is a
history variable: the lock file was edited after the SBOM was made from it and before
the attestation was. `instant` is the tree between the two passes of the build:
that such an instant exists is what the comparison of entries and archive amounts to.

## Runs

| Run | Question | Bounds, and why they suffice |
|---|---|---|
| `replay_list` (89,106 states) | Do allowed calls share a nonce, does somebody win, is every behaviour one of `SingleUse`? | List, memory and SQLite store in the plans of three calls; receipts of two issuers with one nonce collide in the list; others append to it; every SQLite method may raise at each use |
| `replay_burn` | Finding: a denied call with a used-up nonce | One call is enough |
| `durable_crash` (207,304) | Which reservation is on record, what leaks, what is burnt, what do refusals cost, do answers survive, which nonces are locked for good, does every call end? | Two processes, three calls over one file and a memory store, each SQLite method may raise; two crashes: both crash, or one crashes twice, so that a restarted process is crashed again |
| `schema_upgrade` | Does anybody work on half an upgrade, is a use forgotten, does everybody get in? | Three openers, two nonces, absent or old file, one failure at any statement; an opener that loses the race while a third has not started |
| `paygate` (747,100) | One charge per counter, only what is permitted, audited first; is every used permit on record; does the file verify, is what was acknowledged still there, what makes the file unreadable? | `PayGate` over `Ledger`. Three actions of one agent (one the trusted provider serves, one it does not, one with a separator in its totals), two permits under current or superseded policy, two counters, a trusted and a rogue provider, four records, one fault with each kind of cut. Two instants and lifetimes of zero: in time and too late, at the gate and at the provider. Two permits per counter and a restart between any two steps occur |
| `revocation` (4,216,782) | How long can a revocation be overlooked, can one be made up? | Two receipts of one issuer; issuer and receipts have different places in the log, so that each entry is behind none, one or two others; seven half-seconds with accepted ages of 0 and 1 seconds and clocks that are slow, right and too fast: each bound is reached and passed within `MaxTime`. Three publications: a proof kept from before a revocation, the revocation, and a checkpoint that is fresh |
| `merkle_log` (23,202) | Are proofs complete, and what can an accepted one say that is not true? | Up to five keys: every shape with an odd end on some level, first, last and inner gaps; two proofs, as a proof of absence has two; every size the log may have |
| `merkle_size` | Finding: a committed key is shown as absent | As above |
| `enforcement` (308,856) | Is each verdict the right one, does a permit have one effect, what does a denial cost? | Some 2,300 calls, each one or two fields away from a permitted one, so that each check refuses some and passes others, at each kind of boundary and at the gateway. Then two threads with six permits and two refusals: a nonce shared by two issuers, two policies, two interfaces and two receipts, a capability nonce in two tokens, a capability for two receipts, an unknown record |
| `conformance` (23,302) | Does each vector get its code, also with shared caches, and what does a reader of the published file get? | All 76 vectors and the five scenarios, which call the verifier six times. A key cache of one and a signature cache of two: a second insertion evicts. The other thread checks the first vector's receipt, genuine and forged, a signature that is none, and a key that is no key |
| `release` (2,264,450) | Is what the verifier accepts one tree, is a bound archive the commit, are the files of a script that passed consistent? | Three scripts, one kill, and three pieces of work, each an edit or a script: two edits around one script (one to break the tests, one more during the build), or an edit between, before or in two scripts, of which the second finds what the first has left |
| `release_clean` | Finding: the certified gate fails in a clean checkout | Two scripts: the second finds what the first has left |

Every property of a passing run has a mutant in `PROJECT.json`: a plausible mistake
in the code (a dropped check, a commit that does not record, a restart that keeps
memory) under which that very run finds the property violated.

Deadlock is not checked: each model ends when all calls have answered or a bound
(`MaxRecords`, `MaxFaults`, `MaxCrashes`, `MaxFailures`, `MaxPermits`,
`MaxCounter`, `MaxTime`, `MaxDirect`, `MaxPublished`, `MaxProofs`, `MaxWork` of edits
and scripts together, `MaxKills`) is reached. `EveryCallEnds` and `EveryoneOpens` say that
nothing stops early.

### What some of the properties say

- `AllowIsExclusive`: an ALLOW has committed each of its nonces, and no other
  ALLOW presented one of them.
- `TokenDiscipline`: a live reservation object is the one on record. A `commit`
  whose token is gone answers whether *anybody* has used the nonce, so single use
  depends on this.
- `SomebodyWins`: calls that reserve each other's nonces do not all refuse each
  other: once all are answered, and none was told of a failing store, something is
  used up. It holds because receipts come before capabilities in every plan.
- `BurnIsProperPrefix`: what a denial consumes is a proper prefix of its nonces.
- `OrphansAreForever`: a reservation whose call died in a crash is never given to
  anybody. This describes the code; it is the price of not clearing rows.
- `EveryUseIsRecorded`: between calls, unless a write has raised, the last ALLOW for a
  permit that is used up has the outcome of its commit as the next record, which says
  AUTHORIZED exactly if the provider charged. The record of a refused commit does not
  name a permit: only its place says whose it is, so nothing may come between.
- `FileVerifies`: a file that can be read back verifies, unless a line was written
  behind a record the file lacks; and then it never verifies again. A write that raises
  and leaves nothing is enough: `append` keeps the envelope in the list, and the next one
  is chained to it.
- `UnreadableByPayment`: without a cut line, a file no process can open holds a payment
  the gate made, with a separator in its totals. Refusals cannot do it: their records
  have no text of a caller.
- `ExposureIsBounded`: a revocation published longer ago than the accepted age, a
  cut-off second and the drift is not overlooked, except by policies that do without
  signed lists or in a declared partition.
- `VerdictIsExact`: the ordered checks amount to the reference: none hides another,
  none reads what is not there, and an absent optional field is what the reference
  takes it for.
- `UsedMeansServed`: what is used up was answered with ALLOW, and what was allowed
  was served, but for a record the retrieval adapter does not have: there the permit
  is used up and the answer is 404.
- `NonInclusionSound`: a committed key is shown as absent in one way only: the proof of
  an entry before it passes for that of the last one, by the size in the outer proof.
- `CheckpointsBoundExposure`: with Merkle proofs a revocation is overlooked no longer
  than a checkpoint may be old, whatever proofs a caller has kept, unless a proof cuts
  the log off in this way, behind an entry that is of somebody else. A policy that
  requires signed lists as well is still bound by their age (`ExposureIsBounded`).
- `PublishedVectorsReplay`: a vector published as ALLOW is denied when verified again,
  for the nonces its first verification has left in it.
- `AcceptedIsOneInstant`: `Release`'s verifier accepts only the files of one instant,
  of the build that ran last in that directory.
- `PassedIsConsistent`: an undisturbed script that passes leaves an archive whose
  attestation, SBOM and manifest are about the files next to them. The SBOM is about
  the lock file unless that was edited between the two (`torn`): no program compares
  them, so an SBOM that is one edit behind its lock file passes every gate of every
  later script that does not generate it anew.

## Fairness

- `DurableFairSpec`: weak fairness of each
  call's steps. A call is a thread that keeps running. No store method waits for
  another call: a lock is held for one step only, and a busy SQLite file raises
  after 30 seconds (`timeout=30.0`), which is itself an outcome of the step.
- Crashes and failures have no fairness: they need not happen.
- `FairSpec` of `SchemaUpgrade`: weak fairness of each opener, including starting
  again after its constructor has raised or its process has stopped. That an
  operator or supervisor restarts it is an assumption; the code does not retry.

## Proofs

Every theorem is for all values of the constants, under the named assumptions of the
modules. Each module of proofs follows one pattern: an inductive invariant that says
why the properties hold, `Init` establishes it, one lemma per action or group of
actions preserves it, the properties follow by `PTL`. What TLC has confirmed first
is each invariant on the instances of the runs. Every safety invariant of a passing run
is stated by a theorem.

### The transaction

`ReplayProofs` holds for any calls, plans, stores and nonces, any set of stores that
are lists and any set whose methods raise, under `PlanAssumption` (plans are
non-empty sequences of replay specs and `NoToken` is not a token).

None of the safety properties is inductive: whether an object is committed depends
on where its call is. The invariant `IInv` adds

- `LoopShape`: at each point of a call's loops, which reservation objects exist and
  in which state;
- `CodeShape`: the answer fits the loop the call is in;
- `TokenDiscipline`, `CommittedIsSeen`, `ReservedIsFresh`: how the objects relate to
  the store (a slot reserved outside a list is not used up; in a list somebody may
  have appended it);
- `SoleConsumer`: no slot is committed by two objects.

`Init => IInv`, then one step per action of `Next`; consequences follow by `PTL`.

What a denial costs needs two more facts, each inductive on top of `IInv`:
`CommittedInOrder` and `LastIsSpared` for the proper prefix, `RefusedIsFree` for
refusals. Where a list is involved a refused commit may follow a successful one,
which is why the last is stated without lists.

That not everybody loses (`SomebodyWins`) does not hold for any plans: two calls that
reserve each other's nonces in opposite order both give up. `SomebodyAlwaysWins` needs an order of
slots that every plan follows (`Ranks`). While nothing is used up and no store has
failed, ahead of each call that was refused there is one that holds a later slot than the
refused call ever held and still has no code (`SomebodyAhead`): whoever refused it, or
whoever refused that one. Ranks rise along this chain, so it ends with a call that is
not answered. `ReceiptsFirstSomebodyWins` says that the plans of the code have such
an order, receipts before capabilities, as long as no slot is the receipt's in one pair
and the capability's in another. The two caches have domains of their own; for
lists, a caller would have to pass one list for both.

### Crashes on disk

The third part of `ReplayProofs`, about `DurableReplay`: any processes, memories, faults and number of crashes. A crash breaks
`IInv` in two places: a call that has died is in the middle of a loop with no active
reservation, and a nonce of a memory store may be committed again after a restart.
`DurableInv` therefore speaks of the loops of calls that live (`LivingLoops`), of the
dead as without answer and objects (`DeadAreStill`), of every record as held by an
active object or by one that can no longer be released (`RecordsHaveHolders`), and of
commits for slots on disk alone (`CommittedOnDisk`). A step of a call uses the lemmas
of the first part; a crash is one lemma more. What is said of orphaned nonces assumes
that stores in memory do not raise, as `ReplayCache` has nothing that could.

### Signature caches

`CryptoCacheProofs`: any threads, checks and sizes from one up. `CachesAreSound` is not
inductive, because an insertion trusts what the call has found out. `CacheInv` carries
this along: a call at `parsed` has a key that can be parsed, one at `remember` a valid
signature. Lemmas about `Dropped`, `Touched` and `Trimmed` say that a cache holds only
what it held and what was inserted, and how long it is.

Its second part carries this to `run_vectors.py` and whoever shares its process: its
steps are steps of the caches (`StepOfCaches`), but for the reader, who may begin with
empty ones. `CasesAssumption` says that each call has a receipt whose check is one of
the checks; TLC evaluates it for the 76 vectors and
the six calls of the scenarios.

Its third part is about the codes. `Alone` says that, without threads or caches and
one after the other, each call gets its code, and each published vector the code
expected of it then: a fact about the finite table of `Vectors`, which no proof is
needed for. `CompanyKeepsCodes` and `CompanyReplays` conclude that company changes
nothing: for any other threads, any checks of theirs and any sizes of the caches, each
code is the same. The answer a runner gets from a cache is that of the signature its
call asks about (`RunnerFits`, by `CachesAreSound`), and what is used up is what the
calls so far were allowed (`AnswersFit`). `Alone` is a hypothesis and no assumption of a
module, as it is a claim about the verifier. The run `conformance` shows it: among its
behaviours is the one in which nobody else takes a step, and its answers are these.
That signatures are genuine where a receipt says so is `SignaturesAssumption`, about the
table and not about the verifier, and evaluated by TLC.

### Boundaries and checks

`EnforcementProofs` has two halves. The first is about ownership of slots, for any
calls, any number of threads and any kind of boundary: those a thread holds are held by
no other thread and used up by nobody (`HeldAreFree`), those that are used up belong to
an answer or to a thread that has been allowed (`UsedIsOwned`), and to one only
(`OneOwner`). Two effects of one permit, or of one capability where its cache is, would
own one slot (`SamePermitSameSlot`, `SameCapabilitySameSlot`).

The second half shows that ordered checks mean an unordered reference. A
table passes exactly if none of its rows refuses (`FirstCodePasses`); for each table one
lemma says what that is, and one more that together with the schema checks before it,
which make sure that what it compares is there, it is its part of `Permitted` or
`Entitled`. `VerdictsAreExact` composes these for any well-typed call: every combination
of fields, not only those one or two fields away from a permitted one.

### Upgrade of a replay file

`SchemaUpgradeProofs`: any openers, nonces and number of failures. The columns are
added in one order, so that a table has one of four shapes (`GrowsInOrder`); what an
opener has read may be old, but columns never go away, so that its `ALTER TABLE` fails
when it is late; where an opener is tells which columns are there (`StepsAreDone`). A
row tells how often its nonce was accepted (`RowsTellUses`), through the default
`committed=1` that an upgrade gives to bare rows.

### PayGate and its ledger

`PayGateProofs`: any actions, agents, adapters, policies, lifetimes, bounds and faults.
The argument is about the decisions in the world: in the running call, with callers,
behind a charge. Within one life of the process their counters rise with the highest
of their agent (`CountersRise`), so there is one for each counter (`CounterMintsOnce`);
each was within permit and policy (`MintedAsPermitted`); a provider remembers what it
charged in this life (`ChargedAsMinted`) and nothing else (`SpentIsCharged`). A restart
empties both memories at once, which is why the theorems speak of one life.

The second part is about the ledger, for any cuts and faults and any actions with a
separator. Without a cut line the list in memory is what is in the file, unless an append
raised (`MemoryIsFile`); after one that raised it is longer (`FileIsBehind`), so that the
next line is numbered and chained past the end of the file: this is how a file with a
gap comes never to verify. An acknowledged line is never the loose one at the end, which
is the only one a later write can spoil (`KeptIsClosed`). A decision that a provider, a
caller or a charge has is in the file (`DecidedFirst`). The decision of the running call
is the last record until its outcome is (`RecordedIsLast`), so that a permit that is used
up is the one of the running call or accounted for (`UsesAreBooked`). This needs that the
gate charges nothing of an earlier life (`GatedIsOfItsLife`) and that the answer a call
carries is what the provider did (`CallIsOfNow`). A line that splits is of a charge
made through the gate (`SplitsByPayment`).

### Revocation

`RevocationProofs`: any receipts, publications, ages, drift and resolution of the clock.
Two facts make the horizon: whatever is published knows all that was published earlier
(`Chronology`), and what is not too old on a clock that is not too far off is from
within the horizon (`FreshIsRecent`; whole seconds are cut, hence the one more). The
rest follows the checks: what a call is allowed by was published, is recent and
does not name the receipt or its issuer, or its proof cuts the log off before them
(`ProofMeans`). The entry behind which it is cut for both is neither of them
(`CutOffByAnother`): a log in which nobody else is revoked hides nothing.

### Merkle proofs

`MerkleProofs`: sets of natural numbers of any size, and logs of such sets. The levels of
a tree, the index at a level and the climb along an audit path are recursive functions; what they
compute is proved by induction over levels. The library's induction theorems take an
operator, but that the natural numbers are well-founded is a fact about a set, from which
`LeastElement` and `SetInduction` follow; `LevelRecursion` and `ClimbRecursion` then give
the recursion equations of the definitions.

Soundness rests on `ClimbAgrees`: a climb that ends in the root of a tree has, at each
level, what the tree has there, because hashes are injective. It starts at a leaf of the
tree, then, at the position the index says. For absence, an accepted pair are the
keys at two adjacent ranks, or the first or last, and no key is in between
(`RankMonotone`); the size of the outer proof counts only where there is no right
neighbour, and `SizedAbsenceIsTrue` says that comparing it with the committed one would
close that case. Completeness is the other direction: the path the builder makes climbs
through the tree (`BuiltPath`), also at the odd end of a level, where a node is its own
sibling; and for each absent key there is a rank such that its neighbours are those
(`RankOnto`). The invariant of the log only says that what was given out was built from
some set of keys; soundness holds of any proof at all.

### Release

`ReleaseProofs`: any scripts, tests, edits, commits and kills. For what an archive is,
nothing is needed of the scripts: while a build runs, what was read first of a file, what it was
between the passes and what was read last come in that order (`Became`: versions only
rise). When the verifier finds the first and the last equal, the file was that all the
time. `BindingFits` relates the files in the same way to the commit the build is of.

What a passed script leaves needs `ScriptsAssumption`. `Established` says what holds once
certain programs are no longer to run and nothing was edited since the script began: the tests pass once the vectors are
written, the gate's conditions once it has run after all that writes, the manifest
once verified. Each program either is the one that establishes such a fact, or does not
disturb it, or must by `Orderly` be followed by the one that does. `MetadataFits` adds
why an attestation that agrees with the tree about lock file and SBOM shows that these
agree with each other, unless `torn`: a lock file in an attestation is never newer
than the tree's.

### The theorems

| Theorem | States |
|---|---|
| `TypeCorrect`, `Invariance` (`ReplayProofs`) | `[]TypeOK`, `[]IInv` |
| `TokensAreKept` | `[]TokenDiscipline` |
| `AtMostOneCommit` | `[]SoleConsumer` |
| `AllowsAreExclusive` | `[]AllowIsExclusive` |
| `NothingLeaks` | `[]NoReservationLeaks` |
| `HoldersConsume` | a nonce becomes used up only by the commit of its holder or an append to a list, and stays so |
| `DenialsBurnPrefixes` | `[]BurnIsProperPrefix` |
| `RefusalsAreFree` | `[]RefusalConsumesNothing`, when no store is a list |
| `Refinement` | every behaviour of `ReplayTransaction` is one of `SingleUse` |
| `DiskIsSingleUse`, `AnswersSurvive`, `OrphansHaveOneOfTwoCauses`, `OrphansStay` | `[]DurableSingleUse`, `[]AllowSurvives`, `[]OrphansHaveACause`, `OrphansAreForever`; the last two when memory stores do not raise |
| `SomebodyAlwaysWins`, `ReceiptsFirstSomebodyWins` | `[]SomebodyWins`, when all plans follow one order; the plans of the code do |
| `ImplementorsAreSingleUse`, `TransactionIsSingleUse` | whatever implements `SingleUse`: an allowed call owns what it presented, and nobody else does; so it is for the transaction |
| `CachesStaySound`, `CachesServeTheRunner` (`CryptoCacheProofs`) | `[]CachesAreSound`, of the caches alone and in the run of the vectors |
| `CompanyKeepsCodes`, `CompanyReplays` (`CryptoCacheProofs`) | `[]VectorsGetTheirCodes`, `[]PublishedVectorsReplay`, when each call gets its code alone |
| `ReadyMeansUpgraded`, `AcceptedAtMostOnce`, `CommittedRowsAreUses` (`SchemaUpgradeProofs`) | `[]ReadyIsUpgraded`, `[]AcceptedOnce`, `[]CommittedMeansUsed` |
| `Invariance`, `OneChargeEach`, `OnlyPermittedCharges`, `AllowsAreHonoured` (`PayGateProofs`) | `[]IInv`, `[]OneChargePerCounter`, `[]ChargesArePermitted`, `[]AllowIsHonoured` |
| `LedgersVerify`, `AcknowledgedIsKept`, `ChargesAreAudited`, `UsesAreRecorded`, `OnlyPaymentsSplit` (`PayGateProofs`) | `[]FileVerifies`, `[]KeptStays`, `[]AuditedBeforeCharged`, `[]EveryUseIsRecorded`, `[]UnreadableByPayment` |
| `ExposureHasAHorizon`, `CheckpointsHaveAHorizon`, `NoFalseRevocation` (`RevocationProofs`) | `[]ExposureIsBounded`, `[]CheckpointsBoundExposure`, `[]RevokedIsGrounded` |
| `InclusionIsSound`, `InclusionIsComplete`, `NonInclusionIsSound`, `SizedAbsenceIsTrue`, `NonInclusionIsComplete` (`MerkleProofs`) | for every set of keys: an accepted inclusion is true; an accepted absence is true or cuts the set off before its key, and is true when it states the size of the set; what is true has a proof that is accepted |
| `ProofsAreComplete`, `AcceptedInclusionIsTrue`, `AbsenceOnlyByCuttingOff` (`MerkleProofs`) | `[]ProofsComplete`, `[]InclusionSound`, `[]NonInclusionSound` |
| `Invariance`, `SingleUseHolds`, `UsesAreServed`, `VerdictsAreExact` (`EnforcementProofs`) | who owns which slot; `[]EffectsAreSingleUse`, `[]UsedMeansServed`, `[]VerdictIsExact` |
| `Invariance`, `AcceptedArchivesAreOneInstant`, `BoundArchivesAreCommitted`, `PassedScriptsAreConsistent` (`ReleaseProofs`) | what is known of a build; `[]AcceptedIsOneInstant`, `[]BoundIsCommitted`, `[]PassedIsConsistent` |

Only model-checked:

- liveness (`EveryCallEnds`, `EveryoneOpens`), which the prover does not do;
- the code of each single vector (`Alone`), which is evaluation and needs no proof;
- the three findings below, which are counterexamples.

## Where code and documentation disagree

1. `replay_burn`: `replay.py` says that callers commit all reservations together or
   release them on denial. `_commit_all` commits one by one and stops at the first
   that raises; `release` of a committed reservation does nothing. With a SQLite
   store a call can be denied with `REPLAY_STATE_FAILURE` and its receipt nonce is
   used up. `BurnIsProperPrefix` says how far this goes, and `RefusalConsumesNothing`
   that it does not happen where no method raises and nobody else appends to a list.
2. `merkle_size`: a comment in `verify_non_inclusion_proof` says that the inclusion
   verifier binds `tree_size` to the root, so that a second comparison would be
   redundant. It binds the size inside the inner proofs; the one the end-of-list case
   compares with is the outer field, which nothing ties to the root. With an outer size
   of `index + 1` the proof of any entry passes for that of the last one, and
   `AbsenceIsTrue` fails: a committed key after it is shown as absent.
   `NonInclusionSound` says that nothing else goes wrong, `SizedAbsenceIsTrue` that the
   comparison would mend it, and `CheckpointsBoundExposure` what it costs: the bound on
   how long a revocation is overlooked holds for calls without such a proof.
3. `release_clean`: `docs/REPRODUCIBILITY.md` 17-22 and the workflow `qa.yml` 73-77 begin
   the certified gate of a clean checkout with `generate_supply_chain_metadata.py`. Its
   attestation needs the reports of the demo, the review packet and the coverage run
   (line 73), which later programs write and a clean checkout does not have: it raises.

## What is not modelled

- In the transaction: `contains` and `count`, which only read. A call whose context
  holds both a cache object and a list of used nonces is taken to have only the
  cache; the early look at the list is a denial that changes nothing.
- In PayGate: an explicit `now` argument, a ledger without a file, and calls that
  run concurrently (the gate has no lock and no thread of its own). Comparisons of
  scope and action are one condition per action, the sensor evidence one input.
- In revocation: a list in hand during constrained mode (the code does not look at
  it). A policy without signed lists trusts the caller's copy, and an absent
  `last_updated` counts as the present: the model has both, and `ExposureIsBounded`
  excludes them.
- Signatures and hashes themselves: nobody forges the one, the other is injective.
- In the checks: whether one value is a string of the right length, a digest, a
  time or a number in range is one value `Bad`, and what cannot be canonicalized is
  `Uncanonical`. Revocation evidence is a code here.
- At the boundaries: reading and parsing an HTTP body, routes, the audit list of the
  mock gateway, and a restart of a server, which empties its caches.
- Of the boundaries also: a restart of a server within its permits' validity. The
  caches of the demonstration servers are in memory and their nonces are forgotten;
  `DurableReplay` is about the store made for this.
- Lists that are freed while a reservation is on record: the registry of
  `replay.py` 201 is keyed by `id(list)`, which Python may give to another list.
- In PayGate, an empty set of revoked receipts that the owner fills later
  (`paygate_poc/verifier.py` 63 replaces it, as it is false).
- The hybrid (`paygate_hybrid`): five scripted scenarios in a row. Each makes a
  `ReplayCache` and a PayGate of its own (`hybrid_demo.py` 42, 68, 84, 119): nothing is
  shared between payments and no state outlives one. `payment_action_to_orprg_effect`
  and `make_tetpay` build records, and `validate_tetpay` compares references
  (`bridge.py` 93-100). What each gate promises on its own is in `Enforcement` and
  `PayGate`.
- In the vectors: descriptions, categories, the report, and what formats the verifier's
  answer in the payment profile (fake adapter, execution receipt, dispute packet).
- In the release: the checks of a single file (words, styles, pointers, lineage,
  security patterns), symbolic links, and a write that is killed half-way, which leaves
  a file that no later check takes for the whole one. `check_sbom` looks at the SBOM's
  form and not at the lock file it was made from: the model has no comparison either,
  and `PassedIsConsistent` excepts `torn`. `source_provenance.json` is
  written and checked by nobody. The attestation's metrics are those of the reports
  that are there, which may be about earlier code: `measured` and `evaluated` keep
  this, and no property claims otherwise. The materials in the provenance are read a
  third time (`build_release_asset.py` 188-191) and not compared with the archive:
  `AcceptedIsOneInstant` excepts files edited during the build.
  `.gitignore` names files that the inventory does not exclude (`.env`, `.idea`,
  `.vscode`, `.DS_Store`): a bound archive may contain one, and `BoundIsCommitted`
  excepts `stray`.
- Canonicalization and strict JSON: parsing, normalising and serialising text, without
  state. What they accept enters the models as a value, what they refuse as `Bad` or
  `Uncanonical`.
- The review packet: one script that recomputes digests of fixed files.
- Demos, fuzzers and benchmarks: they call the components above and report.
  `replay_concurrency.py` and `persistent_replay_test.py` are scenarios of
  `ReplayTransaction` and `DurableReplay`.

## Plan

In this order, the most important behaviour first. A run or property is added only
for a question of its own, and replaces a weaker one where it subsumes it.

Done: `SingleUse`, `ReplayTransaction`, `ReplayRefinement`, `DurableReplay`,
`SchemaUpgrade`, `Ledger`, `PayGate`, `MerkleSet`, `MerkleLog`,
`RevocationCheck`, `Revocation`, `Schema`, `Verifier`, `Enforcement`, `CryptoCache`,
`Vectors`, `Conformance`, `Release`, and the proofs about all of them: each safety
invariant of the runs is a theorem.

Next theorems: that the slots of `Enforcement` are used as `SingleUse` has it, step by
step, which would make the transaction in short an implementation of the abstract store
as the long one is; for `Revocation`, that the horizon is reached, so that no smaller
one holds.

Next modules: `Canonical`, for normalisation, colliding keys and the structure budget;
the review packet, if its recomputation grows state of its own.
