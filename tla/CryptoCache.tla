---------------------------- MODULE CryptoCache ----------------------------
(***************************************************************************)
(* verify_signature and its two caches (orprg_eval/crypto.py): parsed      *)
(* public keys, and checks of a signature that succeeded.  All threads of  *)
(* a process share them.  The lock is held for a lookup or for an          *)
(* insertion, not from one to the other: between them other threads look,  *)
(* insert and evict.  A cache is a sequence, the least recently used entry *)
(* first.                                                                  *)
(*                                                                         *)
(* A check is a key, a signature and an object: what they amount to, and   *)
(* not what they are, decides (the hash of the three is the cache's key).  *)
(***************************************************************************)
EXTENDS Integers, Sequences

CONSTANTS
    Threads,
    Checks,         \* a public key, a signature and an object each
    KeyOf,          \* the public key of a check
    Keys,
    ParsedKeys,     \* the keys of 32 bytes that are points of the curve
    WellFormed,     \* the checks whose signature is 64 bytes in base64
    Genuine,        \* the checks that succeed, given their key
    PUB_CACHE_MAX, SIG_CACHE_MAX

ASSUME CryptoCacheAssumption ==
    /\ KeyOf \in [Checks -> Keys]
    /\ PUB_CACHE_MAX \in Nat \ {0} /\ SIG_CACHE_MAX \in Nat \ {0}

VARIABLES
    pubs,           \* _PUB_CACHE
    sigs,           \* _SIG_CACHE
    call            \* what each thread is doing: the phase of its call, and its check

cacheVars == <<pubs, sigs, call>>

Idle == [phase |-> "idle"]
At(phase, c) == [phase |-> phase, check |-> c]
Answer(c, valid) == [phase |-> "answered", check |-> c, valid |-> valid]

\* The answer the signature deserves.
Valid(c) == KeyOf[c] \in ParsedKeys /\ c \in WellFormed /\ c \in Genuine

CacheInit == pubs = <<>> /\ sigs = <<>> /\ call = [t \in Threads |-> Idle]

----------------------------------------------------------------------------

Cached(x, cache) == \E i \in 1 .. Len(cache) : cache[i] = x

\* The cache without the entry x, if it has one.
Dropped(x, cache) ==
    IF Cached(x, cache)
    THEN LET at == CHOOSE i \in 1 .. Len(cache) : cache[i] = x
         IN [i \in 1 .. Len(cache) - 1 |-> IF i < at THEN cache[i] ELSE cache[i + 1]]
    ELSE cache

\* The most recent entry comes last (move_to_end).
Touched(x, cache) == Append(Dropped(x, cache), x)

\* popitem(last=False), while there are too many.
Trimmed(cache, max) == IF Len(cache) > max THEN SubSeq(cache, Len(cache) - max + 1, Len(cache)) ELSE cache

Move(t, to) == call' = [call EXCEPT ![t] = to]

(* Mutant: a check is remembered before it has succeeded. *)
ThenRemember(t, c) == Move(t, At("remember", c))

\* A failure of any kind is the answer False.
ThenVerify(t, c) == Move(t, IF c \in Genuine THEN At("remember", c) ELSE Answer(c, FALSE))

----------------------------------------------------------------------------

VerifySignature(t, c) ==
    /\ call[t] = Idle
    /\ Move(t, At("lookup", c))
    /\ UNCHANGED <<pubs, sigs>>

\* A check that is in the cache was successful.
Lookup(t) ==
    /\ call[t].phase = "lookup"
    /\ LET c == call[t].check IN
       IF Cached(c, sigs)
       THEN sigs' = Touched(c, sigs) /\ Move(t, Answer(c, TRUE))
       ELSE /\ Move(t, IF c \in WellFormed THEN At("key", c) ELSE Answer(c, FALSE))
            /\ UNCHANGED sigs
    /\ UNCHANGED pubs

\* _cached_public_key, and the verification with a key that was in the cache.
LookupKey(t) ==
    /\ call[t].phase = "key"
    /\ LET c == call[t].check IN
       IF Cached(KeyOf[c], pubs)
       THEN pubs' = Touched(KeyOf[c], pubs) /\ ThenVerify(t, c)
       ELSE /\ Move(t, IF KeyOf[c] \in ParsedKeys THEN At("parsed", c) ELSE Answer(c, FALSE))
            /\ UNCHANGED pubs
    /\ UNCHANGED sigs

RememberKey(t) ==
    /\ call[t].phase = "parsed"
    /\ LET c == call[t].check
       IN pubs' = Trimmed(Touched(KeyOf[c], pubs), PUB_CACHE_MAX) /\ ThenVerify(t, c)
    /\ UNCHANGED sigs

Remember(t) ==
    /\ call[t].phase = "remember"
    /\ LET c == call[t].check
       IN sigs' = Trimmed(Touched(c, sigs), SIG_CACHE_MAX) /\ Move(t, Answer(c, TRUE))
    /\ UNCHANGED pubs

Return(t) ==
    /\ call[t].phase = "answered"
    /\ Move(t, Idle)
    /\ UNCHANGED <<pubs, sigs>>

Step(t) == Lookup(t) \/ LookupKey(t) \/ RememberKey(t) \/ Remember(t)

CacheNext ==
    \E t \in Threads : Step(t) \/ Return(t) \/ \E c \in Checks : VerifySignature(t, c)
CacheSpec == CacheInit /\ [][CacheNext]_cacheVars

----------------------------------------------------------------------------

Phases == {"lookup", "key", "parsed", "remember"}
Calls == {Idle} \cup [phase : Phases, check : Checks]
         \cup [phase : {"answered"}, check : Checks, valid : BOOLEAN]

CacheTypeOK ==
    /\ pubs \in Seq(Keys) /\ sigs \in Seq(Checks)
    /\ call \in [Threads -> Calls]

(* Whoever asks gets the answer the signature deserves, although what it is *)
(* taken from was put there by another thread and may be evicted meanwhile, *)
(* and no failed check and no key that cannot be parsed is ever remembered; *)
(* and neither cache outgrows its size, whoever inserts at once             *)
(* (verify_signature and _cached_public_key).                               *)
CachesAreSound ==
    /\ \A t \in Threads : call[t].phase = "answered" => call[t].valid = Valid(call[t].check)
    /\ \A i \in 1 .. Len(sigs) : Valid(sigs[i])
    /\ \A i \in 1 .. Len(pubs) : pubs[i] \in ParsedKeys
    /\ Len(sigs) <= SIG_CACHE_MAX /\ Len(pubs) <= PUB_CACHE_MAX
============================================================================
