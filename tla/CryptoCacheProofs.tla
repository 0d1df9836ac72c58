------------------------- MODULE CryptoCacheProofs -------------------------
(***************************************************************************)
(* For any threads, checks and sizes: what the caches of CryptoCache       *)
(* remember is true, and they stay within their sizes.  The invariant      *)
(* carries along a call what it has found out so far.  And so in the run   *)
(* of the vectors (Conformance).                                           *)
(***************************************************************************)
EXTENDS Conformance, TLAPS

\* What the phase of a call says of its check.
PhaseIsEarned(c) ==
    /\ c.phase \in {"key", "parsed", "remember"} => c.check \in WellFormed
    /\ c.phase \in {"parsed", "remember"} => KeyOf[c.check] \in ParsedKeys
    /\ c.phase = "remember" => Valid(c.check)

CallOk(c) ==
    /\ c \in Calls
    /\ PhaseIsEarned(c)
    /\ c.phase = "answered" => c.valid = Valid(c.check)

CachesOk(p, s) ==
    /\ p \in Seq(Keys) /\ s \in Seq(Checks)
    /\ \A i \in 1 .. Len(p) : p[i] \in ParsedKeys
    /\ \A i \in 1 .. Len(s) : Valid(s[i])
    /\ Len(p) <= PUB_CACHE_MAX /\ Len(s) <= SIG_CACHE_MAX

CacheInv ==
    /\ CachesOk(pubs, sigs)
    /\ call \in [Threads -> Calls]
    /\ \A t \in Threads : CallOk(call[t])

----------------------------------------------------------------------------
(* A cache without an entry has no other entries, and is shorter by one if *)
(* the entry was there (Dropped, of move_to_end).                          *)
LEMMA DroppedFacts ==
    ASSUME NEW S, NEW q \in Seq(S), NEW x
    PROVE  /\ Dropped(x, q) \in Seq(S)
           /\ Len(Dropped(x, q)) = IF Cached(x, q) THEN Len(q) - 1 ELSE Len(q)
           /\ \A j \in 1 .. Len(Dropped(x, q)) : \E i \in 1 .. Len(q) : Dropped(x, q)[j] = q[i]
<1>1. CASE ~Cached(x, q)
  BY <1>1 DEF Dropped
<1>2. CASE Cached(x, q)
  <2> DEFINE at == CHOOSE i \in 1 .. Len(q) : q[i] = x
             d == [i \in 1 .. Len(q) - 1 |-> IF i < at THEN q[i] ELSE q[i + 1]]
  <2>1. Dropped(x, q) = d
    BY <1>2 DEF Dropped
  <2>2. Len(q) \in Nat /\ Len(q) >= 1
    BY <1>2 DEF Cached
  <2>3. \A i \in 1 .. Len(q) - 1 : \E k \in 1 .. Len(q) : d[i] = q[k]
    <3> SUFFICES ASSUME NEW i \in 1 .. Len(q) - 1 PROVE \E k \in 1 .. Len(q) : d[i] = q[k]
      OBVIOUS
    <3>1. i \in 1 .. Len(q) /\ i + 1 \in 1 .. Len(q)
      BY <2>2
    <3>2. d[i] = q[i] \/ d[i] = q[i + 1]
      OBVIOUS
    <3> QED BY <3>1, <3>2
  <2>4. d \in [1 .. Len(q) - 1 -> S]
    <3> SUFFICES ASSUME NEW i \in 1 .. Len(q) - 1 PROVE d[i] \in S
      OBVIOUS
    <3>1. PICK k \in 1 .. Len(q) : d[i] = q[k]
      BY <2>3
    <3> QED BY <3>1
  <2>5. d \in Seq(S) /\ Len(d) = Len(q) - 1
    BY <2>2, <2>4
  <2> QED BY <1>2, <2>1, <2>3, <2>5
<1> QED BY <1>1, <1>2

(* A cache that is touched has the entry, and otherwise what it had; an    *)
(* entry it had already does not make it longer (Touched, of move_to_end). *)
LEMMA TouchedFacts ==
    ASSUME NEW S, NEW q \in Seq(S), NEW x \in S
    PROVE  /\ Touched(x, q) \in Seq(S)
           /\ Cached(x, q) => Len(Touched(x, q)) = Len(q)
           /\ \A j \in 1 .. Len(Touched(x, q)) :
                Touched(x, q)[j] = x \/ \E i \in 1 .. Len(q) : Touched(x, q)[j] = q[i]
<1> DEFINE d == Dropped(x, q)
<1>1. /\ d \in Seq(S) /\ Len(d) \in Nat
      /\ Cached(x, q) => Len(d) = Len(q) - 1
      /\ \A j \in 1 .. Len(d) : \E i \in 1 .. Len(q) : d[j] = q[i]
  BY DroppedFacts
<1>2. Touched(x, q) = Append(d, x)
  BY DEF Touched
<1> HIDE DEF d
<1>3. Append(d, x) \in Seq(S) /\ Len(Append(d, x)) = Len(d) + 1
  BY <1>1
<1>4. \A j \in 1 .. Len(d) + 1 : Append(d, x)[j] = IF j <= Len(d) THEN d[j] ELSE x
  BY <1>1
<1>5. ASSUME NEW j \in 1 .. Len(d) + 1
      PROVE  Append(d, x)[j] = x \/ \E i \in 1 .. Len(q) : Append(d, x)[j] = q[i]
  <2>1. CASE j <= Len(d)
    <3>1. j \in 1 .. Len(d) /\ Append(d, x)[j] = d[j]
      BY <1>1, <1>4, <2>1
    <3> QED BY <1>1, <3>1
  <2>2. CASE ~(j <= Len(d))
    BY <1>4, <2>2
  <2> QED BY <2>1, <2>2
<1>6. Len(q) \in Nat
  OBVIOUS
<1> QED BY <1>1, <1>2, <1>3, <1>5, <1>6

(* A cache that is trimmed is within its size, and has no entries it did   *)
(* not have (Trimmed, the loop of popitem).                                *)
LEMMA TrimmedFacts ==
    ASSUME NEW S, NEW q \in Seq(S), NEW max \in Nat \ {0}
    PROVE  /\ Trimmed(q, max) \in Seq(S)
           /\ Len(Trimmed(q, max)) <= max
           /\ \A j \in 1 .. Len(Trimmed(q, max)) : \E i \in 1 .. Len(q) : Trimmed(q, max)[j] = q[i]
<1>1. CASE Len(q) > max
  <2> DEFINE m == Len(q) - max + 1
             s == SubSeq(q, m, Len(q))
  <2>1. Trimmed(q, max) = s
    BY <1>1 DEF Trimmed
  <2>2. m \in 1 .. Len(q) /\ Len(q) \in Nat /\ m \in Nat
    BY <1>1
  <2>3. Len(s) = max /\ \A j \in 1 .. max : s[j] = q[m + j - 1]
    BY <1>1, <2>2
  <2>4. \A j \in 1 .. max : m + j - 1 \in 1 .. Len(q)
    BY <1>1, <2>2
  <2>5. s \in Seq(S)
    BY <2>2
  <2> HIDE DEF m, s
  <2> QED BY <2>1, <2>3, <2>4, <2>5
<1>2. CASE ~(Len(q) > max)
  BY <1>2 DEF Trimmed
<1> QED BY <1>1, <1>2

----------------------------------------------------------------------------

(* An entry that is in a cache stays the only one of its kind there: a     *)
(* lookup leaves the cache as good as it was.                              *)
LEMMA TouchKeeps ==
    ASSUME NEW S, NEW q \in Seq(S), NEW x, Cached(x, q)
    PROVE  /\ Touched(x, q) \in Seq(S)
           /\ Len(Touched(x, q)) = Len(q)
           /\ \A j \in 1 .. Len(Touched(x, q)) : \E i \in 1 .. Len(q) : Touched(x, q)[j] = q[i]
<1>1. PICK k \in 1 .. Len(q) : q[k] = x
  BY DEF Cached
<1>2. x \in S
  BY <1>1
<1> DEFINE u == Touched(x, q)
<1>3. /\ u \in Seq(S) /\ Len(u) = Len(q)
      /\ \A j \in 1 .. Len(u) : u[j] = x \/ \E i \in 1 .. Len(q) : u[j] = q[i]
  BY <1>2, TouchedFacts
<1> HIDE DEF u
<1>4. \A j \in 1 .. Len(u) : \E i \in 1 .. Len(q) : u[j] = q[i]
  BY <1>1, <1>3
<1> QED BY <1>3, <1>4 DEF u

\* v is within its size, with the new entry x and some of the old ones, of q.
Inserted(v, x, q, S, max) ==
    /\ v \in Seq(S)
    /\ Len(v) <= max
    /\ \A j \in 1 .. Len(v) : v[j] = x \/ \E i \in 1 .. Len(q) : v[j] = q[i]

(* An insertion, with its eviction, leaves the cache within its size, with *)
(* the new entry and some of the old ones.                                 *)
LEMMA InsertKeeps ==
    ASSUME NEW S, NEW q \in Seq(S), NEW x \in S, NEW max \in Nat \ {0}
    PROVE  Inserted(Trimmed(Touched(x, q), max), x, q, S, max)
<1> DEFINE u == Touched(x, q)
           v == Trimmed(u, max)
<1>1. /\ u \in Seq(S)
      /\ \A j \in 1 .. Len(u) : u[j] = x \/ \E i \in 1 .. Len(q) : u[j] = q[i]
  BY TouchedFacts
<1> HIDE DEF u
<1>2. /\ v \in Seq(S) /\ Len(v) <= max
      /\ \A j \in 1 .. Len(v) : \E i \in 1 .. Len(u) : v[j] = u[i]
  BY <1>1, TrimmedFacts
<1> HIDE DEF v
<1>3. \A j \in 1 .. Len(v) : v[j] = x \/ \E i \in 1 .. Len(q) : v[j] = q[i]
  BY <1>1, <1>2
<1> QED BY <1>2, <1>3 DEF u, v, Inserted

(* A thread that moves on to a call that is as it should be leaves all     *)
(* calls as they should be.                                                *)
LEMMA MoveKeeps ==
    ASSUME CacheInv, NEW t \in Threads, NEW to, CallOk(to), Move(t, to)
    PROVE  call' \in [Threads -> Calls] /\ \A u \in Threads : CallOk(call'[u])
<1>1. call' = [call EXCEPT ![t] = to] /\ to \in Calls /\ call \in [Threads -> Calls]
  BY DEF Move, CallOk, CacheInv
<1>2. \A u \in Threads : call'[u] = IF u = t THEN to ELSE call[u]
  BY <1>1
<1>3. \A u \in Threads : CallOk(call[u])
  BY DEF CacheInv
<1> QED BY <1>1, <1>2, <1>3

(* What a thread that is in a phase of its call has: a check, and what the *)
(* phase says of it.                                                       *)
LEMMA InPhase ==
    ASSUME CacheInv, NEW t \in Threads, call[t].phase \in Phases
    PROVE  call[t].check \in Checks /\ PhaseIsEarned(call[t])
<1>1. call[t] \in Calls /\ PhaseIsEarned(call[t])
  BY DEF CacheInv, CallOk
<1> QED BY <1>1 DEF Calls, Idle, Phases

(* The states a call moves to are as they should be, for a check that has  *)
(* earned them.                                                            *)
LEMMA CallOkOfPhase ==
    ASSUME NEW c \in Checks, NEW phase \in Phases, PhaseIsEarned(At(phase, c))
    PROVE  CallOk(At(phase, c))
BY DEF CallOk, Calls, At, Phases

(* A call that has its answer, and one that deserves it, is in order.      *)
LEMMA CallOkOfAnswer ==
    ASSUME NEW c \in Checks, NEW valid \in BOOLEAN, valid = Valid(c)
    PROVE  CallOk(Answer(c, valid))
BY DEF CallOk, Calls, Answer, PhaseIsEarned

(* After the verification with a parsed key (ThenVerify).                  *)
LEMMA VerifyKeeps ==
    ASSUME CacheInv, NEW t \in Threads, NEW c \in Checks, ThenVerify(t, c),
           c \in WellFormed, KeyOf[c] \in ParsedKeys
    PROVE  call' \in [Threads -> Calls] /\ \A u \in Threads : CallOk(call'[u])
<1>1. CASE c \in Genuine
  <2>1. Move(t, At("remember", c))
    BY <1>1 DEF ThenVerify
  <2>2. Valid(c)
    BY <1>1 DEF Valid
  <2>3. CallOk(At("remember", c))
    BY <2>2, CallOkOfPhase DEF PhaseIsEarned, At, Phases
  <2> QED BY <2>1, <2>3, MoveKeeps
<1>2. CASE c \notin Genuine
  <2>1. Move(t, Answer(c, FALSE))
    BY <1>2 DEF ThenVerify
  <2>2. FALSE = Valid(c)
    BY <1>2 DEF Valid
  <2>3. CallOk(Answer(c, FALSE))
    BY <2>2, CallOkOfAnswer
  <2> QED BY <2>1, <2>3, MoveKeeps
<1> QED BY <1>1, <1>2

----------------------------------------------------------------------------

(* The invariant holds when the process starts (CacheInit).                *)
LEMMA InitCacheInv == CacheInit => CacheInv
<1> SUFFICES ASSUME CacheInit PROVE CacheInv
  OBVIOUS
<1>1. CachesOk(pubs, sigs)
  BY CryptoCacheAssumption DEF CacheInit, CachesOk
<1>2. CallOk(Idle)
  BY DEF CallOk, Calls, Idle, PhaseIsEarned
<1>3. call \in [Threads -> Calls] /\ \A t \in Threads : CallOk(call[t])
  BY <1>2 DEF CacheInit, CallOk
<1> QED BY <1>1, <1>3 DEF CacheInv

(* Every step of every thread keeps the invariant.                         *)
LEMMA NextCacheInv == CacheInv /\ [CacheNext]_cacheVars => CacheInv'
<1> SUFFICES ASSUME CacheInv, [CacheNext]_cacheVars PROVE CacheInv'
  OBVIOUS
<1> USE CryptoCacheAssumption
<1>0. CachesOk(pubs, sigs)
  BY DEF CacheInv
<1>1. ASSUME NEW t \in Threads, NEW c \in Checks, VerifySignature(t, c) PROVE CacheInv'
  <2>1. CallOk(At("lookup", c))
    BY CallOkOfPhase DEF PhaseIsEarned, At, Phases
  <2>2. call' \in [Threads -> Calls] /\ \A u \in Threads : CallOk(call'[u])
    BY <1>1, <2>1, MoveKeeps DEF VerifySignature
  <2>3. CachesOk(pubs, sigs)'
    BY <1>0, <1>1 DEF VerifySignature
  <2> QED BY <2>2, <2>3 DEF CacheInv
<1>2. ASSUME NEW t \in Threads, Lookup(t) PROVE CacheInv'
  <2> DEFINE c == call[t].check
  <2>1. c \in Checks
    BY <1>2, InPhase DEF Lookup, Phases
  <2>2. CASE Cached(c, sigs)
    <3>1. sigs' = Touched(c, sigs) /\ Move(t, Answer(c, TRUE)) /\ pubs' = pubs
      BY <1>2, <2>2 DEF Lookup
    <3>2. TRUE = Valid(c)
      BY <1>0, <2>2 DEF Cached, CachesOk, Valid
    <3>3. call' \in [Threads -> Calls] /\ \A u \in Threads : CallOk(call'[u])
      BY <2>1, <3>1, <3>2, CallOkOfAnswer, MoveKeeps
    <3>4. /\ sigs' \in Seq(Checks) /\ Len(sigs') = Len(sigs)
          /\ \A j \in 1 .. Len(sigs') : \E i \in 1 .. Len(sigs) : sigs'[j] = sigs[i]
      BY <1>0, <2>2, <3>1, TouchKeeps DEF CachesOk
    <3>5. CachesOk(pubs, sigs)'
      BY <1>0, <3>1, <3>4 DEF CachesOk
    <3> QED BY <3>3, <3>5 DEF CacheInv
  <2>3. CASE ~Cached(c, sigs)
    <3>1. /\ Move(t, IF c \in WellFormed THEN At("key", c) ELSE Answer(c, FALSE))
          /\ UNCHANGED <<pubs, sigs>>
      BY <1>2, <2>3 DEF Lookup
    <3>2. CallOk(IF c \in WellFormed THEN At("key", c) ELSE Answer(c, FALSE))
      <4>1. CASE c \in WellFormed
        <5>1. PhaseIsEarned(At("key", c))
          BY <4>1 DEF PhaseIsEarned, At
        <5> QED BY <2>1, <4>1, <5>1, CallOkOfPhase DEF Phases
      <4>2. CASE c \notin WellFormed
        <5>1. FALSE = Valid(c)
          BY <4>2 DEF Valid
        <5> QED BY <2>1, <4>2, <5>1, CallOkOfAnswer
      <4> QED BY <4>1, <4>2
    <3>3. call' \in [Threads -> Calls] /\ \A u \in Threads : CallOk(call'[u])
      BY <3>1, <3>2, MoveKeeps
    <3>4. CachesOk(pubs, sigs)'
      BY <1>0, <3>1
    <3> QED BY <3>3, <3>4 DEF CacheInv
  <2> QED BY <2>2, <2>3
<1>3. ASSUME NEW t \in Threads, LookupKey(t) PROVE CacheInv'
  <2> DEFINE c == call[t].check
  <2>1. c \in Checks /\ c \in WellFormed
    BY <1>3, InPhase DEF LookupKey, Phases, PhaseIsEarned
  <2>2. CASE Cached(KeyOf[c], pubs)
    <3>1. pubs' = Touched(KeyOf[c], pubs) /\ ThenVerify(t, c) /\ sigs' = sigs
      BY <1>3, <2>2 DEF LookupKey
    <3>2. KeyOf[c] \in ParsedKeys
      BY <1>0, <2>2 DEF Cached, CachesOk
    <3>3. call' \in [Threads -> Calls] /\ \A u \in Threads : CallOk(call'[u])
      BY <2>1, <3>1, <3>2, VerifyKeeps
    <3>4. /\ pubs' \in Seq(Keys) /\ Len(pubs') = Len(pubs)
          /\ \A j \in 1 .. Len(pubs') : \E i \in 1 .. Len(pubs) : pubs'[j] = pubs[i]
      BY <1>0, <2>2, <3>1, TouchKeeps DEF CachesOk
    <3>5. CachesOk(pubs, sigs)'
      BY <1>0, <3>1, <3>4 DEF CachesOk
    <3> QED BY <3>3, <3>5 DEF CacheInv
  <2>3. CASE ~Cached(KeyOf[c], pubs)
    <3>1. /\ Move(t, IF KeyOf[c] \in ParsedKeys THEN At("parsed", c) ELSE Answer(c, FALSE))
          /\ UNCHANGED <<pubs, sigs>>
      BY <1>3, <2>3 DEF LookupKey
    <3>2. CallOk(IF KeyOf[c] \in ParsedKeys THEN At("parsed", c) ELSE Answer(c, FALSE))
      <4>1. CASE KeyOf[c] \in ParsedKeys
        <5>1. PhaseIsEarned(At("parsed", c))
          BY <2>1, <4>1 DEF PhaseIsEarned, At
        <5> QED BY <2>1, <4>1, <5>1, CallOkOfPhase DEF Phases
      <4>2. CASE KeyOf[c] \notin ParsedKeys
        <5>1. FALSE = Valid(c)
          BY <4>2 DEF Valid
        <5> QED BY <2>1, <4>2, <5>1, CallOkOfAnswer
      <4> QED BY <4>1, <4>2
    <3>3. call' \in [Threads -> Calls] /\ \A u \in Threads : CallOk(call'[u])
      BY <3>1, <3>2, MoveKeeps
    <3>4. CachesOk(pubs, sigs)'
      BY <1>0, <3>1
    <3> QED BY <3>3, <3>4 DEF CacheInv
  <2> QED BY <2>2, <2>3
<1>4. ASSUME NEW t \in Threads, RememberKey(t) PROVE CacheInv'
  <2> DEFINE c == call[t].check
  <2>1. c \in Checks /\ c \in WellFormed /\ KeyOf[c] \in ParsedKeys
    BY <1>4, InPhase DEF RememberKey, Phases, PhaseIsEarned
  <2>2. /\ pubs' = Trimmed(Touched(KeyOf[c], pubs), PUB_CACHE_MAX)
        /\ ThenVerify(t, c) /\ sigs' = sigs
    BY <1>4 DEF RememberKey
  <2>3. call' \in [Threads -> Calls] /\ \A u \in Threads : CallOk(call'[u])
    BY <2>1, <2>2, VerifyKeeps
  <2>4. KeyOf[c] \in Keys
    BY <2>1
  <2>5. /\ pubs' \in Seq(Keys) /\ Len(pubs') <= PUB_CACHE_MAX
        /\ \A j \in 1 .. Len(pubs') :
             pubs'[j] = KeyOf[c] \/ \E i \in 1 .. Len(pubs) : pubs'[j] = pubs[i]
    <3> DEFINE v == Trimmed(Touched(KeyOf[c], pubs), PUB_CACHE_MAX)
    <3>1. pubs \in Seq(Keys) /\ PUB_CACHE_MAX \in Nat \ {0} /\ KeyOf[c] \in Keys
      BY <1>0, <2>4 DEF CachesOk
    <3>2. Inserted(v, KeyOf[c], pubs, Keys, PUB_CACHE_MAX)
      BY <3>1, InsertKeeps
    <3>3. pubs' = v
      BY <2>2
    <3> HIDE DEF v
    <3> QED BY <3>2, <3>3 DEF Inserted
  <2>6. CachesOk(pubs, sigs)'
    BY <1>0, <2>1, <2>2, <2>5 DEF CachesOk
  <2> QED BY <2>3, <2>6 DEF CacheInv
<1>5. ASSUME NEW t \in Threads, Remember(t) PROVE CacheInv'
  <2> DEFINE c == call[t].check
  <2>1. c \in Checks /\ Valid(c)
    BY <1>5, InPhase DEF Remember, Phases, PhaseIsEarned
  <2>2. /\ sigs' = Trimmed(Touched(c, sigs), SIG_CACHE_MAX)
        /\ Move(t, Answer(c, TRUE)) /\ pubs' = pubs
    BY <1>5 DEF Remember
  <2>3. TRUE = Valid(c)
    BY <2>1 DEF Valid
  <2>4. call' \in [Threads -> Calls] /\ \A u \in Threads : CallOk(call'[u])
    BY <2>1, <2>2, <2>3, CallOkOfAnswer, MoveKeeps
  <2>5. /\ sigs' \in Seq(Checks) /\ Len(sigs') <= SIG_CACHE_MAX
        /\ \A j \in 1 .. Len(sigs') :
             sigs'[j] = c \/ \E i \in 1 .. Len(sigs) : sigs'[j] = sigs[i]
    <3> DEFINE v == Trimmed(Touched(c, sigs), SIG_CACHE_MAX)
    <3>1. sigs \in Seq(Checks) /\ SIG_CACHE_MAX \in Nat \ {0} /\ c \in Checks
      BY <1>0, <2>1 DEF CachesOk
    <3>2. Inserted(v, c, sigs, Checks, SIG_CACHE_MAX)
      BY <3>1, InsertKeeps
    <3>3. sigs' = v
      BY <2>2
    <3> HIDE DEF v
    <3> QED BY <3>2, <3>3 DEF Inserted
  <2>6. CachesOk(pubs, sigs)'
    BY <1>0, <2>1, <2>2, <2>5 DEF CachesOk
  <2> QED BY <2>4, <2>6 DEF CacheInv
<1>6. ASSUME NEW t \in Threads, Return(t) PROVE CacheInv'
  <2>1. CallOk(Idle)
    BY DEF CallOk, Calls, Idle, PhaseIsEarned
  <2>2. call' \in [Threads -> Calls] /\ \A u \in Threads : CallOk(call'[u])
    BY <1>6, <2>1, MoveKeeps DEF Return
  <2>3. CachesOk(pubs, sigs)'
    BY <1>0, <1>6 DEF Return
  <2> QED BY <2>2, <2>3 DEF CacheInv
<1>7. CASE UNCHANGED cacheVars
  BY <1>7 DEF CacheInv, cacheVars
<1> QED BY <1>1, <1>2, <1>3, <1>4, <1>5, <1>6, <1>7 DEF CacheNext, Step

(* What the invariant is for (verify_signature, _cached_public_key).       *)
LEMMA CacheInvImplies == CacheInv => CacheTypeOK /\ CachesAreSound
<1> SUFFICES ASSUME CacheInv PROVE CacheTypeOK /\ CachesAreSound
  OBVIOUS
<1>1. CacheTypeOK
  BY DEF CacheInv, CacheTypeOK, CachesOk
<1>2. CachesAreSound
  BY DEF CacheInv, CachesAreSound, CachesOk, CallOk
<1> QED BY <1>1, <1>2

(* Whatever the threads and the sizes of the caches, every check of a      *)
(* signature gets the answer it deserves, only successful checks and       *)
(* parsed keys are remembered, and the caches stay within their sizes.     *)
THEOREM CachesStaySound == CacheSpec => [](CacheTypeOK /\ CachesAreSound)
<1>1. CacheSpec => []CacheInv
  BY InitCacheInv, NextCacheInv, PTL DEF CacheSpec
<1> QED BY <1>1, CacheInvImplies, PTL

----------------------------------------------------------------------------
(* The caches in the run of the vectors: its steps are steps of the caches, *)
(* but for the reader of the published vectors, who may begin with empty    *)
(* ones.                                                                    *)

(* The answers so far are counted, which is all that is needed of them. *)
AnswersAreCounted == \E S : answers \in Seq(S)

(* A call that is verified has a place among the cases. *)
LEMMA CurrentIsCase ==
    ASSUME AnswersAreCounted, Verifying
    PROVE  Current \in DOMAIN Cases
<1>1. Len(answers) \in Nat
  BY DEF AnswersAreCounted
<1> DEFINE E == {Evaluated[i] : i \in DOMAIN Evaluated}
           S == {Scenarios[i] : i \in DOMAIN Scenarios}
<1>2. Evaluated \in Seq(E) /\ Scenarios \in Seq(S)
  BY CasesAssumption
<1> HIDE DEF E, S
<1>3. /\ Len(Evaluated) \in Nat /\ Len(Scenarios) \in Nat
      /\ Evaluated \in Seq(E \cup S) /\ Scenarios \in Seq(E \cup S)
  BY <1>2
<1>4. Len(Cases) = Len(Evaluated) + Len(Scenarios) /\ DOMAIN Cases = 1 .. Len(Cases)
  BY <1>3 DEF Cases
<1> QED BY <1>1, <1>3, <1>4 DEF Verifying, Current

(* What an ALLOW records in the context of a call leaves its receipt as it *)
(* is.                                                                     *)
LEMMA RecordedReceipt ==
    ASSUME NEW i \in DOMAIN Cases
    PROVE  Recorded(i).receipt = Cases[i].receipt
BY CasesAssumption DEF Recorded, RecordedBy

(* A signature the runner asks about is one of the checks. *)
LEMMA RunnerAsksForChecks ==
    ASSUME AnswersAreCounted, Verifying, Consulted(Recorded(Current))
    PROVE  ReceiptCheck(Recorded(Current)) \in Checks
<1>1. Current \in DOMAIN Cases
  BY CurrentIsCase
<1>2. Recorded(Current).receipt = Cases[Current].receipt
  BY <1>1, RecordedReceipt
<1>3. Cases[Current].receipt \notin {Absent, Bad}
  BY <1>2 DEF Consulted
<1>4. ReceiptCheck(Cases[Current]) \in Checks
  BY <1>1, <1>3, CasesAssumption
<1> QED BY <1>2, <1>4 DEF ReceiptCheck

(* The answers stay counted. *)
LEMMA NextCounts == AnswersAreCounted /\ [Next]_vars => AnswersAreCounted'
<1> SUFFICES ASSUME AnswersAreCounted, [Next]_vars PROVE AnswersAreCounted'
  OBVIOUS
<1>1. ASSUME NEW e, answers' = Append(answers, e) PROVE AnswersAreCounted'
  <2>1. PICK S : answers \in Seq(S)
    BY DEF AnswersAreCounted
  <2>2. answers \in Seq(S \cup {e})
    BY <2>1
  <2>3. answers' \in Seq(S \cup {e})
    BY <1>1, <2>2
  <2> QED BY <2>3 DEF AnswersAreCounted
<1>2. CASE answers' = <<>>
  <2>1. answers' \in Seq({})
    BY <1>2
  <2> QED BY <2>1 DEF AnswersAreCounted
<1>3. CASE answers' = answers
  BY <1>3 DEF AnswersAreCounted
<1>4. ASSUME NEW v, Conclude(v) PROVE AnswersAreCounted'
  BY <1>1, <1>4 DEF Conclude
<1>5. CASE Ask
  BY <1>3, <1>5 DEF Ask
<1>6. CASE ConcludeUnsigned
  BY <1>4, <1>6 DEF ConcludeUnsigned
<1>7. CASE ConcludeSigned
  BY <1>4, <1>7 DEF ConcludeSigned
<1>8. CASE Publish
  BY <1>2, <1>8 DEF Publish
<1>9. CASE Finish
  BY <1>3, <1>9 DEF Finish
<1>10. CASE \E t \in Threads \ {Runner} : Meanwhile(t)
  BY <1>3, <1>10 DEF Meanwhile
<1> QED BY <1>3, <1>5, <1>6, <1>7, <1>8, <1>9, <1>10 DEF Next, vars

(* A reader begins with what the process has left in the caches, or with   *)
(* empty ones; everything else is a step of the caches.                    *)
LEMMA StepOfCaches ==
    ASSUME AnswersAreCounted, [Next]_vars, ~Publish
    PROVE  [CacheNext]_cacheVars
<1> USE ConformanceAssumption
<1>1. CASE Ask
  <2>1. VerifySignature(Runner, ReceiptCheck(Recorded(Current)))
        /\ ReceiptCheck(Recorded(Current)) \in Checks
    BY <1>1, RunnerAsksForChecks DEF Ask
  <2> QED BY <2>1 DEF CacheNext
<1>2. CASE ConcludeUnsigned
  BY <1>2 DEF ConcludeUnsigned, cacheVars
<1>3. CASE ConcludeSigned
  BY <1>3 DEF ConcludeSigned, CacheNext
<1>4. CASE Finish
  BY <1>4 DEF Finish, cacheVars
<1>5. CASE Step(Runner)
  BY <1>5 DEF CacheNext
<1>6. CASE \E t \in Threads \ {Runner} : Meanwhile(t)
  <2>1. PICK t \in Threads \ {Runner} : Meanwhile(t)
    BY <1>6
  <2>2. Step(t) \/ Return(t) \/ \E c \in Checks : VerifySignature(t, c)
    BY <2>1 DEF Meanwhile
  <2> QED BY <2>2 DEF CacheNext
<1>7. CASE UNCHANGED vars
  BY <1>7 DEF vars, cacheVars
<1> QED BY <1>1, <1>2, <1>3, <1>4, <1>5, <1>6, <1>7 DEF Next

(* Empty caches remember nothing wrong. *)
LEMMA PublishKeepsCaches == CacheInv /\ Publish => CacheInv'
<1> SUFFICES ASSUME CacheInv, Publish PROVE CacheInv'
  OBVIOUS
<1>1. call' = call
  BY DEF Publish
<1>2. CachesOk(pubs', sigs')
  <2>1. CASE pubs' = <<>> /\ sigs' = <<>>
    <3>1. CachesOk(<<>>, <<>>)
      BY CryptoCacheAssumption DEF CachesOk
    <3> QED BY <2>1, <3>1
  <2>2. CASE UNCHANGED <<pubs, sigs>>
    BY <2>2 DEF CacheInv
  <2> QED BY <2>1, <2>2 DEF Publish
<1> QED BY <1>1, <1>2 DEF CacheInv

(* Whatever vectors are verified and whoever shares the process: answers   *)
(* of verify_signature are what the signatures deserve, and the caches     *)
(* remember nothing wrong and stay within their sizes.                     *)
THEOREM CachesServeTheRunner == Spec => []CachesAreSound
<1>1. Init => CacheInv /\ AnswersAreCounted
  <2> SUFFICES ASSUME Init PROVE CacheInv /\ AnswersAreCounted
    OBVIOUS
  <2>1. answers \in Seq({})
    BY DEF Init
  <2> QED BY <2>1, InitCacheInv DEF Init, AnswersAreCounted
<1>2. CacheInv /\ AnswersAreCounted /\ [Next]_vars => CacheInv' /\ AnswersAreCounted'
  BY NextCacheInv, NextCounts, StepOfCaches, PublishKeepsCaches
<1>3. CacheInv => CachesAreSound
  BY CacheInvImplies
<1> QED BY <1>1, <1>2, <1>3, PTL DEF Spec

----------------------------------------------------------------------------
(***************************************************************************)
(* The run of the vectors in company gives what each gives alone.  Alone,  *)
(* without threads and caches, a call that follows those before it is told *)
(* its code, and so is a published one when all have been verified.        *)
(***************************************************************************)

Passes(code) == code = ""

\* The calls among the first n that are to be allowed.
AllowedOf(n) == {j \in 1 .. n : Passes(Cases[j].expected)}

Published(i) ==
    IF Passes(Cases[i].expected) THEN "ANTI_REPLAY_FAILURE" ELSE Cases[i].expected

Alone ==
    /\ \A i \in DOMAIN Cases :
          PermitCode(RecordedBy(AllowedOf(i - 1), i)) = Cases[i].expected
    /\ \A i \in DOMAIN Evaluated :
          PermitCode(RecordedBy(AllowedOf(Len(Cases)), i)) = Published(i)

AnswersFit ==
    \/ /\ round = "run" /\ Len(answers) <= Len(Cases)
       /\ used = AllowedOf(Len(answers))
       /\ \A i \in 1 .. Len(answers) : answers[i] = Cases[i].expected
    \/ /\ round \in {"replay", "end"} /\ Len(answers) <= Len(Evaluated)
       /\ used = AllowedOf(Len(Cases))
       /\ \A i \in 1 .. Len(answers) : answers[i] = Published(i)

\* What the runner has asked for is the receipt of the call it is at.
RunnerFits ==
    call[Runner] # Idle =>
        /\ Verifying /\ Consulted(Recorded(Current))
        /\ call[Runner].check = ReceiptCheck(Recorded(Current))

CompanyInv == CacheInv /\ AnswersAreCounted /\ AnswersFit /\ RunnerFits

(* The cases are the vectors and after them the scenarios. *)
LEMMA CasesFacts ==
    /\ Len(Evaluated) \in Nat /\ Len(Cases) \in Nat /\ Len(Evaluated) <= Len(Cases)
    /\ DOMAIN Evaluated = 1 .. Len(Evaluated) /\ DOMAIN Cases = 1 .. Len(Cases)
    /\ \A i \in DOMAIN Evaluated : Cases[i] = Evaluated[i]
<1> DEFINE E == {Evaluated[i] : i \in DOMAIN Evaluated}
           S == {Scenarios[i] : i \in DOMAIN Scenarios}
<1>1. Evaluated \in Seq(E) /\ Scenarios \in Seq(S)
  BY CasesAssumption
<1> HIDE DEF E, S
<1>2. /\ Len(Evaluated) \in Nat /\ Len(Scenarios) \in Nat
      /\ Evaluated \in Seq(E \cup S) /\ Scenarios \in Seq(E \cup S)
  BY <1>1
<1> QED BY <1>2 DEF Cases

(* What is counted is a sequence with a length. *)
LEMMA AnswersFacts ==
    ASSUME AnswersAreCounted, NEW code, answers' = Append(answers, code)
    PROVE  /\ Len(answers) \in Nat /\ Len(answers') = Len(answers) + 1
           /\ \A i \in 1 .. Len(answers) : answers'[i] = answers[i]
           /\ answers'[Len(answers) + 1] = code
<1>1. PICK S : answers \in Seq(S)
  BY DEF AnswersAreCounted
<1>2. answers \in Seq(S \cup {code})
  BY <1>1
<1> QED BY <1>2

(* No denial is an ALLOW, and an ALLOW is published for a denial. *)
LEMMA PublishedRefuses == \A i : ~Passes(Published(i))
  BY Zenon DEF Published, Passes

(* What a verdict records. *)
LEMMA ConcludeFacts ==
    ASSUME NEW v, Conclude(v)
    PROVE  /\ answers' = Append(answers, PermitCode(v)) /\ round' = round
           /\ Passes(PermitCode(v)) => used' = used \cup {Current}
           /\ ~Passes(PermitCode(v)) => used' = used
  BY Zenon DEF Conclude, Passes

(* One more call is allowed, or none. *)
LEMMA AllowedOfNext ==
    ASSUME NEW n \in Nat
    PROVE  AllowedOf(n + 1) = IF Passes(Cases[n + 1].expected)
                              THEN AllowedOf(n) \cup {n + 1} ELSE AllowedOf(n)
<1>1. 1 .. n + 1 = (1 .. n) \cup {n + 1}
  OBVIOUS
<1> QED BY <1>1 DEF AllowedOf

(* A verdict in company is the one alone. *)
LEMMA ConcludeFits ==
    ASSUME Alone, CompanyInv, Verifying, Conclude(Recorded(Current))
    PROVE  AnswersFit'
<1> DEFINE n == Len(answers)
           code == PermitCode(Recorded(Current))
<1>1. /\ answers' = Append(answers, code) /\ round' = round
      /\ Passes(code) => used' = used \cup {n + 1}
      /\ ~Passes(code) => used' = used
      /\ code = PermitCode(RecordedBy(used, n + 1))
  BY ConcludeFacts DEF Recorded, Current
<1> HIDE DEF code
<1>2. /\ n \in Nat /\ Len(answers') = n + 1
      /\ \A i \in 1 .. n : answers'[i] = answers[i]
      /\ answers'[n + 1] = code
      /\ Len(answers) = n
  BY <1>1, AnswersFacts DEF CompanyInv
<1> HIDE DEF n
<1>3. CASE round = "run"
  <2>1. n < Len(Cases) /\ used = AllowedOf(n)
    BY <1>2, <1>3 DEF Verifying, CompanyInv, AnswersFit
  <2>2. n + 1 \in DOMAIN Cases /\ (n + 1) - 1 = n
    BY <1>2, <2>1, CasesFacts
  <2>3. code = Cases[n + 1].expected
    BY <1>1, <2>1, <2>2 DEF Alone
  <2>4. used' = AllowedOf(n + 1)
    BY <1>1, <1>2, <2>1, <2>3, AllowedOfNext
  <2>5. \A i \in 1 .. n + 1 : answers'[i] = Cases[i].expected
    <3>1. \A i \in 1 .. n : answers[i] = Cases[i].expected
      BY <1>2, <1>3 DEF CompanyInv, AnswersFit
    <3> QED BY <1>2, <2>3, <3>1
  <2>6. n + 1 <= Len(Cases)
    BY <1>2, <2>1, CasesFacts
  <2> QED BY <1>1, <1>2, <1>3, <2>4, <2>5, <2>6 DEF AnswersFit
<1>4. CASE round = "replay"
  <2>1. n < Len(Evaluated) /\ used = AllowedOf(Len(Cases))
    BY <1>2, <1>4 DEF Verifying, CompanyInv, AnswersFit
  <2>2. n + 1 \in DOMAIN Evaluated
    BY <1>2, <2>1, CasesFacts
  <2>3. code = Published(n + 1)
    BY <1>1, <2>1, <2>2 DEF Alone
  <2>4. used' = AllowedOf(Len(Cases))
    BY <1>1, <2>1, <2>3, PublishedRefuses
  <2>5. \A i \in 1 .. n + 1 : answers'[i] = Published(i)
    <3>1. \A i \in 1 .. n : answers[i] = Published(i)
      BY <1>2, <1>4 DEF CompanyInv, AnswersFit
    <3> QED BY <1>2, <2>3, <3>1
  <2>6. n + 1 <= Len(Evaluated)
    BY <1>2, <2>1, CasesFacts
  <2>7. \A i : Published(i)' = Published(i)
    BY DEF Published
  <2> QED BY <1>1, <1>2, <1>4, <2>4, <2>5, <2>6 DEF AnswersFit
<1> QED BY <1>3, <1>4 DEF Verifying

(* A step of verify_signature is one of a running check and goes on with it. *)
LEMMA StepKeepsCheck ==
    ASSUME CacheInv, NEW t \in Threads, Step(t)
    PROVE  /\ call[t] # Idle /\ call'[t].check = call[t].check
           /\ \A u \in Threads \ {t} : call'[u] = call[u]
<1>1. call[t] # Idle
  <2>1. call[t].phase \in {"lookup", "key", "parsed", "remember"}
    BY DEF Step, Lookup, LookupKey, RememberKey, Remember
  <2>2. Idle.phase = "idle"
    BY DEF Idle
  <2> QED BY <2>1, <2>2
<1>2. \E to : Move(t, to) /\ to.check = call[t].check
  <2>1. CASE Lookup(t)
    BY <2>1 DEF Lookup, Answer, At
  <2>2. CASE LookupKey(t)
    BY <2>2 DEF LookupKey, ThenVerify, Answer, At
  <2>3. CASE RememberKey(t)
    BY <2>3 DEF RememberKey, ThenVerify, Answer, At
  <2>4. CASE Remember(t)
    BY <2>4 DEF Remember, Answer
  <2> QED BY <2>1, <2>2, <2>3, <2>4 DEF Step
<1>3. call \in [Threads -> Calls]
  BY DEF CacheInv
<1> QED BY <1>1, <1>2, <1>3 DEF Move

(* The verdict of a signed call is about the call, as its signature is     *)
(* what it deserves.                                                       *)
LEMMA ConcludeSignedFits ==
    ASSUME Alone, CompanyInv, ConcludeSigned
    PROVE  AnswersFit'
<1> DEFINE v == Recorded(Current)
<1>1. /\ Verifying /\ Consulted(v) /\ Return(Runner)
      /\ Conclude([v EXCEPT !.receipt.signed = call[Runner].valid])
  BY DEF ConcludeSigned
<1>2. call[Runner].phase = "answered" /\ call[Runner] # Idle
  BY <1>1 DEF Return, Idle
<1>3. call[Runner].check = ReceiptCheck(v)
  BY <1>2 DEF CompanyInv, RunnerFits
<1>4. call[Runner].valid = Valid(ReceiptCheck(v))
  BY <1>2, <1>3, CacheInvImplies, ConformanceAssumption DEF CompanyInv, CachesAreSound
<1>5. v.receipt \notin {Absent, Bad}
  BY <1>1 DEF Consulted
<1>6. Current \in DOMAIN Cases
  BY <1>1, CurrentIsCase DEF CompanyInv
<1>7. PICK allowed \in {{}, {j \in DOMAIN Cases : Cases[j].expected = ""}} :
            v = RecordedBy(allowed, Current)
  <2> DEFINE all == {j \in DOMAIN Cases : Cases[j].expected = ""}
  <2>1. used \subseteq all
    <3>1. PICK n \in 0 .. Len(Cases) : used = AllowedOf(n)
      <4>1. Len(answers) \in Nat
        BY DEF CompanyInv, AnswersAreCounted
      <4> QED BY <4>1, CasesFacts DEF CompanyInv, AnswersFit
    <3>2. \A j \in 1 .. n : j \in DOMAIN Cases
      BY CasesFacts
    <3>3. AllowedOf(n) = {j \in 1 .. n : Cases[j].expected = ""}
      BY DEF AllowedOf, Passes
    <3> QED BY <3>1, <3>2, <3>3
  <2>2. v \in {RecordedBy({}, Current), RecordedBy(all, Current)}
    BY <2>1 DEF Recorded, RecordedBy
  <2> QED BY <2>2
<1> HIDE DEF v
<1>8. [v EXCEPT !.receipt.signed = Valid(ReceiptCheck(v))] = v
  BY <1>5, <1>6, <1>7, SignaturesAssumption
<1>9. Conclude(v)
  BY <1>1, <1>4, <1>8
<1> QED BY <1>1, <1>9, ConcludeFits DEF v

(* Every step of the runner, of the reader and of those who share the      *)
(* process keeps the answers right.                                        *)
LEMMA CompanyStep ==
    ASSUME Alone, CompanyInv, [Next]_vars
    PROVE  CompanyInv'
<1> USE ConformanceAssumption
<1>1. CacheInv' /\ AnswersAreCounted'
  BY NextCacheInv, NextCounts, StepOfCaches, PublishKeepsCaches DEF CompanyInv
<1>2. ASSUME UNCHANGED <<round, answers, used>> PROVE AnswersFit'
  BY <1>2 DEF CompanyInv, AnswersFit, Published, AllowedOf
<1>3. ASSUME UNCHANGED <<round, answers, used>>, call'[Runner] = call[Runner]
      PROVE  RunnerFits'
  BY <1>3 DEF CompanyInv, RunnerFits, Verifying, Current, Recorded
<1>4. CASE UNCHANGED vars
  BY <1>1, <1>2, <1>3, <1>4 DEF vars, CompanyInv
<1>5. CASE Ask
  <2>1. /\ Verifying /\ Consulted(Recorded(Current))
        /\ call' = [call EXCEPT ![Runner] = At("lookup", ReceiptCheck(Recorded(Current)))]
        /\ UNCHANGED <<round, answers, used>>
    BY <1>5 DEF Ask, VerifySignature, Move
  <2>2. call'[Runner].check = ReceiptCheck(Recorded(Current))
    BY <2>1 DEF CompanyInv, CacheInv, At
  <2>3. RunnerFits'
    BY <2>1, <2>2 DEF RunnerFits, Verifying, Current, Recorded
  <2> QED BY <1>1, <1>2, <2>1, <2>3 DEF CompanyInv
<1>6. CASE ConcludeUnsigned
  <2>1. Verifying /\ ~Consulted(Recorded(Current)) /\ Conclude(Recorded(Current)) /\ call' = call
    BY <1>6 DEF ConcludeUnsigned
  <2>2. call'[Runner] = Idle
    BY <2>1 DEF CompanyInv, RunnerFits
  <2> QED BY <1>1, <2>1, <2>2, ConcludeFits DEF CompanyInv, RunnerFits
<1>7. CASE ConcludeSigned
  <2>1. call' = [call EXCEPT ![Runner] = Idle]
    BY <1>7 DEF ConcludeSigned, Return, Move
  <2>2. call'[Runner] = Idle
    BY <2>1 DEF CompanyInv, CacheInv
  <2> QED BY <1>1, <1>7, <2>2, ConcludeSignedFits DEF CompanyInv, RunnerFits
<1>8. CASE Publish
  <2>1. /\ round = "run" /\ round' = "replay" /\ answers' = <<>> /\ ~Verifying
        /\ used' = used /\ call'[Runner] = Idle
    BY <1>8 DEF Publish
  <2>2. Len(answers) \in Nat
    BY DEF CompanyInv, AnswersAreCounted
  <2>3. used = AllowedOf(Len(Cases))
    BY <2>1, <2>2, CasesFacts DEF Verifying, CompanyInv, AnswersFit
  <2>4. Len(answers') = 0
    BY <2>1
  <2>5. AnswersFit'
    BY <2>1, <2>3, <2>4, CasesFacts DEF AnswersFit
  <2> QED BY <1>1, <2>1, <2>5 DEF CompanyInv, RunnerFits
<1>9. CASE Finish
  <2>1. round = "replay" /\ ~Verifying /\ round' = "end" /\ UNCHANGED <<call, answers, used>>
    BY <1>9 DEF Finish
  <2>2. call'[Runner] = Idle
    BY <2>1 DEF CompanyInv, RunnerFits
  <2>3. AnswersFit'
    BY <2>1 DEF CompanyInv, AnswersFit, Published, AllowedOf
  <2> QED BY <1>1, <2>2, <2>3 DEF CompanyInv, RunnerFits
<1>10. CASE Step(Runner) /\ UNCHANGED <<round, answers, used>>
  <2>1. call[Runner] # Idle /\ call'[Runner].check = call[Runner].check
    BY <1>10, StepKeepsCheck DEF CompanyInv
  <2>2. RunnerFits'
    BY <1>10, <2>1 DEF CompanyInv, RunnerFits, Verifying, Current, Recorded
  <2> QED BY <1>1, <1>2, <1>10, <2>2 DEF CompanyInv
<1>11. CASE \E t \in Threads \ {Runner} : Meanwhile(t)
  <2>1. PICK t \in Threads \ {Runner} : Meanwhile(t)
    BY <1>11
  <2>2. UNCHANGED <<round, answers, used>>
    BY <2>1 DEF Meanwhile
  <2>3. call'[Runner] = call[Runner]
    <3>1. CASE Step(t)
      BY <3>1, StepKeepsCheck DEF CompanyInv
    <3>2. CASE Return(t) \/ \E c \in OtherChecks : VerifySignature(t, c)
      BY <3>2 DEF Return, VerifySignature, Move, CompanyInv, CacheInv
    <3> QED BY <2>1, <3>1, <3>2 DEF Meanwhile
  <2> QED BY <1>1, <1>2, <1>3, <2>2, <2>3 DEF CompanyInv
<1> QED BY <1>4, <1>5, <1>6, <1>7, <1>8, <1>9, <1>10, <1>11 DEF Next

(* The answers of the runner and of the reader. *)
LEMMA CompanyChangesNothing == ASSUME Alone PROVE Spec => []CompanyInv
<1>1. Init => CompanyInv
  <2> SUFFICES ASSUME Init PROVE CompanyInv
    OBVIOUS
  <2>1. answers = <<>> /\ used = {} /\ round = "run" /\ answers \in Seq({}) /\ Len(answers) = 0
    BY DEF Init
  <2>2. call[Runner] = Idle
    BY ConformanceAssumption DEF Init, CacheInit
  <2>3. AllowedOf(0) = {}
    BY DEF AllowedOf
  <2>4. CacheInv
    BY InitCacheInv DEF Init
  <2> QED BY <2>1, <2>2, <2>3, <2>4, CasesFacts
          DEF CompanyInv, AnswersAreCounted, AnswersFit, RunnerFits
<1>2. CompanyInv /\ [Next]_vars => CompanyInv'
  BY CompanyStep
<1> QED BY <1>1, <1>2, PTL DEF Spec

(* Vectors that get their codes alone get them in company: through caches  *)
(* of any size, with any threads checking anything meanwhile (run_vectors, *)
(* verify_signature).                                                      *)
THEOREM CompanyKeepsCodes ==
    ASSUME Alone
    PROVE  Spec => []VectorsGetTheirCodes
<1>1. CompanyInv => VectorsGetTheirCodes
  <2> SUFFICES ASSUME CompanyInv, round = "run"
               PROVE  \A i \in DOMAIN answers : answers[i] = Cases[i].expected
    BY DEF VectorsGetTheirCodes
  <2>1. DOMAIN answers = 1 .. Len(answers)
    BY DEF CompanyInv, AnswersAreCounted
  <2> QED BY <2>1 DEF CompanyInv, AnswersFit
<1> QED BY <1>1, CompanyChangesNothing, PTL

(* And so does whoever verifies the published ones, in the same process or *)
(* in another.                                                             *)
THEOREM CompanyReplays ==
    ASSUME Alone
    PROVE  Spec => []PublishedVectorsReplay
<1>1. CompanyInv => PublishedVectorsReplay
  <2> SUFFICES ASSUME CompanyInv, round \in {"replay", "end"}, NEW i \in DOMAIN answers
               PROVE  answers[i] = IF Passes(Evaluated[i].expected)
                                   THEN "ANTI_REPLAY_FAILURE" ELSE Evaluated[i].expected
    BY Zenon DEF PublishedVectorsReplay, Passes
  <2>1. DOMAIN answers = 1 .. Len(answers) /\ Len(answers) \in Nat
    BY DEF CompanyInv, AnswersAreCounted
  <2>2. answers[i] = Published(i) /\ i \in DOMAIN Evaluated
    BY <2>1, CasesFacts DEF CompanyInv, AnswersFit
  <2> QED BY <2>2, CasesFacts DEF Published
<1> QED BY <1>1, CompanyChangesNothing, PTL
============================================================================
