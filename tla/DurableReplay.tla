--------------------------- MODULE DurableReplay ---------------------------
(***************************************************************************)
(* The replay transaction in processes that crash and are started again.   *)
(* A process keeps its ReplayCache objects in memory and loses them;       *)
(* several processes may open one SQLiteReplayCache file                   *)
(* (orprg_eval/persistent_replay.py), whose rows survive.  A crash between *)
(* reserve and commit leaves a row with committed=0 behind, and nothing in *)
(* the code ever removes it.                                               *)
(***************************************************************************)
EXTENDS ReplayTransaction

CONSTANTS
    Processes,
    Host,           \* Host[c]: the process that runs call c
    Memory,         \* Memory[p]: the stores that live in process p
    MaxCrashes      \* bound on the crashes of a behaviour

ASSUME HostAssumption ==
    /\ Host \in [Calls -> Processes]
    /\ Memory \in [Processes -> SUBSET Stores]
    /\ MaxCrashes \in Nat
    (* a call uses the memory of no other process *)
    /\ \A t \in Tokens : \A p \in Processes :
          SpecOf(t).store \in Memory[p] => Host[t[1]] = p

VARIABLES
    dead,           \* calls that were running when their process crashed
    crashes         \* number of crashes so far

allVars == <<vars, dead, crashes>>

InMemory(p) == {Slot(t) : t \in {u \in Tokens : SpecOf(u).store \in Memory[p]}}
Durable == Slots \ UNION {InMemory(p) : p \in Processes}

(* A call that has not begun is a request still to come: it is served by   *)
(* whatever process is running then.                                       *)
Begun(c) == ~(pc[c] = "check" /\ idx[c] = 1)
Running(c) == Begun(c) /\ ~Answered(c) /\ c \notin dead

DurableTypeOK ==
    /\ TypeOK
    /\ dead \subseteq Calls
    /\ crashes \in 0 .. MaxCrashes

DurableInit ==
    /\ Init
    /\ dead = {}
    /\ crashes = 0

DurableStep(c) ==
    /\ c \notin dead
    /\ Step(c)
    /\ UNCHANGED <<dead, crashes>>

(* Mutant: a restart that clears unfinished rows left by its own process,  *)
(* and the used ones with them.                                            *)
CrashTruncates(p) ==
    LET gone == {c \in Calls : Running(c) /\ Host[c] = p} IN
    /\ crashes < MaxCrashes
    /\ crashes' = crashes + 1
    /\ dead' = dead \cup gone
    /\ seen' = {}
    /\ reserved' = [s \in Slots |-> NoToken]
    /\ res' = [t \in Tokens |->
                  IF t[1] \in gone /\ res[t] = "active" THEN "lost" ELSE res[t]]
    /\ UNCHANGED <<pc, idx, code>>

(* Mutant: a process clears, when it starts, what earlier crashes left.    *)
CrashSweepsReservations(p) ==
    LET gone == {c \in Calls : Running(c) /\ Host[c] = p} IN
    /\ crashes < MaxCrashes
    /\ crashes' = crashes + 1
    /\ dead' = dead \cup gone
    /\ seen' = seen \ InMemory(p)
    /\ reserved' = [s \in Slots |-> IF s \in InMemory(p) \/ reserved[s] \in dead \X Nat
                                   THEN NoToken ELSE reserved[s]]
    /\ res' = [t \in Tokens |->
                  IF t[1] \in gone /\ res[t] = "active" THEN "lost" ELSE res[t]]
    /\ UNCHANGED <<pc, idx, code>>

(* Mutant: the memory of the process is taken to survive. *)
CrashKeepsMemory(p) ==
    LET gone == {c \in Calls : Running(c) /\ Host[c] = p} IN
    /\ crashes < MaxCrashes
    /\ crashes' = crashes + 1
    /\ dead' = dead \cup gone
    /\ res' = [t \in Tokens |->
                  IF t[1] \in gone /\ res[t] = "active" THEN "lost" ELSE res[t]]
    /\ UNCHANGED <<seen, reserved, pc, idx, code>>

(* Power off: calls stop where they are, and neither release() nor __del__ *)
(* runs.  The process that is started next has new, empty caches.          *)
Crash(p) ==
    LET gone == {c \in Calls : Running(c) /\ Host[c] = p} IN
    /\ crashes < MaxCrashes
    /\ crashes' = crashes + 1
    /\ dead' = dead \cup gone
    /\ seen' = seen \ InMemory(p)
    /\ reserved' = [s \in Slots |-> IF s \in InMemory(p) THEN NoToken ELSE reserved[s]]
    /\ res' = [t \in Tokens |->
                  IF t[1] \in gone /\ res[t] = "active" THEN "lost" ELSE res[t]]
    /\ UNCHANGED <<pc, idx, code>>

DurableNext == (\E c \in Calls : DurableStep(c)) \/ (\E p \in Processes : Crash(p))

DurableSpec == DurableInit /\ [][DurableNext]_allVars

(* Every thread of a running process keeps running: no method waits for    *)
(* another call, and a busy SQLite database is an error after 30 seconds.  *)
DurableFairSpec == DurableSpec /\ \A c \in Calls : WF_allVars(DurableStep(c))

----------------------------------------------------------------------------

(* Whatever crashes and restarts happen, no two calls are allowed on the   *)
(* same durable nonce ("the SQLite-backed cache does not reset the         *)
(* single-use decision", persistent_replay_test.py).                       *)
DurableSingleUse ==
    \A c, d \in Calls :
        (c # d /\ Allowed(c) /\ Allowed(d)) =>
            {Slot(t) : t \in TokensOf(c)} \cap {Slot(t) : t \in TokensOf(d)} \cap Durable = {}

(* The answers stand: a durable nonce of an allowed call is on disk as     *)
(* used, so that it is denied after any restart.                           *)
AllowSurvives ==
    \A c \in Calls : Allowed(c) =>
        \A t \in TokensOf(c) : Slot(t) \in Durable => Slot(t) \in seen

(* A nonce that is neither used up nor held by a running call, yet refused *)
(* to everybody, is the price of a crash or of failing releases.           *)
OrphansHaveACause ==
    \A t \in Tokens :
        (Holds(t) /\ ~Running(t[1])) =>
            /\ Slot(t) \in Durable
            /\ t[1] \in dead \/ (Answered(t[1]) /\ MayRaise(t))

(* Such a nonce is lost for good: no call ever gets it.                    *)
Orphaned(s) == reserved[s] # NoToken /\ ~Running(reserved[s][1])

OrphansAreForever == [][\A s \in Slots : Orphaned(s) => Orphaned(s)']_allVars

(* A call whose process stays up answers, and the others answer after the  *)
(* restart.                                                                *)
EveryCallEnds == \A c \in Calls : <>(Answered(c) \/ c \in dead)
============================================================================
