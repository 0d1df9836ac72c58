--------------------------- MODULE SchemaUpgrade ---------------------------
(***************************************************************************)
(* Opening a SQLiteReplayCache (orprg_eval/persistent_replay.py, _init):   *)
(* the v2.2.5 table used_nonces is upgraded in place, statement by         *)
(* statement and each statement a transaction of its own, while other      *)
(* processes open the same file, already use it, or crash.                 *)
(*                                                                         *)
(* A v2.2.5 process inserts bare (domain, nonce) rows and takes a          *)
(* successful insert for a fresh nonce; it is external, known from the     *)
(* module's documentation and from the table the upgrade starts with.      *)
(***************************************************************************)
EXTENDS Naturals, FiniteSets

CONSTANTS
    Openers,        \* processes that open the file with this version
    Nonces,
    Nobody,         \* reservation_id NULL
    MaxFailures     \* bound on crashes and errors of a behaviour

ASSUME UpgradeAssumption == Nobody \notin Openers /\ MaxFailures \in Nat

VARIABLES
    columns,    \* columns of the table; {} before it is created
    indexed,    \* idx_used_nonces_state exists
    row,        \* row[n]: no row, a row without the column, or committed=0, 1
    holder,     \* holder[n]: the opener whose reservation_id the row carries
    pc,         \* where each opener is
    snapshot,   \* the columns each opener has read
    uses,       \* uses[n]: how often nonce n has been accepted
    failures

vars == <<columns, indexed, row, holder, pc, snapshot, uses, failures>>

AllColumns == {"nonce", "reservation_id", "committed"}
Statements == {"create", "inspect", "reservation_id", "committed", "index"}

TypeOK ==
    /\ columns \subseteq AllColumns
    /\ indexed \in BOOLEAN
    /\ row \in [Nonces -> {"absent", "bare", "zero", "one"}]
    /\ holder \in [Nonces -> Openers \cup {Nobody}]
    /\ pc \in [Openers -> Statements \cup {"down", "ready"}]
    /\ snapshot \in [Openers -> SUBSET AllColumns]
    /\ uses \in [Nonces -> Nat]
    /\ failures \in 0 .. MaxFailures

(* No file yet, or a v2.2.5 file with some nonces in it. *)
Init ==
    /\ \E old \in SUBSET Nonces :
          /\ columns \in IF old = {} THEN {{}, {"nonce"}} ELSE {{"nonce"}}
          /\ row = [n \in Nonces |-> IF n \in old THEN "bare" ELSE "absent"]
          /\ uses = [n \in Nonces |-> IF n \in old THEN 1 ELSE 0]
    /\ indexed = FALSE
    /\ holder = [n \in Nonces |-> Nobody]
    /\ pc = [o \in Openers |-> "down"]
    /\ snapshot = [o \in Openers |-> {}]
    /\ failures = 0

Goto(o, place) == pc' = [pc EXCEPT ![o] = place]

----------------------------------------------------------------------------
(* _init, one statement at a time *)

Start(o) ==
    /\ pc[o] = "down"
    /\ Goto(o, "create")
    /\ UNCHANGED <<columns, indexed, row, holder, snapshot, uses, failures>>

CreateTable(o) ==
    /\ pc[o] = "create"
    /\ columns' = IF columns = {} THEN {"nonce"} ELSE columns
    /\ Goto(o, "inspect")
    /\ UNCHANGED <<indexed, row, holder, snapshot, uses, failures>>

(* Mutant: the columns are read only the first time. *)
InspectOnce(o) ==
    /\ pc[o] = "inspect"
    /\ snapshot' = [snapshot EXCEPT ![o] = IF @ = {} THEN columns ELSE @]
    /\ Goto(o, "reservation_id")
    /\ UNCHANGED <<columns, indexed, row, holder, uses, failures>>

Inspect(o) ==
    /\ pc[o] = "inspect"
    /\ snapshot' = [snapshot EXCEPT ![o] = columns]
    /\ Goto(o, "reservation_id")
    /\ UNCHANGED <<columns, indexed, row, holder, uses, failures>>

(* Mutants: the new column's default is 0; rows that predate it are dropped. *)
FillWithZero(r) == IF r = "bare" THEN "zero" ELSE r
FillByDeleting(r) == IF r = "bare" THEN "absent" ELSE r

(* The value of committed in a row that was written without it. *)
Fill(r) == IF r = "bare" THEN "one" ELSE r

(* Mutant: a duplicate column is taken for success of the whole upgrade.   *)
AddColumnTolerant(o, column, next) ==
    /\ pc[o] = column
    /\ IF column \in snapshot[o] THEN Goto(o, next) /\ UNCHANGED <<columns, row>>
       ELSE IF column \in columns THEN Goto(o, "ready") /\ UNCHANGED <<columns, row>>
       ELSE /\ columns' = columns \cup {column}
            /\ row' = IF column = "committed" THEN [n \in Nonces |-> Fill(row[n])] ELSE row
            /\ Goto(o, next)
    /\ UNCHANGED <<indexed, holder, snapshot, uses, failures>>

(* ALTER TABLE, if the column was not there when the columns were read;    *)
(* it raises if somebody has added the column since.                       *)
AddColumn(o, column, next) ==
    /\ pc[o] = column
    /\ IF column \in snapshot[o] THEN Goto(o, next) /\ UNCHANGED <<columns, row>>
       ELSE IF column \in columns THEN Goto(o, "down") /\ UNCHANGED <<columns, row>>
       ELSE /\ columns' = columns \cup {column}
            /\ row' = IF column = "committed" THEN [n \in Nonces |-> Fill(row[n])] ELSE row
            /\ Goto(o, next)
    /\ UNCHANGED <<indexed, holder, snapshot, uses, failures>>

CreateIndex(o) ==
    /\ pc[o] = "index"
    /\ indexed' = TRUE
    /\ Goto(o, "ready")
    /\ UNCHANGED <<columns, row, holder, snapshot, uses, failures>>

Open(o) ==
    \/ Start(o) \/ CreateTable(o) \/ Inspect(o)
    \/ AddColumn(o, "reservation_id", "committed")
    \/ AddColumn(o, "committed", "index")
    \/ CreateIndex(o)

(* A statement raises (the file is busy), or the process is killed.        *)
Fail(o) ==
    /\ failures < MaxFailures
    /\ pc[o] # "down"
    /\ failures' = failures + 1
    /\ Goto(o, "down")
    /\ UNCHANGED <<columns, indexed, row, holder, snapshot, uses>>

----------------------------------------------------------------------------
(* The table in use *)

Accept(n) == uses' = [uses EXCEPT ![n] = @ + 1]

(* A v2.2.5 process uses a nonce; in an upgraded table the new columns     *)
(* take their defaults.                                                    *)
LegacyUse(n) ==
    /\ columns # {}
    /\ row[n] = "absent"
    /\ row' = [row EXCEPT ![n] = IF "committed" \in columns THEN Fill("bare") ELSE "bare"]
    /\ Accept(n)
    /\ UNCHANGED <<columns, indexed, holder, pc, snapshot, failures>>

Reserve(o, n) ==
    /\ pc[o] = "ready"
    /\ row[n] = "absent"
    /\ row' = [row EXCEPT ![n] = "zero"]
    /\ holder' = [holder EXCEPT ![n] = o]
    /\ UNCHANGED <<columns, indexed, pc, snapshot, uses, failures>>

CommitRow(o, n) ==
    /\ pc[o] = "ready"
    /\ holder[n] = o /\ row[n] = "zero"
    /\ row' = [row EXCEPT ![n] = "one"]
    /\ holder' = [holder EXCEPT ![n] = Nobody]
    /\ Accept(n)
    /\ UNCHANGED <<columns, indexed, pc, snapshot, failures>>

ReleaseRow(o, n) ==
    /\ pc[o] = "ready"
    /\ holder[n] = o /\ row[n] = "zero"
    /\ row' = [row EXCEPT ![n] = "absent"]
    /\ holder' = [holder EXCEPT ![n] = Nobody]
    /\ UNCHANGED <<columns, indexed, pc, snapshot, uses, failures>>

Next ==
    \/ \E o \in Openers : Open(o) \/ Fail(o)
    \/ \E o \in Openers, n \in Nonces : Reserve(o, n) \/ CommitRow(o, n) \/ ReleaseRow(o, n)
    \/ \E n \in Nonces : LegacyUse(n)

Spec == Init /\ [][Next]_vars

(* A process whose opening raised is started again by its operator.        *)
FairSpec == Spec /\ \A o \in Openers : WF_vars(Open(o))

----------------------------------------------------------------------------

(* A cache whose constructor has returned finds the whole new table,       *)
(* whatever others were doing to it: reserve and commit never miss a       *)
(* column.                                                                 *)
ReadyIsUpgraded ==
    \A o \in Openers : pc[o] = "ready" => columns = AllColumns /\ indexed

(* Old and new versions together accept a nonce at most once. *)
AcceptedOnce == \A n \in Nonces : uses[n] <= 1

(* Once the column is there, committed=1 is exactly "accepted", for rows   *)
(* of both versions ("existing rows are treated as committed",             *)
(* persistent_replay.py:3-4): it is what count() reports.                  *)
CommittedMeansUsed ==
    "committed" \in columns => \A n \in Nonces : (row[n] = "one") <=> (uses[n] > 0)

(* Everybody gets the file open in the end: whoever loses the race for an  *)
(* ALTER TABLE finds the column there the next time.                       *)
EveryoneOpens == \A o \in Openers : <>(pc[o] = "ready")
============================================================================
