------------------------ MODULE SchemaUpgradeProofs ------------------------
(***************************************************************************)
(* The upgrade of a replay file is safe for any number of processes that   *)
(* open it, any nonces and any number of failures.                         *)
(*                                                                         *)
(* The columns are added in one order, so the table has one of four        *)
(* shapes; what an opener has read of it may be old, but columns never go  *)
(* away.  Where an opener is tells which columns there are at least.       *)
(***************************************************************************)
EXTENDS SchemaUpgrade, TLAPS

(* The table grows in one order, and nobody remembers a column it lacks. *)
GrowsInOrder ==
    /\ columns \in {{}, {"nonce"}, {"nonce", "reservation_id"}, AllColumns}
    /\ \A o \in Openers : snapshot[o] \subseteq columns

(* What an opener has behind it, the table has. *)
StepsAreDone ==
    \A o \in Openers :
        /\ pc[o] \notin {"down", "create"} => "nonce" \in columns
        /\ pc[o] \in {"committed", "index", "ready"} => "reservation_id" \in columns
        /\ pc[o] \in {"index", "ready"} => "committed" \in columns
        /\ pc[o] = "ready" => indexed

(* A row says whether its nonce has been accepted, and how. *)
RowsTellUses ==
    \A n \in Nonces :
        /\ uses[n] = IF row[n] \in {"bare", "one"} THEN 1 ELSE 0
        /\ row[n] = "bare" => "committed" \notin columns

IInv == TypeOK /\ GrowsInOrder /\ StepsAreDone /\ RowsTellUses

(* Every file an opener can find satisfies the invariant: none, an empty   *)
(* one, or a v2.2.5 file with nonces in it.                                *)
LEMMA InitEstablishes == Init => IInv
<1> SUFFICES ASSUME Init PROVE IInv
  OBVIOUS
<1>1. PICK old \in SUBSET Nonces :
          /\ columns \in {{}, {"nonce"}}
          /\ row = [n \in Nonces |-> IF n \in old THEN "bare" ELSE "absent"]
          /\ uses = [n \in Nonces |-> IF n \in old THEN 1 ELSE 0]
  BY DEF Init
<1>2. /\ indexed = FALSE /\ failures = 0
      /\ holder = [n \in Nonces |-> Nobody]
      /\ pc = [o \in Openers |-> "down"]
      /\ snapshot = [o \in Openers |-> {}]
  BY DEF Init
<1>3. TypeOK
  <2>1. row \in [Nonces -> {"absent", "bare", "zero", "one"}] /\ uses \in [Nonces -> Nat]
    BY <1>1
  <2>2. columns \subseteq AllColumns
    BY <1>1 DEF AllColumns
  <2>3. snapshot \in [Openers -> SUBSET AllColumns] /\ holder \in [Nonces -> Openers \cup {Nobody}]
    BY <1>2
  <2>4. pc \in [Openers -> Statements \cup {"down", "ready"}]
    BY <1>2
  <2>5. failures \in 0 .. MaxFailures
    BY <1>2, UpgradeAssumption
  <2>6. indexed \in BOOLEAN
    BY <1>2
  <2>. QED  BY <2>1, <2>2, <2>3, <2>4, <2>5, <2>6 DEF TypeOK
<1>4. GrowsInOrder /\ StepsAreDone
  BY <1>1, <1>2 DEF GrowsInOrder, StepsAreDone, AllColumns
<1>5. RowsTellUses
  BY <1>1 DEF RowsTellUses
<1>. QED  BY <1>3, <1>4, <1>5 DEF IInv

(* Each statement of _init preserves the invariant. *)
LEMMA OpenPreserves ==
    ASSUME IInv, NEW o \in Openers, Open(o)
    PROVE  IInv'
<1> USE DEF IInv, TypeOK, GrowsInOrder, StepsAreDone, RowsTellUses, AllColumns, Statements, Goto
<1>1. CASE Start(o)
  BY <1>1 DEF Start
<1>2. CASE CreateTable(o)
  BY <1>2 DEF CreateTable
<1>3. CASE Inspect(o)
  BY <1>3 DEF Inspect
<1>4. CASE AddColumn(o, "reservation_id", "committed")
  <2>1. CASE "reservation_id" \in columns
    BY <1>4, <2>1 DEF AddColumn
  <2>2. CASE "reservation_id" \notin columns
    <3>1. columns' = {"nonce", "reservation_id"}
      BY <1>4, <2>2 DEF AddColumn
    <3>. QED  BY <1>4, <2>2, <3>1 DEF AddColumn
  <2>. QED  BY <2>1, <2>2
<1>5. CASE AddColumn(o, "committed", "index")
  <2>1. CASE "committed" \in columns
    BY <1>5, <2>1 DEF AddColumn
  <2>2. CASE "committed" \notin columns
    <3>1. /\ columns' = AllColumns
          /\ row' = [n \in Nonces |-> Fill(row[n])]
          /\ pc' = [pc EXCEPT ![o] = "index"]
          /\ UNCHANGED <<indexed, holder, snapshot, uses, failures>>
      BY <1>5, <2>2 DEF AddColumn
    <3>2. ASSUME NEW n \in Nonces
          PROVE  /\ row'[n] \in {"absent", "zero", "one"}
                 /\ row'[n] = "one" <=> row[n] \in {"bare", "one"}
      BY <3>1 DEF Fill
    <3>3. row' \in [Nonces -> {"absent", "bare", "zero", "one"}]
      BY <3>1, <3>2
    <3>. QED  BY <3>1, <3>2, <3>3
  <2>. QED  BY <2>1, <2>2
<1>6. CASE CreateIndex(o)
  BY <1>6 DEF CreateIndex
<1>. QED  BY <1>1, <1>2, <1>3, <1>4, <1>5, <1>6 DEF Open

(* So does every use of the table, by either version. *)
LEMMA UsePreserves ==
    ASSUME IInv, NEW n \in Nonces,
           LegacyUse(n) \/ \E o \in Openers : Reserve(o, n) \/ CommitRow(o, n) \/ ReleaseRow(o, n)
    PROVE  IInv'
<1> USE DEF IInv, TypeOK, GrowsInOrder, StepsAreDone, RowsTellUses, AllColumns, Statements, Accept
<1>1. CASE LegacyUse(n)
  BY <1>1 DEF LegacyUse, Fill
<1>2. ASSUME NEW o \in Openers, Reserve(o, n) PROVE IInv'
  BY <1>2 DEF Reserve
<1>3. ASSUME NEW o \in Openers, CommitRow(o, n) PROVE IInv'
  BY <1>3 DEF CommitRow
<1>4. ASSUME NEW o \in Openers, ReleaseRow(o, n) PROVE IInv'
  BY <1>4 DEF ReleaseRow
<1>. QED  BY <1>1, <1>2, <1>3, <1>4

(* The invariant is inductive: a failure only sends an opener back. *)
LEMMA StepPreserves == IInv /\ [Next]_vars => IInv'
<1> SUFFICES ASSUME IInv, [Next]_vars PROVE IInv'
  OBVIOUS
<1>1. ASSUME NEW o \in Openers, Open(o) PROVE IInv'
  BY <1>1, OpenPreserves
<1>2. ASSUME NEW o \in Openers, Fail(o) PROVE IInv'
  BY <1>2, UpgradeAssumption
     DEF Fail, Goto, IInv, TypeOK, GrowsInOrder, StepsAreDone, RowsTellUses, Statements
<1>3. ASSUME NEW n \in Nonces,
             LegacyUse(n) \/ \E o \in Openers : Reserve(o, n) \/ CommitRow(o, n) \/ ReleaseRow(o, n)
      PROVE  IInv'
  BY <1>3, UsePreserves
<1>4. CASE UNCHANGED vars
  BY <1>4 DEF vars, IInv, TypeOK, GrowsInOrder, StepsAreDone, RowsTellUses
<1>. QED  BY <1>1, <1>2, <1>3, <1>4 DEF Next

(* Whoever opens, uses or fails, the invariant holds throughout. *)
LEMMA Invariance == Spec => []IInv
BY InitEstablishes, StepPreserves, PTL DEF Spec

(* A cache whose constructor has returned has the whole new table under    *)
(* it, however many others upgrade the same file and fail on the way.      *)
THEOREM ReadyMeansUpgraded == Spec => []ReadyIsUpgraded
<1>1. IInv => ReadyIsUpgraded
  BY DEF IInv, TypeOK, GrowsInOrder, StepsAreDone, ReadyIsUpgraded, AllColumns
<1>. QED  BY <1>1, Invariance, PTL

(* No nonce is accepted twice, by old and new versions together. *)
THEOREM AcceptedAtMostOnce == Spec => []AcceptedOnce
<1>1. IInv => AcceptedOnce
  BY DEF IInv, RowsTellUses, AcceptedOnce
<1>. QED  BY <1>1, Invariance, PTL

(* In an upgraded table the committed rows are the accepted nonces. *)
THEOREM CommittedRowsAreUses == Spec => []CommittedMeansUsed
<1>1. IInv => CommittedMeansUsed
  BY DEF IInv, TypeOK, RowsTellUses, CommittedMeansUsed
<1>. QED  BY <1>1, Invariance, PTL
============================================================================
