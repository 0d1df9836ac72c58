------------------------------- MODULE Ledger -------------------------------
(***************************************************************************)
(* The audit ledger of PayGate (paygate_poc/ledger.py): a list of hash-    *)
(* chained envelopes in memory and the same list, one JSON line each, in   *)
(* a file.  append() puts the envelope in the list first and in the file   *)
(* second, and a write may fail or the process may die in between.         *)
(*                                                                         *)
(* A chain hash is the chain it commits to: hashes are injective, and the  *)
(* clock reading an envelope carries is left out.  Of what is recorded the *)
(* ledger needs to know whether it splits: json.dumps(ensure_ascii=False)  *)
(* writes U+0085, U+2028 and U+2029 as they are, and splitlines() takes    *)
(* each for the end of a line when the file is read back.                  *)
(***************************************************************************)
EXTENDS Naturals, Sequences, SequencesExt

CONSTANTS
    MaxRecords,     \* bound on the length of the chain
    MaxFaults,      \* bound on crashes and failed writes of a behaviour
    Cuts            \* where a write may stop: before the first byte ("none"),
                    \* inside the line ("part") or before its newline ("bare")

ASSUME LedgerAssumption ==
    /\ MaxRecords \in Nat /\ MaxFaults \in Nat
    /\ Cuts \subseteq {"none", "part", "bare"}

VARIABLES
    records,    \* self.records
    lines,      \* the lines of the file
    loose,      \* the last line has no newline yet
    up,         \* the process that holds the ledger runs
    behind,     \* an append of this process raised: the file lacks a record
    faults,
    gap,        \* history: a line was written while the file lacked a record
    kept        \* history: envelopes whose append returned, while no line was cut

ledgerVars == <<records, lines, loose, up, behind, faults, gap, kept>>

Torn == [seq |-> 0]     \* a line that was cut, or two run together

----------------------------------------------------------------------------
(* Envelopes and chains *)

Genesis == <<>>

ChainHash(e) == Append(e.prev, [seq |-> e.seq, what |-> e.what])

LastHash(chain) == IF chain = <<>> THEN Genesis ELSE ChainHash(Last(chain))

Envelope(what) ==
    [seq |-> Len(records) + 1, prev |-> LastHash(records), what |-> what]

VerifyChain(chain) ==
    \A i \in 1 .. Len(chain) :
        /\ chain[i].seq = i
        /\ chain[i].prev = LastHash(SubSeq(chain, 1, i - 1))

Whole == \A i \in 1 .. Len(lines) : lines[i] # Torn

(* json.loads takes a line neither if it is torn nor if splitlines() has   *)
(* made several of it, the first of which ends within a string.            *)
Parses(line) == line # Torn /\ ~line.what.splits

Readable == \A i \in 1 .. Len(lines) : Parses(lines[i])

----------------------------------------------------------------------------
(* Writing a line; how is "whole" when the write succeeds, or a cut.       *)

WriteLine(e, how) ==
    LET line == IF loose \/ how = "part" THEN Torn ELSE e IN
    IF how = "none" THEN UNCHANGED <<lines, loose>>
    ELSE /\ lines' = Append(IF loose THEN Front(lines) ELSE lines, line)
         /\ loose' = (how # "whole")

(* Whether the file then goes on behind a record it lacks. *)
Skip(how) == gap \/ (how # "none" /\ behind)

LedgerInit ==
    /\ records = <<>> /\ lines = <<>> /\ loose = FALSE
    /\ up = TRUE /\ behind = FALSE /\ faults = 0
    /\ gap = FALSE /\ kept = {}

(* Mutant: append returns without having written the line. *)
LogLazily(what) ==
    LET e == Envelope(what) IN
    /\ up /\ Len(records) < MaxRecords
    /\ records' = Append(records, e)
    /\ kept' = IF Whole THEN kept \cup {e} ELSE kept
    /\ UNCHANGED <<lines, loose, up, behind, faults, gap>>

(* append(), returning *)
Log(what) ==
    LET e == Envelope(what) IN
    /\ up /\ Len(records) < MaxRecords
    /\ records' = Append(records, e)
    /\ WriteLine(e, "whole")
    /\ gap' = Skip("whole")
    /\ kept' = IF Whole' THEN kept \cup {e} ELSE kept
    /\ UNCHANGED <<up, behind, faults>>

(* append(), raising OSError: the envelope stays in the list. *)
LogRaises(what, how) ==
    /\ up /\ Len(records) < MaxRecords /\ faults < MaxFaults
    /\ records' = Append(records, Envelope(what))
    /\ WriteLine(Envelope(what), how)
    /\ gap' = Skip(how)
    /\ behind' = TRUE
    /\ faults' = faults + 1
    /\ UNCHANGED <<up, kept>>

(* The process is killed while it appends, *)
DieLogging(what, how) ==
    /\ up /\ Len(records) < MaxRecords /\ faults < MaxFaults
    /\ WriteLine(Envelope(what), how)
    /\ gap' = Skip(how)
    /\ up' = FALSE /\ records' = <<>> /\ behind' = FALSE
    /\ faults' = faults + 1
    /\ UNCHANGED kept

(* or at any other moment. *)
Die ==
    /\ up /\ faults < MaxFaults
    /\ up' = FALSE /\ records' = <<>> /\ behind' = FALSE
    /\ faults' = faults + 1
    /\ UNCHANGED <<lines, loose, gap, kept>>

(* Mutant: a new process starts an empty list over the old file. *)
ReopenEmpty ==
    /\ ~up /\ Readable
    /\ up' = TRUE
    /\ records' = <<>>
    /\ UNCHANGED <<lines, loose, behind, faults, gap, kept>>

(* A new process reads the file back; it raises, and nothing starts, when  *)
(* a line does not parse.  The chain is not verified.                      *)
Reopen ==
    /\ ~up /\ Readable
    /\ up' = TRUE
    /\ records' = lines
    /\ UNCHANGED <<lines, loose, behind, faults, gap, kept>>

----------------------------------------------------------------------------

(* A file that can be read back is a chain verify_chain accepts, whatever  *)
(* crashes and failed writes there were, unless it goes on after a record  *)
(* whose write left nothing; and then it never is again.                   *)
FileVerifies == Readable => (VerifyChain(lines) <=> ~gap)

(* No later failure costs a record whose append returned while no line was *)
(* cut: its line stays whole (which does not say that it parses).          *)
KeptStays == \A e \in kept : \E i \in 1 .. Len(lines) : lines[i] = e
============================================================================
