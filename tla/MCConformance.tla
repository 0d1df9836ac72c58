--------------------------- MODULE MCConformance ---------------------------
(* One thread besides the runner, which checks the receipt of the first    *)
(* vector, a forged signature under it, one that is no signature, and one  *)
(* under a key that cannot be parsed.                                      *)
EXTENDS Conformance

CONSTANTS runner, neighbour

EveryVector == build_vectors
EveryScenario == reference_scenarios

First == Plain("KPOS-BASELINE-ALLOW").core
Checked == {Check("issuer", First, "genuine"), Check("issuer", First, "forged"),
            Check("rogue", First, Bad), Check(Bad, First, "genuine")}
Signers == {"issuer", "rogue", Bad}
PointsOfCurve == {"issuer", "rogue"}

WithReceipt == SelectSeq(Cases, LAMBDA v : v.receipt \notin {Absent, Bad})
AllChecks == Checked \cup {ReceiptCheck(v) : v \in {WithReceipt[i] : i \in DOMAIN WithReceipt}}
Signer == [c \in AllChecks |-> c[1]]
Signatures == {c \in AllChecks : c[3] # Bad}
Signed == {c \in AllChecks : c[3] = "genuine"}
============================================================================
