----------------------------- MODULE AppendLog -----------------------------
(***************************************************************************)
(* What the journal promises its users, with no concurrency, no storage    *)
(* engine and no requests: an append-only sequence of records, each naming *)
(* the one before it, and acknowledgements that are never ahead of it      *)
(* (the JournalStore contract of src/src/nodechain/store.interface.ts as   *)
(* NodechainService.append uses it).                                       *)
(***************************************************************************)
EXTENDS Integers

CONSTANTS Record, NoRecord, GenesisPrev, MaxHeight

VARIABLES entry,  \* entry[h]: the record at height h, or NoRecord
          size,   \* number of records; the tip is at height size - 1
          acked   \* records acknowledged to a caller

vars == <<entry, size, acked>>

Init ==
    /\ entry = [h \in 0..MaxHeight |-> NoRecord]
    /\ size = 0
    /\ acked = {}

\* The hash the next record has to carry.
TipHash == IF size = 0 THEN GenesisPrev ELSE entry[size - 1].id

\* One record goes on top of the log.
Append ==
    /\ size \in 0..MaxHeight
    /\ size' = size + 1
    /\ entry[size] = NoRecord
    /\ \E rec \in Record :
         /\ rec.height = size
         /\ rec.prev = TipHash
         /\ entry' = [entry EXCEPT ![size] = rec]
    /\ UNCHANGED acked

\* A caller is told that the record at height h is accepted.
Acknowledge(h) ==
    /\ acked' = acked \cup {entry[h]}
    /\ UNCHANGED <<entry, size>>

Next == Append \/ \E h \in 0..(size - 1) : Acknowledge(h)

Spec == Init /\ [][Next]_vars
=============================================================================
