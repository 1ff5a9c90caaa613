------------------------------ MODULE KeyCustody ------------------------------
(***************************************************************************)
(* The two secrets beside a durable journal: the key pairs its records are *)
(* signed with, and the key its records are sealed with on disk.  Every    *)
(* process that opens the journal (the core, the command line) reads them  *)
(* or makes them, and writes the key pairs back, used or new.  A file that *)
(* is written is first empty.  A start is at                               *)
(*   down      not running                                                 *)
(*   read      it has key pairs; their file is to be written               *)
(*   saving    the file of the key pairs is empty                          *)
(*   saved     the sealing key is to be read                               *)
(*   made, sealing   it has made a sealing key; the file is empty          *)
(*   open      the journal is to be read                                   *)
(*   up        it appends and verifies                                     *)
(*   stopped   its verification failed: the kill switch is engaged         *)
(* A generation of key pairs, or a sealing key, is a number.               *)
(* Bounds: MaxSecrets of each are ever made, MaxEntries records,           *)
(* MaxStarts starts; a process may be killed at any point.                 *)
(***************************************************************************)
EXTENDS Naturals, FiniteSets

CONSTANTS Process, MaxSecrets, MaxEntries, MaxStarts

ASSUME CustodyAssumption ==
    /\ MaxSecrets \in Nat \ {0}
    /\ {MaxEntries, MaxStarts} \subseteq Nat

VARIABLES keyFile, sealFile,         \* what is on disk
          run, keyPairs, sealingKey, \* per process: where it is, what it holds
          view,                      \* per process: the records it has read or appended
          entries,                   \* the journal: number, key pairs, sealing key
          pairsMade, sealsMade, starts,
          orphaned,  \* ghost: key pairs were made anew while old ones counted
          resealed   \* ghost: so was a sealing key

disk == <<keyFile, sealFile, entries>>
processes == <<run, keyPairs, sealingKey, view>>
custodyVars == <<disk, processes, pairsMade, sealsMade, starts, orphaned, resealed>>

Absent == 0
Empty == MaxSecrets + 1
Secret == 1..MaxSecrets
Entry == [number : 1..MaxEntries, pairs : Secret, seal : Secret]

\* Types; a process holds no record that is not in the journal.
CustodyTypeOK ==
    /\ {keyFile, sealFile} \subseteq 0..Empty
    /\ run \in [Process -> {"down", "read", "saving", "saved", "made", "sealing", "open",
                            "up", "stopped"}]
    /\ keyPairs \in [Process -> 0..MaxSecrets] /\ sealingKey \in [Process -> 0..MaxSecrets]
    /\ \A p \in Process : view[p] \subseteq entries
    /\ entries \subseteq Entry
    /\ {pairsMade, sealsMade} \subseteq 0..MaxSecrets /\ starts \in 0..MaxStarts
    /\ {orphaned, resealed} \subseteq BOOLEAN

CustodyInit ==
    /\ keyFile = Absent /\ sealFile = Absent /\ entries = {}
    /\ run = [p \in Process |-> "down"]
    /\ keyPairs = [p \in Process |-> Absent] /\ sealingKey = [p \in Process |-> Absent]
    /\ view = [p \in Process |-> {}]
    /\ pairsMade = 0 /\ sealsMade = 0 /\ starts = 0
    /\ orphaned = FALSE /\ resealed = FALSE

At(p, where) == run' = [run EXCEPT ![p] = where]
-----------------------------------------------------------------------------
\* The file of the key pairs is read; if it is not there, or is not JSON, all
\* of them are made anew.
ReadKeys(p) ==
    /\ run[p] = "down" /\ starts < MaxStarts
    /\ starts' = starts + 1
    /\ \/ /\ keyFile \in Secret
          /\ keyPairs' = [keyPairs EXCEPT ![p] = keyFile]
          /\ UNCHANGED <<pairsMade, orphaned>>
       \/ /\ keyFile \notin Secret /\ pairsMade < MaxSecrets
          /\ pairsMade' = pairsMade + 1
          /\ keyPairs' = [keyPairs EXCEPT ![p] = pairsMade + 1]
          /\ orphaned' = (orphaned \/ entries # {} \/ \E q \in Process : run[q] # "down")
    /\ At(p, "read")
    /\ UNCHANGED <<disk, sealingKey, view, sealsMade, resealed>>

\* saveKeys, on every start.
EmptyKeyFile(p) ==
    /\ run[p] = "read"
    /\ keyFile' = Empty
    /\ At(p, "saving")
    /\ UNCHANGED <<sealFile, entries, keyPairs, sealingKey, view, pairsMade, sealsMade, starts,
                   orphaned, resealed>>

WriteKeyFile(p) ==
    /\ run[p] = "saving"
    /\ keyFile' = keyPairs[p]
    /\ At(p, "saved")
    /\ UNCHANGED <<sealFile, entries, keyPairs, sealingKey, view, pairsMade, sealsMade, starts,
                   orphaned, resealed>>

\* The sealing key is read; a missing file and an empty one make a new key.
ReadSeal(p) ==
    /\ run[p] = "saved"
    /\ \/ /\ sealFile \in Secret
          /\ sealingKey' = [sealingKey EXCEPT ![p] = sealFile]
          /\ At(p, "open")
          /\ UNCHANGED <<sealsMade, resealed>>
       \/ /\ sealFile \notin Secret /\ sealsMade < MaxSecrets
          /\ sealsMade' = sealsMade + 1
          /\ sealingKey' = [sealingKey EXCEPT ![p] = sealsMade + 1]
          /\ At(p, "made")
          /\ resealed' = (resealed \/ entries # {} \/
                            \E q \in Process : run[q] \in {"made", "sealing", "open", "up"})
    /\ UNCHANGED <<disk, keyPairs, view, pairsMade, starts, orphaned>>

EmptySealFile(p) ==
    /\ run[p] = "made"
    /\ sealFile' = Empty
    /\ At(p, "sealing")
    /\ UNCHANGED <<keyFile, entries, keyPairs, sealingKey, view, pairsMade, sealsMade, starts,
                   orphaned, resealed>>

WriteSealFile(p) ==
    /\ run[p] = "sealing"
    /\ sealFile' = sealingKey[p]
    /\ At(p, "open")
    /\ UNCHANGED <<keyFile, entries, keyPairs, sealingKey, view, pairsMade, sealsMade, starts,
                   orphaned, resealed>>

Forgotten(p) ==
    /\ keyPairs' = [keyPairs EXCEPT ![p] = Absent]
    /\ sealingKey' = [sealingKey EXCEPT ![p] = Absent]
    /\ view' = [view EXCEPT ![p] = {}]

\* load: a record that cannot be opened ends the start.
OpenJournal(p) ==
    /\ run[p] = "open"
    /\ IF \A e \in entries : e.seal = sealingKey[p]
       THEN /\ At(p, "up")
            /\ view' = [view EXCEPT ![p] = entries]
            /\ UNCHANGED <<keyPairs, sealingKey>>
       ELSE At(p, "down") /\ Forgotten(p)
    /\ UNCHANGED <<disk, pairsMade, sealsMade, starts, orphaned, resealed>>

AppendEntry(p) ==
    LET e == [number |-> Cardinality(entries) + 1, pairs |-> keyPairs[p], seal |-> sealingKey[p]]
    IN
    /\ run[p] = "up" /\ Cardinality(entries) < MaxEntries
    /\ entries' = entries \cup {e}
    /\ view' = [view EXCEPT ![p] = @ \cup {e}]
    /\ UNCHANGED <<keyFile, sealFile, run, keyPairs, sealingKey, pairsMade, sealsMade, starts,
                   orphaned, resealed>>

\* verifyChain, as far as signatures go: those of all records, with the key
\* pairs of the process.
VerifySignatures(p) ==
    /\ run[p] = "up"
    /\ \E e \in view[p] : e.pairs # keyPairs[p]
    /\ At(p, "stopped")
    /\ UNCHANGED <<disk, keyPairs, sealingKey, view, pairsMade, sealsMade, starts, orphaned,
                   resealed>>

\* The process ends, or is killed at whatever it was doing.
EndProcess(p) ==
    /\ run[p] # "down"
    /\ At(p, "down") /\ Forgotten(p)
    /\ UNCHANGED <<disk, pairsMade, sealsMade, starts, orphaned, resealed>>

CustodyNext ==
    \E p \in Process :
       \/ ReadKeys(p) \/ EmptyKeyFile(p) \/ WriteKeyFile(p)
       \/ ReadSeal(p) \/ EmptySealFile(p) \/ WriteSealFile(p)
       \/ OpenJournal(p) \/ AppendEntry(p) \/ VerifySignatures(p) \/ EndProcess(p)

CustodySpec == CustodyInit /\ [][CustodyNext]_custodyVars
-----------------------------------------------------------------------------
\* Every record of the journal verifies with the key pairs a later start will
\* find, and none stops a process that verifies; unless a start found the file
\* empty or missing while records, or another process, depended on what had
\* been in it: it then makes new key pairs and saves them over the old.
RecordsVerify ==
    orphaned \/ /\ \A e \in entries : \A p \in Process : keyPairs[p] \in {Absent, e.pairs}
                /\ \A e \in entries : keyFile \in {e.pairs, Empty}
                /\ \A p \in Process : run[p] # "stopped"

\* Every record can be unsealed by every start, unless a start made a sealing
\* key while another was making one, or found the file empty over a journal.
RecordsReadable ==
    resealed \/ \A e \in entries :
        sealFile = e.seal /\ \A p \in Process : sealingKey[p] \in {Absent, e.seal}
=============================================================================
