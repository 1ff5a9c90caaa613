------------------------------- MODULE MCCopies -------------------------------
(***************************************************************************)
(* The copies of the journal side by side: a behaviour is about one of     *)
(*   file      the journal in files, without the second node               *)
(*   replica   the same with the second node, up to ReplicaRecords records *)
(*             and ReplicaFaults faults                                    *)
(*   log       the event log and its consumer, without replays             *)
(*   mirror    the index mirror and its replays, without a consumer; of    *)
(*             replays and faults at most MirrorEvents                     *)
(*   keys      the key files beside a journal and the processes that open  *)
(*             it                                                          *)
(*   vault     the software HSM's vault in place of the key files          *)
(* and the rest stays as it starts.                                        *)
(***************************************************************************)
EXTENDS FileJournal, ObserverCopies, KeyCustody, KeyVault, TLC

CONSTANTS ReplicaRecords, ReplicaFaults, MirrorEvents
VARIABLE about

\* Versions of the program: one asks for all key ids, an earlier one for one of them.
MCVersions == {{CHOOSE k \in KeyId : TRUE}, KeyId}

CopiesInit ==
    /\ FileInit /\ ObserverInit /\ CustodyInit /\ VaultInit
    /\ about \in {"file", "replica", "log", "mirror", "keys", "vault"}
    /\ about # "mirror" => kind = "memory"

CopiesNext ==
    /\ UNCHANGED about
    /\ \/ /\ about \in {"file", "replica"} /\ FileNext
          /\ UNCHANGED <<observerVars, custodyVars, vaultVars>>
          /\ about = "file" => UNCHANGED copy
          /\ about = "replica" => made' <= ReplicaRecords /\ faults' <= ReplicaFaults
       \/ /\ about \in {"log", "mirror"} /\ ObserverNext
          /\ UNCHANGED <<fileVars, custodyVars, vaultVars>>
          /\ about = "log" => UNCHANGED replays
          /\ about = "mirror" => UNCHANGED got /\ replays' + cuts' <= MirrorEvents
       \/ about = "keys" /\ CustodyNext /\ UNCHANGED <<fileVars, observerVars, vaultVars>>
       \/ about = "vault" /\ VaultNext /\ UNCHANGED <<fileVars, observerVars, custodyVars>>

CopiesSpec == CopiesInit /\ [][CopiesNext]_<<fileVars, observerVars, custodyVars, vaultVars, about>>

\* Calls, catch-ups and replays are alike, and no property is about liveness.
CopiesSymmetry == Permutations(Writer) \cup Permutations(Puller) \cup Permutations(Replay)

-----------------------------------------------------------------------------
\* The journal in files: what was told is there, the chain breaks only by the loss of a
\* record, a height and a client id have one record, and the second node has a chain of what
\* the first one has; through overlapping appends, failed writes, crashes and catch-ups.
FilesKeepJournal ==
    /\ FileTypeOK
    /\ BrokenOnlyByLoss
    /\ OneRecordPerHeight
    /\ ToldIsOnFile
    /\ TipIsTop
    /\ ClientHasOneRecord
    /\ ReplicaIsChain
    /\ ReplicaIsPrefix

\* Observers miss nothing: the event log has both events of a record under numbers of their
\* own, a consumer and the notified find them, the mirror has every record and its heights;
\* through overlapping callbacks, failing steps, replays and crashes.
ObserversFollow ==
    /\ ObserverTypeOK
    /\ EventsComplete
    /\ ConsumerMissesNothing
    /\ SentIsLogged
    /\ NumbersAreUnique
    /\ MirrorComplete
    /\ MaxHeightIsTop

\* The keys fit the journal: every start can verify, read and go on signing what is there,
\* with keys in files or in the vault, unless a secret was made anew over records that
\* needed the old one.
KeysFit ==
    /\ [](CustodyTypeOK /\ RecordsVerify /\ RecordsReadable)
    /\ [](VaultTypeOK /\ VaultKeepsPairs /\ OneMasterSigns)
    /\ PairsAreKept
=============================================================================
