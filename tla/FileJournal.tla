------------------------------ MODULE FileJournal ------------------------------
(***************************************************************************)
(* The journal in files (FileJournalStore) under the appends of the        *)
(* service, and a second node's journal that catches up with it            *)
(* (JournalReplicator).                                                    *)
(*                                                                         *)
(* An append changes the maps in memory at once and then writes three      *)
(* files, each in a turn of its own: a line of journal.jsonl, tip.json and *)
(* clients.json.  The latter two are replaced: first emptied, then         *)
(* written.  A call is at                                                  *)
(*   read      no record has its client id: the tip is to be read          *)
(*   put       the tip is read: maps, then files                           *)
(*   line, tip, tipText, clients, clientsText   before that write          *)
(* Calls overlap; the writes of one may overtake those of another.  A      *)
(* crash loses the maps and the calls, and the files are read back; a      *)
(* write that fails ends its call and takes nothing back in memory.        *)
(*                                                                         *)
(* A record is an id, its height and the id its hash links to; the ids     *)
(* stand for hashes.  The client id of a record is that of its call.       *)
(* Bounds: MaxRecords records, MaxFaults crashes and failed writes.        *)
(***************************************************************************)
EXTENDS Naturals, FiniteSets

CONSTANTS Writer, Client,
          Puller,       \* overlapping catch-ups of the second node
          MaxRecords, MaxFaults

ASSUME FileJournalAssumption == MaxRecords \in Nat /\ MaxFaults \in Nat /\ Client # {}

VARIABLES byHeight, byClientId, memoryTip,      \* in memory
          journalFile, tipFile, clientsFile,
          loaded,                         \* FALSE: the files could not be read
          call,
          replica, replicaTip, pull,      \* the second node
          made, faults,
          lost,     \* ghost: records whose line was never written
          stale,    \* ghost: the files were read with a tip.json that is not
                    \* the top of the lines, below it or above
          forgot,   \* ghost: they were read with lines missing in clients.json
          contested,    \* ghost: client ids two overlapping calls found unknown
          told      \* ghost: records an append was answered with, but for
                    \* answers from memory before the line was written

memory == <<byHeight, byClientId, memoryTip>>
files == <<journalFile, tipFile, clientsFile>>
copy == <<replica, replicaTip, pull>>
ghosts == <<lost, stale, forgot, contested, told>>
fileVars == <<memory, files, loaded, call, copy, made, faults, ghosts>>

Genesis == 0
Heights == 0..(MaxRecords + 1)
FileRecord == [id : 1..MaxRecords, height : 1..MaxRecords, prev : 0..MaxRecords, client : Client]
TipPointer == [height : 0..MaxRecords, id : 0..MaxRecords]
Bottom == [height |-> 0, id |-> Genesis]     \* the genesis record, always there
Torn == [height |-> 0, id |-> MaxRecords]    \* an emptied tip.json
NoIds == [k \in Client |-> Genesis]
Tear == [ids |-> NoIds, torn |-> TRUE]

EmptyRecord == [id |-> Genesis, height |-> 0, prev |-> Genesis, client |-> CHOOSE k \in Client : TRUE]
NoCall == [at |-> "idle", client |-> CHOOSE k \in Client : TRUE, seen |-> Bottom,
           rec |-> EmptyRecord, text |-> NoIds]

NoPull == [at |-> "idle", prev |-> Bottom, segment |-> {}]

Of(id, records) == CHOOSE r \in records : r.id = id
Ids(records) == {r.id : r \in records}
AtHeight(h, records) == {r \in records : r.height = h}
Top(records) ==
    IF records = {} THEN Bottom
    ELSE LET r == CHOOSE s \in records : \A t \in records : t.height <= s.height
         IN  [height |-> r.height, id |-> r.id]

FileTypeOK ==
    /\ byHeight \subseteq FileRecord /\ journalFile \subseteq FileRecord /\ replica \subseteq FileRecord
    /\ byClientId \in [Client -> 0..MaxRecords]
    /\ memoryTip \in TipPointer /\ tipFile \in TipPointer /\ replicaTip \in TipPointer
    /\ clientsFile \in [ids : [Client -> 0..MaxRecords], torn : BOOLEAN]
    /\ loaded \in BOOLEAN
    /\ call \in [Writer -> [at : {"idle", "read", "put", "line", "tip", "tipText",
                                  "clients", "clientsText"},
                            client : Client, seen : TipPointer,
                            rec : FileRecord \cup {EmptyRecord}, text : [Client -> 0..MaxRecords]]]
    /\ pull \in [Puller -> [at : {"idle", "list", "check", "append"},
                            prev : TipPointer, segment : SUBSET FileRecord]]
    /\ made \in 0..MaxRecords /\ faults \in 0..MaxFaults
    /\ lost \subseteq 1..MaxRecords /\ told \subseteq 1..MaxRecords
    /\ stale \in BOOLEAN /\ forgot \in BOOLEAN /\ contested \subseteq Client

FileInit ==
    /\ byHeight = {} /\ byClientId = NoIds /\ memoryTip = Bottom
    /\ journalFile = {} /\ tipFile = Bottom
    /\ clientsFile = [ids |-> NoIds, torn |-> FALSE]
    /\ loaded = TRUE
    /\ call = [c \in Writer |-> NoCall]
    /\ replica = {} /\ replicaTip = Bottom
    /\ pull = [p \in Puller |-> NoPull]
    /\ made = 0 /\ faults = 0
    /\ lost = {} /\ stale = FALSE /\ forgot = FALSE /\ contested = {} /\ told = {}

FileFault == faults < MaxFaults /\ faults' = faults + 1

\* The records whose line is being written.
Unwritten == {call[c].rec.id : c \in {d \in Writer : call[d].at = "line"}}

MovesTo(c, at) == call' = [call EXCEPT ![c].at = at]
Ends(c) == call' = [call EXCEPT ![c] = NoCall]
-----------------------------------------------------------------------------
(***************************************************************************)
(* The append.                                                             *)
(***************************************************************************)

\* A client id that is known is answered with its record, on file yet or not.
AppendFact(c, k) ==
    LET known == {r \in byHeight : r.id = byClientId[k]} IN
    /\ loaded /\ call[c].at = "idle"
    /\ \/ /\ known # {}
          /\ told' = told \cup (Ids(known) \cap Ids(journalFile))
          /\ UNCHANGED <<call, contested>>
       \/ /\ known = {}
          /\ call' = [call EXCEPT ![c] = [NoCall EXCEPT !.at = "read", !.client = k]]
          /\ contested' = IF \E d \in Writer : call[d].at \in {"read", "put"} /\ call[d].client = k
                      THEN contested \cup {k} ELSE contested
          /\ UNCHANGED told
    /\ UNCHANGED <<memory, files, loaded, copy, made, faults, lost, stale, forgot>>

GetTip(c) ==
    /\ call[c].at = "read"
    /\ call' = [call EXCEPT ![c] = [@ EXCEPT !.at = "put", !.seen = memoryTip]]
    /\ UNCHANGED <<memory, files, loaded, copy, made, faults, ghosts>>

\* appendDurable up to its first write: a height that is taken is refused.
Put(c) ==
    LET h == call[c].seen.height + 1
        r == [id |-> made + 1, height |-> h, prev |-> call[c].seen.id, client |-> call[c].client]
    IN
    /\ call[c].at = "put"
    /\ \/ /\ AtHeight(h, byHeight) # {}
          /\ Ends(c)
          /\ UNCHANGED <<memory, made>>
       \/ /\ AtHeight(h, byHeight) = {} /\ made < MaxRecords
          /\ made' = made + 1
          /\ byHeight' = byHeight \cup {r}
          /\ byClientId' = [byClientId EXCEPT ![r.client] = r.id]
          /\ memoryTip' = [height |-> h, id |-> r.id]
          /\ call' = [call EXCEPT ![c] = [@ EXCEPT !.at = "line", !.rec = r]]
    /\ UNCHANGED <<files, loaded, copy, faults, ghosts>>

\* The line is at the end of journal.jsonl.
WriteLine(c) ==
    /\ call[c].at = "line"
    /\ journalFile' = journalFile \cup {call[c].rec}
    /\ MovesTo(c, "tip")
    /\ UNCHANGED <<memory, tipFile, clientsFile, loaded, copy, made, faults, ghosts>>

\* tip.json is opened for the tip of the moment, which may be that of a later
\* call.
EmptyTip(c) ==
    /\ call[c].at = "tip"
    /\ call' = [call EXCEPT ![c] = [@ EXCEPT !.at = "tipText", !.seen = memoryTip]]
    /\ tipFile' = Torn
    /\ UNCHANGED <<memory, journalFile, clientsFile, loaded, copy, made, faults, ghosts>>

WriteTip(c) ==
    /\ call[c].at = "tipText"
    /\ tipFile' = call[c].seen
    /\ MovesTo(c, "clients")
    /\ UNCHANGED <<memory, journalFile, clientsFile, loaded, copy, made, faults, ghosts>>

EmptyClients(c) ==
    /\ call[c].at = "clients"
    /\ call' = [call EXCEPT ![c] = [@ EXCEPT !.at = "clientsText", !.text = byClientId]]
    /\ clientsFile' = Tear
    /\ UNCHANGED <<memory, journalFile, tipFile, loaded, copy, made, faults, ghosts>>

\* The last write: the call is answered.
WriteClients(c) ==
    /\ call[c].at = "clientsText"
    /\ clientsFile' = [ids |-> call[c].text, torn |-> FALSE]
    /\ told' = told \cup {call[c].rec.id}
    /\ Ends(c)
    /\ UNCHANGED <<memory, journalFile, tipFile, loaded, copy, made, faults,
                   lost, stale, forgot, contested>>

\* Faulty variant of WriteFails: the failure is not reported.
WriteFailsUnseen(c) ==
    /\ call[c].at \in {"line", "tip", "clients"} /\ FileFault
    /\ lost' = IF call[c].at = "line" THEN lost \cup {call[c].rec.id} ELSE lost
    /\ told' = told \cup {call[c].rec.id}
    /\ Ends(c)
    /\ UNCHANGED <<memory, files, loaded, copy, made, stale, forgot, contested>>

\* A write fails, and with it the call; what is in memory stays.
WriteFails(c) ==
    /\ call[c].at \in {"line", "tip", "clients"} /\ FileFault
    /\ lost' = IF call[c].at = "line" THEN lost \cup {call[c].rec.id} ELSE lost
    /\ Ends(c)
    /\ UNCHANGED <<memory, files, loaded, copy, made, stale, forgot, contested, told>>

\* load: tip.json is believed if it is there, a file that is not JSON is not.
CrashAndLoad ==
    /\ loaded /\ FileFault
    /\ lost' = lost \cup Unwritten
    /\ stale' = (stale \/ tipFile # Top(journalFile))
    /\ forgot' = (forgot \/ \E r \in journalFile :
                      \A s \in journalFile : clientsFile.ids[r.client] = s.id => s.client # r.client)
    /\ loaded' = (tipFile # Torn /\ ~clientsFile.torn)
    /\ byHeight' = journalFile
    /\ byClientId' = clientsFile.ids
    /\ memoryTip' = tipFile
    /\ call' = [c \in Writer |-> NoCall]
    /\ pull' = [p \in Puller |-> NoPull]
    /\ UNCHANGED <<files, replica, replicaTip, made, contested, told>>
-----------------------------------------------------------------------------
(***************************************************************************)
(* The second node: catchUpFrom, with the first node's store as its peer.  *)
(***************************************************************************)

\* compareTips = peer_ahead: the peer is higher and has the own tip on its
\* chain; everything else ends the catch-up.
PeerAhead ==
    /\ replicaTip.height < memoryTip.height
    /\ \/ replicaTip = Bottom
       \/ \E r \in AtHeight(replicaTip.height, byHeight) : r.id = replicaTip.id

CatchUp(p) ==
    /\ loaded /\ pull[p].at = "idle" /\ PeerAhead
    /\ pull' = [pull EXCEPT ![p] = [NoPull EXCEPT !.at = "list", !.prev = replicaTip]]
    /\ UNCHANGED <<memory, files, loaded, call, replica, replicaTip, made, faults, ghosts>>

\* listFrom: the records from the next height on, as the peer's memory has
\* them now.
List(p) ==
    LET segment == {r \in byHeight : r.height > pull[p].prev.height} IN
    /\ pull[p].at = "list"
    /\ pull' = [pull EXCEPT ![p] = IF segment = {} THEN NoPull
                    ELSE [@ EXCEPT !.at = "check", !.segment = segment]]
    /\ UNCHANGED <<memory, files, loaded, call, replica, replicaTip, made, faults, ghosts>>

\* Of the records left of the segment the lowest.
LowestOf(segment) == CHOOSE r \in segment : \A s \in segment : r.height <= s.height

Skip(p, r) ==
    LET rest == pull[p].segment \ {r} IN
    pull' = [pull EXCEPT ![p] = IF rest = {} THEN NoPull
                 ELSE [@ EXCEPT !.at = "check", !.segment = rest,
                               !.prev = [height |-> r.height, id |-> r.id]]]

\* A height already there is passed over; a record that does not link to the
\* one before ends the catch-up.
Check(p) ==
    LET r == LowestOf(pull[p].segment) IN
    /\ pull[p].at = "check"
    /\ IF AtHeight(r.height, replica) # {} THEN Skip(p, r)
       ELSE IF r.prev = pull[p].prev.id /\ r.height = pull[p].prev.height + 1
       THEN pull' = [pull EXCEPT ![p].at = "append"]
       ELSE pull' = [pull EXCEPT ![p] = NoPull]
    /\ UNCHANGED <<memory, files, loaded, call, replica, replicaTip, made, faults, ghosts>>

\* appendDurable of the own store, which refuses a height that another
\* catch-up has filled meanwhile.
Adopt(p) ==
    LET r == LowestOf(pull[p].segment) IN
    /\ pull[p].at = "append"
    /\ IF AtHeight(r.height, replica) # {}
       THEN pull' = [pull EXCEPT ![p] = NoPull] /\ UNCHANGED <<replica, replicaTip>>
       ELSE /\ replica' = replica \cup {r}
            /\ replicaTip' = [height |-> r.height, id |-> r.id]
            /\ Skip(p, r)
    /\ UNCHANGED <<memory, files, loaded, call, made, faults, ghosts>>

FileNext ==
    \/ \E c \in Writer :
          \/ \E k \in Client : AppendFact(c, k)
          \/ GetTip(c) \/ Put(c) \/ WriteLine(c)
          \/ EmptyTip(c) \/ WriteTip(c) \/ EmptyClients(c) \/ WriteClients(c)
          \/ WriteFails(c)
    \/ CrashAndLoad
    \/ \E p \in Puller : CatchUp(p) \/ List(p) \/ Check(p) \/ Adopt(p)

FileSpec == FileInit /\ [][FileNext]_fileVars
-----------------------------------------------------------------------------
\* The chain of the journal in memory, however often it was read back, breaks
\* only where a record's line was cut off by a crash or refused by the disk;
\* later records may be on file without it.
BrokenOnlyByLoss ==
    loaded => \A r \in byHeight : r.prev \in {Genesis} \cup Ids(byHeight) \cup lost

\* No height has two records, in memory, on file or at the second node.
OneRecordPerHeight ==
    \A records \in {byHeight, journalFile, replica} :
        \A r, s \in records : r.height = s.height => r = s

\* What an append was answered with is on file and stays there; the exception
\* is the answer from memory to a second call before the line was written.
ToldIsOnFile == told \subseteq Ids(journalFile)

\* The tip is the top of the records, unless the files were once read back
\* with a tip.json behind the lines; then no append succeeds.
TipIsTop == loaded /\ ~stale => memoryTip = Top(byHeight)

\* A client id has one record, unless overlapping calls contested for it, or the
\* files were once read back with a clients.json behind the lines.
ClientHasOneRecord ==
    ~forgot => \A r, s \in byHeight : r.client = s.client /\ r.client \notin contested => r = s

\* The second node's journal is an unbroken chain from the genesis record to
\* its tip, whatever the first node's memory showed of records it then lost.
ReplicaIsChain ==
    /\ \A r \in replica : r.prev \in {Genesis} \cup Ids(replica)
    /\ \A r \in replica : r.prev # Genesis => Of(r.prev, replica).height = r.height - 1
    /\ replicaTip = Top(replica)

\* The second node has nothing the first node does not have, but for records
\* that were in the first node's memory and never on its file.
ReplicaIsPrefix == loaded => Ids(replica) \subseteq Ids(byHeight) \cup lost
=============================================================================
