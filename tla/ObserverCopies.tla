---------------------------- MODULE ObserverCopies ----------------------------
(***************************************************************************)
(* What observers keep of the journal: the event log (DurableEventLog),    *)
(* its consumers, the index mirror (in memory or in Postgres) and the      *)
(* outbound notification.  Each accepted record runs one callback, and the *)
(* callbacks of overlapping appends overlap.  The callback of a record is  *)
(*   none, stored    not appended; appended, callback not yet called       *)
(*   record, tip     that event is in memory, its line is to be written    *)
(*   index, summary, meta   before that query of the upsert                *)
(*   out, done       before the notification; ended                        *)
(* Any step of it may fail, and no failure reaches the append.  A replay   *)
(* of the mirror reads the whole journal and upserts it record by record.  *)
(* A crash ends the callbacks and the replays; the journal itself, the     *)
(* lines of the event log and the tables survive.                          *)
(*                                                                         *)
(* A record is its height; all records belong to one process.              *)
(* Bounds: MaxTop records, MaxCuts crashes and failed steps,               *)
(* MaxReplays replays, pages of PageLimit events.                          *)
(***************************************************************************)
EXTENDS Naturals, Sequences, FiniteSets, SequencesExt

CONSTANTS Replay, MaxTop, MaxCuts, MaxReplays, PageLimit

ASSUME ObserverAssumption ==
    {MaxTop, PageLimit} \subseteq Nat \ {0} /\ {MaxCuts, MaxReplays} \subseteq Nat

VARIABLES top,                        \* the height of the journal
          at,                         \* where the callback of a record is
          seq, events, eventFile,     \* the log: counter, memory, lines
          cursor, got,                \* a consumer that polls the log
          kind,                       \* the mirror: "memory" or "postgres"
          index, lastHeight, maxHeight,   \* its tables
          replay, replays,
          sent,                       \* records that were notified
          cuts,
          unheard,  \* records whose events were not both written
          missing,  \* ghost: records an upsert, a replay or a crash left out
          crossed,  \* ghost: upserts overlapped or came out of order
          clouded   \* ghost: the log was read back out of order, or without
                    \* events its consumer had

log == <<seq, events, eventFile>>
consumer == <<cursor, got>>
tables == <<index, lastHeight, maxHeight>>
mirror == <<kind, tables, replay, replays, missing, crossed>>
observerVars == <<top, at, log, consumer, mirror, sent, cuts, unheard, clouded>>

AllHeights == 1..MaxTop
Event == [seq : 1..(2 * MaxTop), height : AllHeights, type : {"record", "tip"}]
Highest(S) == IF S = {} THEN 0 ELSE CHOOSE h \in S : \A g \in S : g <= h
Lowest(S) == CHOOSE h \in S : \A g \in S : h <= g
Seqs(es) == {es[i].seq : i \in DOMAIN es}
Ascending(es) == \A i, j \in DOMAIN es : i < j => es[i].seq < es[j].seq
NoReplay == [at |-> "idle", todo |-> {}]

ObserverTypeOK ==
    /\ top \in 0..MaxTop
    /\ at \in [AllHeights -> {"none", "stored", "record", "tip", "index", "summary",
                          "meta", "out", "done"}]
    /\ seq \in 0..(2 * MaxTop)
    /\ \A es \in {events, eventFile} : \A i \in DOMAIN es : es[i] \in Event
    /\ cursor \in 0..(2 * MaxTop) /\ got \subseteq Event
    /\ kind \in {"memory", "postgres"}
    /\ {index, sent, unheard, missing} \subseteq SUBSET AllHeights
    /\ {lastHeight, maxHeight} \subseteq 0..MaxTop
    /\ replay \in [Replay -> [at : {"idle", "list", "clear", "index", "summary", "meta"},
                              todo : SUBSET AllHeights]]
    /\ replays \in 0..MaxReplays /\ cuts \in 0..MaxCuts
    /\ {crossed, clouded} \subseteq BOOLEAN

ObserverInit ==
    /\ top = 0 /\ at = [h \in AllHeights |-> "none"]
    /\ seq = 0 /\ events = <<>> /\ eventFile = <<>>
    /\ cursor = 0 /\ got = {}
    /\ kind \in {"memory", "postgres"}
    /\ index = {} /\ lastHeight = 0 /\ maxHeight = 0
    /\ replay = [r \in Replay |-> NoReplay] /\ replays = 0
    /\ sent = {} /\ cuts = 0
    /\ unheard = {} /\ missing = {} /\ crossed = FALSE /\ clouded = FALSE

Goes(h, where) == at' = [at EXCEPT ![h] = where]
Cut == cuts < MaxCuts /\ cuts' = cuts + 1
-----------------------------------------------------------------------------
(***************************************************************************)
(* The journal and the event log.                                          *)
(***************************************************************************)
AppendRecord ==
    /\ top < MaxTop
    /\ top' = top + 1
    /\ Goes(top + 1, "stored")
    /\ UNCHANGED <<log, consumer, mirror, sent, cuts, unheard, clouded>>

\* DurableEventLog.append up to its write: the sequence number is taken and
\* the event is in memory.
Publish(h, type) ==
    LET e == [seq |-> seq + 1, height |-> h, type |-> type] IN
    /\ seq' = seq + 1
    /\ events' = Append(events, e)
    /\ Goes(h, type)

CallBack(h) ==
    /\ at[h] = "stored"
    /\ Publish(h, "record")
    /\ UNCHANGED <<top, eventFile, consumer, mirror, sent, cuts, unheard, clouded>>

\* The event of a record, as the callback holds it.
EventOf(h, type) == CHOOSE e \in ToSet(events) : e.height = h /\ e.type = type

\* The line of the first event is written, and the second event published.
WriteRecordEvent(h) ==
    /\ at[h] = "record"
    /\ eventFile' = Append(eventFile, EventOf(h, "record"))
    /\ Publish(h, "tip")
    /\ UNCHANGED <<top, consumer, mirror, sent, cuts, unheard, clouded>>

WriteTipEvent(h) ==
    /\ at[h] = "tip"
    /\ eventFile' = Append(eventFile, EventOf(h, "tip"))
    /\ Goes(h, "index")
    /\ UNCHANGED <<top, seq, events, consumer, mirror, sent, cuts, unheard, clouded>>

\* The line cannot be written: lastEvent stays null, the event stays in
\* memory, and the second one is not published if it was the first.
EventFails(h) ==
    /\ at[h] \in {"record", "tip"} /\ Cut
    /\ unheard' = unheard \cup {h}
    /\ Goes(h, "index")
    /\ UNCHANGED <<top, log, consumer, mirror, sent, clouded>>

\* query with the consumer's cursor: the first events after it, in the order
\* in which they are in memory; the next cursor is that of the last one.
Poll ==
    LET later == {i \in DOMAIN events : events[i].seq > cursor}
        shown == {i \in later : Cardinality({j \in later : j <= i}) <= PageLimit}
    IN
    /\ later # {}
    /\ got' = got \cup {events[i] : i \in shown}
    /\ cursor' = events[Highest(shown)].seq
    /\ UNCHANGED <<top, at, log, mirror, sent, cuts, unheard, clouded>>

\* fanOutObserverEvent with the last event, if there is one.
Notify(h) ==
    /\ at[h] = "out"
    /\ sent' = IF h \in unheard THEN sent ELSE sent \cup {h}
    /\ Goes(h, "done")
    /\ UNCHANGED <<top, log, consumer, mirror, cuts, unheard, clouded>>
-----------------------------------------------------------------------------
(***************************************************************************)
(* The mirror.                                                             *)
(***************************************************************************)
Upserting == {h \in AllHeights : at[h] \in {"summary", "meta"}}
Replaying == {r \in Replay : replay[r].at # "idle"}

\* The first query of an upsert; the mirror in memory needs no other.
Enter(h) ==
    /\ index' = index \cup {h}
    /\ missing' = missing \ {h}

Index(h) ==
    /\ at[h] = "index"
    /\ Enter(h)
    /\ crossed' = (crossed \/ Upserting # {} \/ Replaying # {} \/ \E g \in index : g > h)
    /\ Goes(h, IF kind = "memory" THEN "out" ELSE "summary")
    /\ UNCHANGED <<top, log, consumer, kind, lastHeight, maxHeight, replay, replays,
                   sent, cuts, unheard, clouded>>

\* The upserts of process_summary and of mirror_meta overwrite.
Summarise(h) ==
    /\ at[h] = "summary"
    /\ lastHeight' = h
    /\ Goes(h, "meta")
    /\ UNCHANGED <<top, log, consumer, kind, index, maxHeight, replay, replays, missing,
                   crossed, sent, cuts, unheard, clouded>>

RecordMaxHeight(h) ==
    /\ at[h] = "meta"
    /\ maxHeight' = h
    /\ Goes(h, "out")
    /\ UNCHANGED <<top, log, consumer, kind, index, lastHeight, replay, replays, missing,
                   crossed, sent, cuts, unheard, clouded>>

\* A query fails: the rest of the upsert is not done, the callback goes on.
UpsertFails(h) ==
    /\ at[h] \in {"index", "summary", "meta"} /\ kind = "postgres" /\ Cut
    /\ missing' = IF at[h] = "index" THEN missing \cup {h} ELSE missing
    /\ crossed' = TRUE
    /\ Goes(h, "out")
    /\ UNCHANGED <<top, log, consumer, kind, tables, replay, replays, sent, unheard, clouded>>

\* replayFrom: the mirror in memory lists the journal and then clears itself;
\* the tables are truncated (mirror_meta is not) before the journal is listed.
StartReplay(r) ==
    /\ replay[r].at = "idle" /\ replays < MaxReplays
    /\ replays' = replays + 1
    /\ crossed' = (crossed \/ Upserting # {} \/ Replaying # {})
    /\ IF kind = "memory"
       THEN /\ replay' = [replay EXCEPT ![r] = [at |-> "clear", todo |-> 1..top]]
            /\ UNCHANGED tables
       ELSE /\ replay' = [replay EXCEPT ![r].at = "list"]
            /\ index' = {} /\ lastHeight' = 0
            /\ UNCHANGED maxHeight
    /\ UNCHANGED <<top, at, log, consumer, kind, missing, sent, cuts, unheard, clouded>>

\* Faulty variant of ListJournal: the journal is read as far as the mirror
\* had seen it.
ListJournalToMax(r) ==
    /\ replay[r].at = "list"
    /\ replay' = [replay EXCEPT ![r] = IF maxHeight = 0 THEN NoReplay
                      ELSE [at |-> "index", todo |-> 1..maxHeight]]
    /\ UNCHANGED <<top, at, log, consumer, kind, tables, replays, missing, crossed, sent,
                   cuts, unheard, clouded>>

ListJournal(r) ==
    /\ replay[r].at = "list"
    /\ replay' = [replay EXCEPT ![r] = IF top = 0 THEN NoReplay
                      ELSE [at |-> "index", todo |-> 1..top]]
    /\ UNCHANGED <<top, at, log, consumer, kind, tables, replays, missing, crossed, sent,
                   cuts, unheard, clouded>>

\* What was upserted since the journal was listed is gone with the rest.
ClearMemory(r) ==
    /\ replay[r].at = "clear"
    /\ index' = {}
    /\ missing' = missing \cup (index \ replay[r].todo)
    /\ replay' = [replay EXCEPT ![r] = IF @.todo = {} THEN NoReplay
                      ELSE [at |-> "index", todo |-> @.todo]]
    /\ UNCHANGED <<top, at, log, consumer, kind, lastHeight, maxHeight, replays, crossed,
                   sent, cuts, unheard, clouded>>

\* The records are upserted from the lowest up.
NextOf(r) == Lowest(replay[r].todo)

\* The record is upserted; on to the next one, or the replay ends.
Proceed(r) ==
    LET rest == replay[r].todo \ {NextOf(r)} IN
    replay' = [replay EXCEPT ![r] = IF rest = {} THEN NoReplay
                   ELSE [at |-> "index", todo |-> rest]]

ReplayIndex(r) ==
    /\ replay[r].at = "index"
    /\ Enter(NextOf(r))
    /\ IF kind = "memory" THEN Proceed(r)
       ELSE replay' = [replay EXCEPT ![r].at = "summary"]
    /\ UNCHANGED <<top, at, log, consumer, kind, lastHeight, maxHeight, replays, crossed,
                   sent, cuts, unheard, clouded>>

ReplaySummary(r) ==
    /\ replay[r].at = "summary"
    /\ lastHeight' = NextOf(r)
    /\ replay' = [replay EXCEPT ![r].at = "meta"]
    /\ UNCHANGED <<top, at, log, consumer, kind, index, maxHeight, replays, missing,
                   crossed, sent, cuts, unheard, clouded>>

ReplayMaxHeight(r) ==
    /\ replay[r].at = "meta"
    /\ maxHeight' = NextOf(r)
    /\ Proceed(r)
    /\ UNCHANGED <<top, at, log, consumer, kind, index, lastHeight, replays, missing,
                   crossed, sent, cuts, unheard, clouded>>

\* A query of the replay fails and ends it, with the tables half filled.
ReplayFails(r) ==
    /\ replay[r].at \in {"list", "index", "summary", "meta"} /\ kind = "postgres" /\ Cut
    /\ missing' = missing \cup (1..top \ index)
    /\ crossed' = TRUE
    /\ replay' = [replay EXCEPT ![r] = NoReplay]
    /\ UNCHANGED <<top, at, log, consumer, kind, tables, replays, sent, unheard, clouded>>
-----------------------------------------------------------------------------
\* The process restarts.  The log is read back from its lines, in their order;
\* nothing publishes or indexes again what the callbacks had not done yet.
CrashAndReload ==
    LET pending == {h \in 1..top : at[h] \in {"stored", "record", "tip"}} IN
    /\ Cut
    /\ at' = [h \in AllHeights |-> IF h <= top THEN "done" ELSE "none"]
    /\ events' = eventFile
    /\ seq' = Highest(Seqs(eventFile))
    /\ unheard' = unheard \cup pending
    /\ clouded' = (clouded \/ cursor > seq' \/ ~Ascending(eventFile))
    /\ IF kind = "memory" THEN index' = {} ELSE UNCHANGED index
    /\ missing' = IF kind = "memory" \/ Replaying # {} THEN 1..top
                  ELSE missing \cup (1..top \ index)
    /\ crossed' = TRUE
    /\ replay' = [r \in Replay |-> NoReplay]
    /\ UNCHANGED <<top, eventFile, consumer, kind, lastHeight, maxHeight, replays, sent>>

ObserverNext ==
    \/ AppendRecord
    \/ \E h \in AllHeights :
          \/ CallBack(h) \/ WriteRecordEvent(h) \/ WriteTipEvent(h) \/ EventFails(h)
          \/ Index(h) \/ Summarise(h) \/ RecordMaxHeight(h) \/ UpsertFails(h)
          \/ Notify(h)
    \/ Poll
    \/ \E r \in Replay :
          \/ StartReplay(r) \/ ListJournal(r) \/ ClearMemory(r)
          \/ ReplayIndex(r) \/ ReplaySummary(r) \/ ReplayMaxHeight(r) \/ ReplayFails(r)
    \/ CrashAndReload

ObserverSpec == ObserverInit /\ [][ObserverNext]_observerVars
-----------------------------------------------------------------------------
\* Both events of a record are in the log once its callback has published
\* them, and stay there through every restart, unless a crash or a failed
\* write came before the second line.
EventsComplete ==
    \A h \in AllHeights : at[h] \in {"index", "summary", "meta", "out", "done"} =>
        \/ h \in unheard
        \/ \A type \in {"record", "tip"} :
              \E e \in ToSet(events) \cap ToSet(eventFile) : e.height = h /\ e.type = type

\* A consumer that polls from its cursor has every event of the log up to it,
\* at any page size, across restarts; except after a restart that read the
\* lines back out of order or lost events the consumer already had.
ConsumerMissesNothing ==
    clouded \/ \A e \in ToSet(events) : e.seq <= cursor => e \in got

\* Who is notified of a record finds both its events in the lines of the log,
\* whatever was lost.
SentIsLogged ==
    \A h \in sent : \A type \in {"record", "tip"} :
        \E e \in ToSet(eventFile) : e.height = h /\ e.type = type

\* No two events of the log share a number, though numbers are issued again
\* after a crash.
NumbersAreUnique == \A i, j \in DOMAIN events : events[i].seq = events[j].seq => i = j

\* While no replay runs the mirror has every record whose callback is through,
\* except what a failed query, a crash, or a replay in memory that listed the
\* journal too early left out.
MirrorComplete ==
    Replaying = {} =>
        \A h \in AllHeights : at[h] \in {"out", "done"} => h \in index \cup missing

\* The heights the tables tell are those of the highest record they have,
\* unless upserts overlapped, came out of order or were cut.
MaxHeightIsTop ==
    kind = "postgres" /\ ~crossed /\ Replaying = {} /\ Upserting = {} =>
        lastHeight = Highest(index) /\ maxHeight = Highest(index)
=============================================================================
