---------------------------- MODULE RocksJournal ----------------------------
(***************************************************************************)
(* NodechainService over RocksDbJournalStore                               *)
(* (src/src/nodechain/rocksdb.store.ts), with crashes and restarts.        *)
(*                                                                         *)
(* appendDurable looks the height up and then makes four separate puts:    *)
(* h/<height>, id/<recordId>, client/<clientRecordId> and tip.  No batch   *)
(* and no lock joins them, so other calls and crashes fall in between, and *)
(* each may fail by itself.  A read is one step, at its last get.  id/ is  *)
(* only read through client/, so the two puts are one step here and        *)
(* client/<key> leads straight to a height.                                *)
(*                                                                         *)
(* serial is the single writer the docs assume: calls do not overlap, and  *)
(* crashes and failing puts are looked at for it alone.                    *)
(* Bounds: MaxCrashes crashes, MaxFailures failing puts.                   *)
(***************************************************************************)
EXTENDS NodeChainService

CONSTANTS MaxCrashes, MaxFailures

ASSUME RocksAssumption ==
    MaxCrashes \in Nat /\ MaxFailures \in Nat

VARIABLES serial,   \* calls do not overlap, chosen once
          recordAt, \* h/<height> -> record
          heightOf, \* client/<clientRecordId> -> height, -1 where absent
          tip,      \* tip
          crashes, failures

dbVars == <<recordAt, heightOf, tip>>
faultVars == <<crashes, failures>>
vars == <<serial, serviceVars, dbVars, faultVars>>

Writing == {"putRecord", "putIndex", "putTip"}
Await == {"idle", "ensure", "lookup", "tip", "stored", "verify", "observe"}
         \cup Writing

TypeOK ==
    /\ serial \in BOOLEAN
    /\ ServiceTypeOK
    /\ pc \in [Caller -> Await]
    /\ recordAt \in [Height -> Record \cup {NoRecord}]
    /\ heightOf \in [Key -> Height \cup {-1}]
    /\ tip \in Tip
    /\ crashes \in 0..MaxCrashes /\ failures \in 0..MaxFailures

Init ==
    /\ serial \in BOOLEAN
    /\ ServiceInit
    /\ recordAt = [h \in Height |-> NoRecord]
    /\ heightOf = [k \in Key |-> -1]
    /\ tip = NoTip
    /\ crashes = 0 /\ failures = 0

\* Faulty variants of Lookup and HeightFree: a key is never found, a taken
\* height is never noticed.
LookupNothing(k) == NoRecord
HeightUnchecked(c) == TRUE

\* getByClientRecordId: through client/ and id/ to whatever is at the height.
Lookup(k) ==
    IF k = NoKey \/ heightOf[k] = -1 THEN NoRecord ELSE recordAt[heightOf[k]]

\* listAll: the heights up to the tip, and nothing above it.
Listed == [h \in Height |-> IF h <= tip.height THEN recordAt[h] ELSE NoRecord]

MayStart(c) ==
    /\ pc[c] = "idle" /\ StartCall(c)
    /\ serial => \A d \in Caller : ~InFlight(d)

CallAppend(c, r) ==
    /\ MayStart(c)
    /\ BeginAppend(c, r, Lookup(r.key), tip)
    /\ UNCHANGED <<dbVars, faultVars>>

CallEnsureGenesis(c) ==
    /\ MayStart(c)
    /\ EnsureGenesis(c, tip)
    /\ UNCHANGED <<dbVars, faultVars>>

\* The steps of a call before and after appendDurable.
Resume(c) ==
    /\ \/ ReturnGenesis(c, recordAt[0])
       \/ AppendGenesis(c, Lookup(GenesisKey), tip)
       \/ ServiceStep(c, tip, Listed)
    /\ UNCHANGED <<dbVars, faultVars>>

\* appendDurable: is there a record at the height already?
HeightFree(c) == recordAt[seenTip[c].height + 1] = NoRecord

CheckHeight(c) ==
    /\ pc[c] = "tip" /\ ~Unwritable(c)
    /\ seenTip[c].height < MaxHeight
    /\ HeightFree(c)
    /\ Suspend(c, "putRecord")
    /\ UNCHANGED <<req, found, seenTip, chainOk, calls, outcome, appendCount,
                   failClosed, acked, observed, raced, dbVars, faultVars>>

HeightTaken(c) ==
    /\ pc[c] = "tip" /\ ~Unwritable(c)
    /\ seenTip[c].height < MaxHeight
    /\ ~HeightFree(c)
    /\ Finish(c, "STORAGE")
    /\ UNCHANGED <<calls, appendCount, failClosed, acked, observed, raced,
                   dbVars, faultVars>>

\* put h/<height>: overwrites what may have got there since the check.
PutRecord(c) ==
    /\ pc[c] = "putRecord"
    /\ recordAt' = [recordAt EXCEPT ![NewRecord(c).height] = NewRecord(c)]
    /\ Suspend(c, "putIndex")
    /\ UNCHANGED <<req, found, seenTip, chainOk, calls, outcome, appendCount,
                   failClosed, acked, observed, raced, heightOf, tip, faultVars>>

\* put id/<recordId>, and client/<clientRecordId> if there is one.
PutIndex(c) ==
    /\ pc[c] = "putIndex"
    /\ heightOf' = IF req[c].key = NoKey THEN heightOf
                   ELSE [heightOf EXCEPT ![req[c].key] = NewRecord(c).height]
    /\ Suspend(c, "putTip")
    /\ UNCHANGED <<req, found, seenTip, chainOk, calls, outcome, appendCount,
                   failClosed, acked, observed, raced, recordAt, tip, faultVars>>

\* put tip: unconditionally.
PutTip(c) ==
    /\ pc[c] = "putTip"
    /\ tip' = [height |-> NewRecord(c).height, hash |-> NewRecord(c).id]
    /\ Suspend(c, "stored")
    /\ UNCHANGED <<req, found, seenTip, chainOk, calls, outcome, appendCount,
                   failClosed, acked, observed, raced, recordAt, heightOf,
                   faultVars>>

\* Faulty variant of PutFails: the error is swallowed and the next put made.
PutFailsSwallowed(c) ==
    /\ serial /\ pc[c] \in Writing /\ failures < MaxFailures
    /\ failures' = failures + 1
    /\ Suspend(c, CASE pc[c] = "putRecord" -> "putIndex"
                    [] pc[c] = "putIndex" -> "putTip"
                    [] pc[c] = "putTip" -> "stored")
    /\ UNCHANGED <<req, found, seenTip, chainOk, calls, outcome, appendCount,
                   failClosed, acked, observed, raced, dbVars, crashes>>

\* A put fails: the call throws STORAGE; the puts before it stay.
PutFails(c) ==
    /\ serial /\ pc[c] \in Writing /\ failures < MaxFailures
    /\ failures' = failures + 1
    /\ Finish(c, "STORAGE")
    /\ UNCHANGED <<calls, appendCount, failClosed, acked, observed, raced,
                   dbVars, crashes>>

\* The process dies and is started again.  Every suspended call and every
\* field of the service is lost, the kill switch among them; the database
\* and what callers were told remain.
Crash ==
    /\ serial /\ crashes < MaxCrashes
    /\ crashes' = crashes + 1
    /\ pc' = [c \in Caller |-> "idle"]
    /\ req' = [c \in Caller |-> GenesisRequest]
    /\ found' = [c \in Caller |-> NoRecord]
    /\ seenTip' = [c \in Caller |-> NoTip]
    /\ chainOk' = [c \in Caller |-> TRUE]
    /\ outcome' = [c \in Caller |-> "none"]
    /\ appendCount' = 0
    /\ failClosed' = FALSE
    /\ UNCHANGED <<calls, acked, observed, raced, dbVars, failures>>

Step ==
    \/ \E c \in Caller :
        \/ \E r \in FactRequest : CallAppend(c, r)
        \/ CallEnsureGenesis(c)
        \/ Resume(c)
        \/ CheckHeight(c) \/ HeightTaken(c)
        \/ PutRecord(c) \/ PutIndex(c) \/ PutTip(c) \/ PutFails(c)
    \/ Crash

Next == Step /\ UNCHANGED serial

Spec == Init /\ [][Next]_vars
-----------------------------------------------------------------------------
AtRest == \A c \in Caller : ~InFlight(c)

\* The journal the store lists is one unbroken chain without gaps that ends at
\* the tip, whatever crashed or failed between two puts (the tip is put last,
\* rocksdb.store.ts 161-170).
ListedChainUnbroken ==
    serial =>
    /\ ChainOk(Listed)
    /\ \A h \in 0..tip.height : recordAt[h] # NoRecord
    /\ tip.height >= 0 => tip.hash = recordAt[tip.height].id

\* A crash or a failing put leaves at most one stored record outside the
\* listed journal, and that one directly above the tip and linked to it.
OrphanOnlyAboveTip ==
    serial => \A h \in Height :
        recordAt[h] # NoRecord /\ h > tip.height =>
            h = tip.height + 1 /\ recordAt[h].prev = tip.hash

\* A clientRecordId is never stored twice, crash and retry included.
StoredKeyOnce ==
    serial => \A h, i \in Height :
        /\ recordAt[h] # NoRecord /\ recordAt[i] # NoRecord /\ h # i
        => recordAt[h].key # recordAt[i].key \/ recordAt[h].key = NoKey

\* With one writer at a time the stored records are the append-only log of
\* AppendLog through every crash, retry and failing put: no height is written
\* twice and what was acknowledged stays where the caller was told it is.
Stored == Cardinality({h \in Height : recordAt[h] # NoRecord})
Log == INSTANCE AppendLog WITH
    entry <- IF serial THEN recordAt ELSE [h \in Height |-> NoRecord],
    size <- IF serial THEN Stored ELSE 0,
    acked <- IF serial THEN acked ELSE {}

ImplementsAppendLog == Log!Spec

\* Even with overlapping writers the listed journal has no gap: a tip is only
\* put after the record at its height.
NoGapBelowTip == \A h \in 0..tip.height : recordAt[h] # NoRecord

\* Overlapping writers can break the chain, but not unnoticed when every
\* append is verified: at rest, a journal that does not verify is closed.
BrokenChainFailsClosed == ~serial /\ AtRest => ChainOk(Listed) \/ failClosed

\* Crashes, failing puts and retries of one writer at a time leave the listed
\* journal whole: one chain up to the tip, at most one record above it, no key
\* twice; and no overlap of writers leaves a gap below the tip.
StoreIsSound ==
    /\ TypeOK
    /\ ListedChainUnbroken
    /\ OrphanOnlyAboveTip
    /\ StoredKeyOnce
    /\ NoGapBelowTip
-----------------------------------------------------------------------------
(***************************************************************************)
(* The invariant the proofs of RocksJournalProofs rest on.                 *)
(***************************************************************************)

\* What a call knows however many others write: the tip it has read had no gap
\* below it, and its record is there before it is indexed.
CallInv(c) ==
    /\ pc[c] # "idle" => calls[c] \in 1..MaxCalls
    /\ pc[c] \in Writing \cup {"stored", "verify", "observe"} => seenTip[c].height < MaxHeight
    /\ \A h \in 0..seenTip[c].height : recordAt[h] # NoRecord
    /\ pc[c] \in {"putIndex", "putTip"} => recordAt[seenTip[c].height + 1] # NoRecord

\* A call that has found its key unused and has not yet written.
Unused(c) == (pc[c] = "lookup" /\ found[c] = NoRecord) \/ pc[c] \in {"tip", "putRecord"}

\* What a call that is alone knows besides: the tip it has read is the tip, the
\* height above is free until it writes there, its key leads nowhere until it
\* has.
LoneInv(c) ==
    /\ pc[c] \in {"ensure", "tip"} \cup Writing => seenTip[c] = tip
    /\ pc[c] = "putRecord" => recordAt[tip.height + 1] = NoRecord
    /\ pc[c] \in {"putIndex", "putTip", "stored", "verify", "observe"} =>
         recordAt[seenTip[c].height + 1] = NewRecord(c)
    /\ found[c] # NoRecord => recordAt[found[c].height] = found[c]
    /\ req[c].key # NoKey =>
         /\ Unused(c) => heightOf[req[c].key] = -1
         /\ pc[c] = "putTip" => heightOf[req[c].key] = tip.height + 1

\* The stored records are a chain that goes at most one beyond the tip; client/
\* leads to records, and all of them but the one beyond the tip are reached.
StoreInv ==
    /\ \A h \in Height : recordAt[h] # NoRecord =>
         /\ h <= tip.height + 1 /\ recordAt[h].height = h
         /\ recordAt[h].prev = IF h = 0 THEN GenesisPrev ELSE recordAt[h - 1].id
         /\ recordAt[h].key # NoKey /\ h <= tip.height => heightOf[recordAt[h].key] = h
    /\ IF tip.height = -1 THEN tip = NoTip ELSE tip.hash = recordAt[tip.height].id
    /\ \A k \in Key : heightOf[k] # -1 =>
         recordAt[heightOf[k]] # NoRecord /\ recordAt[heightOf[k]].key = k

Alone == \A c, d \in Caller : InFlight(c) /\ InFlight(d) => c = d

RocksInv ==
    /\ TypeOK
    /\ NoGapBelowTip
    /\ \A c \in Caller : CallInv(c)
    /\ serial => Alone /\ StoreInv /\ StoredKeyOnce /\ \A c \in Caller : LoneInv(c)

\* A chain broken by overlapping writers: the service is closed, or a call that
\* has still to verify, or has verified, is on its way to close it.
BreakIsNoticed ==
    ~serial => \/ ChainOk(Listed) \/ failClosed
               \/ \E c \in Caller : \/ pc[c] \in {"putIndex", "putTip", "stored"}
                                    \/ pc[c] = "verify" /\ ~chainOk[c]
=============================================================================
