------------------------------ MODULE NodeChain ------------------------------
(***************************************************************************)
(* NodechainService over MemoryJournalStore                                *)
(* (src/src/nodechain/nodechain.service.ts, memory.store.ts).  A method of *)
(* the memory store runs to its end when it is called, so each read and    *)
(* each appendDurable is one atomic step; the awaits of append separate    *)
(* them, and nothing else keeps concurrent appends apart.                  *)
(***************************************************************************)
EXTENDS NodeChainService

VARIABLES byHeight,   \* Map height -> record
          byClientId, \* Map clientRecordId -> record
          tip         \* this.tip

storeVars == <<byHeight, byClientId, tip>>
vars == <<serviceVars, storeVars>>

Await == {"idle", "ensure", "lookup", "tip", "stored", "verify", "observe"}

TypeOK ==
    /\ ServiceTypeOK
    /\ pc \in [Caller -> Await]
    /\ byHeight \in [Height -> Record \cup {NoRecord}]
    /\ byClientId \in [Key -> Record \cup {NoRecord}]
    /\ tip \in Tip

Init ==
    /\ ServiceInit
    /\ byHeight = [h \in Height |-> NoRecord]
    /\ byClientId = [k \in Key |-> NoRecord]
    /\ tip = NoTip

\* Faulty variants of Lookup and HeightFree: a key is never found, a taken
\* height is never noticed.
LookupNothing(k) == NoRecord
HeightUnchecked(c) == TRUE

\* getByClientRecordId
Lookup(k) == IF k = NoKey THEN NoRecord ELSE byClientId[k]

\* appendDurable's check of the height.
HeightFree(c) == byHeight[seenTip[c].height + 1] = NoRecord

\* append(r), up to its first await.
CallAppend(c, r) ==
    /\ pc[c] = "idle" /\ StartCall(c)
    /\ BeginAppend(c, r, Lookup(r.key), tip)
    /\ UNCHANGED storeVars

CallEnsureGenesis(c) ==
    /\ pc[c] = "idle" /\ StartCall(c)
    /\ EnsureGenesis(c, tip)
    /\ UNCHANGED storeVars

\* MemoryJournalStore.appendDurable, from the tip the caller has read: the
\* height is taken only if it is free.
Persist(c) ==
    /\ pc[c] = "tip" /\ ~Unwritable(c)
    /\ seenTip[c].height < MaxHeight
    /\ HeightFree(c)
    /\ LET rec == NewRecord(c) IN
         /\ byHeight' = [byHeight EXCEPT ![rec.height] = rec]
         /\ byClientId' = IF rec.key = NoKey THEN byClientId
                          ELSE [byClientId EXCEPT ![rec.key] = rec]
         /\ tip' = [height |-> rec.height, hash |-> rec.id]
    /\ Suspend(c, "stored")
    /\ UNCHANGED <<req, found, seenTip, chainOk, calls, outcome, appendCount,
                   failClosed, acked, observed, raced>>

\* Another call has taken the height since the tip was read: STORAGE.
PersistRefused(c) ==
    /\ pc[c] = "tip" /\ ~Unwritable(c)
    /\ seenTip[c].height < MaxHeight
    /\ ~HeightFree(c)
    /\ Finish(c, "STORAGE")
    /\ UNCHANGED <<calls, appendCount, failClosed, acked, observed, raced,
                   storeVars>>

\* Every other step of a call leaves the store alone.
Resume(c) ==
    /\ \/ ReturnGenesis(c, byHeight[0])
       \/ AppendGenesis(c, Lookup(GenesisKey), tip)
       \/ ServiceStep(c, tip, byHeight)
    /\ UNCHANGED storeVars

Next ==
    \E c \in Caller :
        \/ \E r \in FactRequest : CallAppend(c, r)
        \/ CallEnsureGenesis(c)
        \/ Resume(c)
        \/ Persist(c)
        \/ PersistRefused(c)

Spec == Init /\ [][Next]_vars
-----------------------------------------------------------------------------
\* The journal is one unbroken chain: the records are exactly those at the
\* heights up to the tip, each links to the one below, the genesis record and
\* nothing else is at height 0, and the tip names the last one.  Any number of
\* calls may read the same tip (append 219, 283) without breaking it.
ChainUnbroken ==
    /\ \A h \in Height : byHeight[h] # NoRecord <=> h <= tip.height
    /\ ChainOk(byHeight)
    /\ \A h \in 0..tip.height : (byHeight[h].type = "genesis") <=> (h = 0)
    /\ IF tip.height = -1 THEN tip = NoTip ELSE tip.hash = byHeight[tip.height].id

\* An acknowledged append is in the journal for good, at the height its caller
\* was told, whether the call wrote it or found its key already accepted.
AckedIsJournalled == \A rec \in acked : byHeight[rec.height] = rec

\* V6 in the form the code keeps: a clientRecordId is journalled twice only if
\* two calls using it were in progress at the same time (the lookup at 208 and
\* the write at 283 are not one step).
KeyOnceUnlessRaced ==
    \A h, i \in Height :
        /\ byHeight[h] # NoRecord /\ byHeight[i] # NoRecord /\ h # i
        /\ byHeight[h].key = byHeight[i].key /\ byHeight[h].key # NoKey
        => byHeight[h].key \in raced

\* The periodic verification never stops a healthy journal: no interleaving of
\* appends makes verifyChain fail and engage the kill switch.
NoFalseAlarm == ~failClosed

\* When no call is in progress every journalled record has been handed to the
\* observers (event stream, index mirror) and acknowledged, and no other.
ObserversComplete ==
    (\A c \in Caller : ~InFlight(c)) =>
        /\ observed = {byHeight[h] : h \in 0..tip.height}
        /\ observed \subseteq acked

\* Seen from outside, the service is the append-only, hash-linked log of
\* AppendLog: concurrent appends take effect one at a time, each on top of the
\* last, and nothing is acknowledged that is not in the log.
Log == INSTANCE AppendLog WITH entry <- byHeight, size <- tip.height + 1

ImplementsAppendLog == Log!Spec
-----------------------------------------------------------------------------
(***************************************************************************)
(* The inductive invariant behind the safety properties: what the locals   *)
(* of a suspended call still say about the store when the call is resumed. *)
(***************************************************************************)

\* A tip read earlier is stale at worst: it names a record of the journal.
KnownTip(t) ==
    t = NoTip \/ /\ t.height \in 0..tip.height
                 /\ t.hash = byHeight[t.height].id

CallInv(c) ==
    /\ pc[c] # "idle" => calls[c] \in 1..MaxCalls
    /\ KnownTip(seenTip[c])
    /\ found[c] # NoRecord => byHeight[found[c].height] = found[c]
    /\ chainOk[c]
    /\ pc[c] \in {"stored", "verify", "observe"} =>
         /\ seenTip[c].height < MaxHeight
         /\ byHeight[seenTip[c].height + 1] = NewRecord(c)

\* client ids lead to journalled records that carry them, and every journalled
\* record with a key is reachable through it.
IndexInv ==
    /\ \A k \in Key : byClientId[k] # NoRecord =>
         byHeight[byClientId[k].height] = byClientId[k]
    /\ \A h \in Height : byHeight[h] # NoRecord /\ byHeight[h].key # NoKey =>
         byClientId[byHeight[h].key] # NoRecord

\* A call that has found its key unused and has not yet written.
Unused(c) ==
    pc[c] = "tip" \/ (pc[c] = "lookup" /\ found[c] = NoRecord)

\* For a key no two calls have overlapped on: one call at most is appending it,
\* and as long as that call goes to write, no record carries it.
KeyInv ==
    \A k \in Key \ raced :
        /\ \A c, d \in Caller :
             Appending(c) /\ Appending(d) /\ req[c].key = k /\ req[d].key = k
             => c = d
        /\ \A c \in Caller : Unused(c) /\ req[c].key = k =>
             \A h \in Height : byHeight[h] # NoRecord => byHeight[h].key # k

IInv ==
    /\ TypeOK
    /\ ChainUnbroken
    /\ AckedIsJournalled
    /\ NoFalseAlarm
    /\ \A c \in Caller : CallInv(c)
    /\ IndexInv
    /\ KeyInv
    /\ KeyOnceUnlessRaced

\* What is written and not yet observed, or observed and not yet acknowledged,
\* is the record of a call that has still to do so.
ObserverInv ==
    /\ \A h \in Height : byHeight[h] # NoRecord =>
         \/ byHeight[h] \in observed
         \/ \E c \in Caller : pc[c] \in {"stored", "verify"} /\ byHeight[h] = NewRecord(c)
    /\ \A rec \in observed :
         /\ byHeight[rec.height] = rec
         /\ rec \in acked \/ \E c \in Caller : pc[c] = "observe" /\ rec = NewRecord(c)
=============================================================================
