-------------------------- MODULE NodeChainService --------------------------
(***************************************************************************)
(* The part of NodechainService.append and ensureGenesis that does not     *)
(* depend on the storage engine: src/src/nodechain/nodechain.service.ts.   *)
(*                                                                         *)
(* The process is single threaded and cooperative: a call runs without     *)
(* interruption from one await to the next, and any number of calls may be *)
(* suspended at an await at the same time.  One action is one such piece   *)
(* of a call; pc[c] names the await at which caller c is suspended, and    *)
(* req, found, seenTip and chainOk are the local variables of its call.    *)
(* A module that EXTENDS this one adds the storage engine: what a lookup   *)
(* finds, what the tip is and how a record is written.                     *)
(*                                                                         *)
(* Bounds: MaxCalls calls per caller, heights up to MaxHeight.             *)
(***************************************************************************)
EXTENDS Integers, FiniteSets

CONSTANTS Caller,        \* concurrent callers (HTTP handlers of one process)
          Key,           \* values of clientRecordId
          GenesisKey,    \* the clientRecordId 'genesis' of ensureGenesis
          NoKey,         \* a request without clientRecordId
          NoRecord,      \* null, as a lookup returns it
          GenesisPrev,   \* GENESIS_PREV_HASH
          MaxHeight, MaxCalls,
          VerifyEveryN   \* options.verifyEveryN (5 in the product)

ASSUME ServiceAssumption ==
    /\ MaxHeight \in Nat /\ MaxCalls \in Nat /\ VerifyEveryN \in Nat \ {0}
    /\ GenesisKey \in Key /\ NoKey \notin Key

VARIABLES pc, req, found, seenTip, chainOk, \* the suspended calls
          calls,                \* calls each caller has made
          outcome,              \* how each caller's last call ended
          appendCount,          \* this.appendCount, modulo VerifyEveryN
          failClosed,           \* this.readOnly and the global kill switch
          acked,                \* records whose append was acknowledged
          observed,             \* records handed to onRecordAppended
          raced                 \* ghost: keys two overlapping calls have used

callVars == <<pc, req, found, seenTip, chainOk>>
serviceVars == <<callVars, calls, outcome, appendCount, failClosed, acked,
                 observed, raced>>

Height == 0..MaxHeight

\* A record id is a fresh UUID: the caller and the number of its call.
\* envelopeHash covers the whole record, so the id stands for it too.
RecordId == Caller \X (1..MaxCalls)
Hash == RecordId \cup {GenesisPrev}
RecordType == {"genesis", "fact"}

Record == [id : RecordId, type : RecordType, key : Key \cup {NoKey},
           height : Height, prev : Hash]

ASSUME NoRecordAssumption == NoRecord \notin Record

Tip == [height : Height \cup {-1}, hash : Hash]

\* A missing tip is represented by what append derives from it: the next
\* height is 0 and the previous hash GENESIS_PREV_HASH.
NoTip == [height |-> -1, hash |-> GenesisPrev]

\* What a request can be refused for by its own content: "malformed" stands
\* for a missing writer, an unknown type, a payload that is no object and a
\* missing processId; "unsigned" for a writer without a key or a signature
\* that does not verify.
Fault == {"none", "malformed", "unsigned"}
FactRequest == [type : {"fact"}, key : (Key \ {GenesisKey}) \cup {NoKey},
                fault : Fault]
GenesisRequest == [type |-> "genesis", key |-> GenesisKey, fault |-> "none"]
Request == FactRequest \cup {GenesisRequest}

Outcome == {"none", "ok", "READ_ONLY", "SCHEMA", "NO_GENESIS",
            "ALREADY_GENESIS", "BAD_SIGNATURE", "STORAGE", "HASH_MISMATCH"}

\* The record a call builds from the tip it has read.
NewRecord(c) == [id |-> <<c, calls[c]>>, type |-> req[c].type,
                 key |-> req[c].key, height |-> seenTip[c].height + 1,
                 prev |-> seenTip[c].hash]

InFlight(c) == pc[c] # "idle"
Appending(c) == pc[c] \notin {"idle", "ensure"}

\* verifyChain: every record present has the height it is stored at and links
\* to the record one below it; the first one is the record at height 0.
ChainOk(stored) ==
    \A h \in Height : stored[h] # NoRecord =>
        /\ stored[h].height = h
        /\ IF h = 0 THEN stored[h].prev = GenesisPrev
                    ELSE /\ stored[h - 1] # NoRecord
                         /\ stored[h].prev = stored[h - 1].id

ServiceTypeOK ==
    /\ req \in [Caller -> Request]
    /\ found \in [Caller -> Record \cup {NoRecord}]
    /\ seenTip \in [Caller -> Tip]
    /\ chainOk \in [Caller -> BOOLEAN]
    /\ calls \in [Caller -> 0..MaxCalls]
    /\ outcome \in [Caller -> Outcome]
    /\ appendCount \in 0..(VerifyEveryN - 1)
    /\ failClosed \in BOOLEAN
    /\ acked \subseteq Record
    /\ observed \subseteq Record
    /\ raced \subseteq Key

ServiceInit ==
    /\ pc = [c \in Caller |-> "idle"]
    /\ req = [c \in Caller |-> GenesisRequest]
    /\ found = [c \in Caller |-> NoRecord]
    /\ seenTip = [c \in Caller |-> NoTip]
    /\ chainOk = [c \in Caller |-> TRUE]
    /\ calls = [c \in Caller |-> 0]
    /\ outcome = [c \in Caller |-> "none"]
    /\ appendCount = 0
    /\ failClosed = FALSE
    /\ acked = {}
    /\ observed = {}
    /\ raced = {}
-----------------------------------------------------------------------------
\* Suspend a call at the await named by where.
Suspend(c, where) == pc' = [pc EXCEPT ![c] = where]

\* End a call: its locals are dropped and the caller sees result.
Finish(c, result) ==
    /\ pc' = [pc EXCEPT ![c] = "idle"]
    /\ outcome' = [outcome EXCEPT ![c] = result]
    /\ req' = [req EXCEPT ![c] = GenesisRequest]
    /\ found' = [found EXCEPT ![c] = NoRecord]
    /\ seenTip' = [seenTip EXCEPT ![c] = NoTip]
    /\ chainOk' = [chainOk EXCEPT ![c] = TRUE]

StartCall(c) == calls[c] < MaxCalls /\ calls' = [calls EXCEPT ![c] = @ + 1]

\* append(r) refuses before its first await.
RefuseAppend(c, r) ==
    /\ failClosed \/ r.fault = "malformed"
    /\ Finish(c, IF failClosed THEN "READ_ONLY" ELSE "SCHEMA")
    /\ UNCHANGED <<appendCount, failClosed, acked, observed, raced>>

\* append(r) with a clientRecordId: the lookup found existing.
LookUpKey(c, r, existing) ==
    /\ ~failClosed /\ r.fault # "malformed" /\ r.key # NoKey
    /\ Suspend(c, "lookup")
    /\ req' = [req EXCEPT ![c] = r]
    /\ found' = [found EXCEPT ![c] = existing]
    /\ raced' = IF \E d \in Caller \ {c} : Appending(d) /\ req[d].key = r.key
                THEN raced \cup {r.key} ELSE raced
    /\ UNCHANGED <<seenTip, chainOk, outcome, appendCount, failClosed, acked,
                   observed>>

\* append(r) without a clientRecordId goes straight to the tip.
ReadTipUnkeyed(c, r, tip) ==
    /\ ~failClosed /\ r.fault # "malformed" /\ r.key = NoKey
    /\ Suspend(c, "tip")
    /\ req' = [req EXCEPT ![c] = r]
    /\ seenTip' = [seenTip EXCEPT ![c] = tip]
    /\ UNCHANGED <<found, chainOk, outcome, appendCount, failClosed, acked,
                   observed, raced>>

\* A call of append up to its first await, with what the store answers.
BeginAppend(c, r, existing, tip) ==
    \/ RefuseAppend(c, r)
    \/ LookUpKey(c, r, existing)
    \/ ReadTipUnkeyed(c, r, tip)

\* The key was already accepted: the existing record is returned.
ReturnExisting(c) ==
    /\ pc[c] = "lookup" /\ found[c] # NoRecord
    /\ acked' = acked \cup {found[c]}
    /\ Finish(c, "ok")
    /\ UNCHANGED <<calls, appendCount, failClosed, observed, raced>>

\* The key is new: read the tip.
ReadTip(c, tip) ==
    /\ pc[c] = "lookup" /\ found[c] = NoRecord
    /\ Suspend(c, "tip")
    /\ seenTip' = [seenTip EXCEPT ![c] = tip]
    /\ UNCHANGED <<req, found, chainOk, calls, outcome, appendCount,
                   failClosed, acked, observed, raced>>

\* The checks between the tip read and the write.
Unwritable(c) ==
    \/ (req[c].type = "genesis") # (seenTip[c] = NoTip)
    \/ req[c].fault = "unsigned"

RefuseWrite(c) ==
    /\ pc[c] = "tip" /\ Unwritable(c)
    /\ Finish(c, IF req[c].type = "fact" /\ seenTip[c] = NoTip THEN "NO_GENESIS"
                 ELSE IF req[c].type = "genesis" /\ seenTip[c] # NoTip
                      THEN "ALREADY_GENESIS" ELSE "BAD_SIGNATURE")
    /\ UNCHANGED <<calls, appendCount, failClosed, acked, observed, raced>>

\* Faulty variant of VerifyDue: the counter never reaches the period.
VerifyNeverDue == FALSE

\* this.appendCount % this.options.verifyEveryN === 0
VerifyDue == appendCount = VerifyEveryN - 1

\* After the write: count it and, every VerifyEveryN appends, verify the chain
\* (stored is what listAll returns); otherwise hand the record to the observer.
CountAndVerify(c, stored) ==
    /\ pc[c] = "stored" /\ VerifyDue
    /\ appendCount' = 0
    /\ chainOk' = [chainOk EXCEPT ![c] = ChainOk(stored)]
    /\ Suspend(c, "verify")
    /\ UNCHANGED <<req, found, seenTip, calls, outcome, failClosed, acked,
                   observed, raced>>

CountAndObserve(c) ==
    /\ pc[c] = "stored" /\ ~VerifyDue
    /\ appendCount' = appendCount + 1
    /\ observed' = observed \cup {NewRecord(c)}
    /\ Suspend(c, "observe")
    /\ UNCHANGED <<req, found, seenTip, chainOk, calls, outcome, failClosed,
                   acked, raced>>

\* Faulty variant of Observe: a verified append forgets its observers.
ObserveForgotten(c) ==
    /\ pc[c] = "verify" /\ chainOk[c]
    /\ Suspend(c, "observe")
    /\ UNCHANGED <<req, found, seenTip, chainOk, calls, outcome, appendCount,
                   failClosed, acked, observed, raced>>

\* The chain verifies: hand the record to the observers.
Observe(c) ==
    /\ pc[c] = "verify" /\ chainOk[c]
    /\ observed' = observed \cup {NewRecord(c)}
    /\ Suspend(c, "observe")
    /\ UNCHANGED <<req, found, seenTip, chainOk, calls, outcome, appendCount,
                   failClosed, acked, raced>>

\* The chain does not verify: read-only, kill switch, and the call throws.
FailClosed(c) ==
    /\ pc[c] = "verify" /\ ~chainOk[c]
    /\ failClosed' = TRUE
    /\ Finish(c, "HASH_MISMATCH")
    /\ UNCHANGED <<calls, appendCount, acked, observed, raced>>

\* The observer has returned, or thrown: its errors are swallowed.
Acknowledge(c) ==
    /\ pc[c] = "observe"
    /\ acked' = acked \cup {NewRecord(c)}
    /\ Finish(c, "ok")
    /\ UNCHANGED <<calls, appendCount, failClosed, observed, raced>>

\* The steps of a suspended append that only read the store: its tip, and in
\* stored what listAll returns.
ServiceStep(c, tip, stored) ==
    \/ ReturnExisting(c) \/ ReadTip(c, tip) \/ RefuseWrite(c)
    \/ CountAndVerify(c, stored) \/ CountAndObserve(c)
    \/ Observe(c) \/ FailClosed(c) \/ Acknowledge(c)

\* ensureGenesis reads the tip first ...
EnsureGenesis(c, tip) ==
    /\ Suspend(c, "ensure")
    /\ seenTip' = [seenTip EXCEPT ![c] = tip]
    /\ UNCHANGED <<req, found, chainOk, outcome, appendCount, failClosed,
                   acked, observed, raced>>

\* ... returns the record at height 0 if there is a tip ...
ReturnGenesis(c, first) ==
    /\ pc[c] = "ensure" /\ seenTip[c] # NoTip
    /\ IF first # NoRecord /\ first.type = "genesis"
       THEN acked' = acked \cup {first} /\ Finish(c, "ok")
       ELSE UNCHANGED acked /\ Finish(c, "ALREADY_GENESIS")
    /\ UNCHANGED <<calls, appendCount, failClosed, observed, raced>>

\* ... or goes on as append of the genesis request.
AppendGenesis(c, existing, tip) ==
    /\ pc[c] = "ensure" /\ seenTip[c] = NoTip
    /\ BeginAppend(c, GenesisRequest, existing, tip)
    /\ UNCHANGED calls
=============================================================================
