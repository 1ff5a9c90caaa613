------------------------- MODULE RocksJournalProofs -------------------------
(***************************************************************************)
(* Proofs about RocksJournal: the four puts of appendDurable, crashes and  *)
(* failing puts between them, and overlapping writers.                     *)
(*                                                                         *)
(* RocksInv is inductive.  A step of call c other than a put leaves the    *)
(* database and the locals of the other calls alone (Quiet(c)); the puts   *)
(* and the crash are done one by one.                                      *)
(*                                                                         *)
(* Three parts on what is kept beside the journal follow: the secrets, the *)
(* event log and index mirror that observe it, and the journal in files    *)
(* with the second node that copies it.                                    *)
(***************************************************************************)
EXTENDS RocksJournal, MCCopies, FiniteSetTheorems, WellFoundedInduction, TLAPS

OthersUnchanged(c) ==
    \A d \in Caller \ {c} :
        /\ pc'[d] = pc[d] /\ req'[d] = req[d] /\ found'[d] = found[d]
        /\ seenTip'[d] = seenTip[d] /\ calls'[d] = calls[d]

\* With one writer at a time, c is the one.
Only(c) == serial => \A d \in Caller \ {c} : ~InFlight(d)

Quiet(c) ==
    /\ UNCHANGED <<serial, dbVars>>
    /\ OthersUnchanged(c) /\ Only(c)
    /\ TypeOK'
    /\ CallInv(c)' /\ (serial => LoneInv(c)')

\* At most one record more is acknowledged, and of a lone writer it is stored.
AcksOne ==
    \/ acked' = acked
    \/ serial => \E h \in Height : recordAt[h] # NoRecord /\ acked' = acked \cup {recordAt[h]}
-----------------------------------------------------------------------------
\* The typing of the locals and the database, as the lemmas below use it.
LEMMA Typing ==
    ASSUME TypeOK
    PROVE  /\ pc \in [Caller -> Await] /\ req \in [Caller -> Request]
           /\ found \in [Caller -> Record \cup {NoRecord}]
           /\ seenTip \in [Caller -> Tip] /\ chainOk \in [Caller -> BOOLEAN]
           /\ calls \in [Caller -> 0..MaxCalls]
           /\ tip \in Tip /\ recordAt \in [Height -> Record \cup {NoRecord}]
           /\ heightOf \in [Key -> Height \cup {-1}]
           /\ acked \subseteq Record /\ observed \subseteq Record
           /\ \A c \in Caller : req[c].key \in Key \cup {NoKey} /\ req[c].type \in RecordType
BY ServiceAssumption
DEF TypeOK, ServiceTypeOK, Request, FactRequest, GenesisRequest, RecordType

\* What a call builds from a tip it has read is a record.
LEMMA NewRecordType ==
    ASSUME TypeOK, NEW c \in Caller, calls[c] \in 1..MaxCalls,
           seenTip[c].height < MaxHeight
    PROVE  /\ NewRecord(c) \in Record /\ NewRecord(c) # NoRecord
           /\ NewRecord(c).height = seenTip[c].height + 1
           /\ NewRecord(c).prev = seenTip[c].hash
           /\ NewRecord(c).id = <<c, calls[c]>> /\ <<c, calls[c]>> \in Hash
           /\ NewRecord(c).key = req[c].key
           /\ seenTip[c].height + 1 \in Height
<1>1. /\ seenTip[c].height \in Height \cup {-1}
      /\ seenTip[c].hash \in Hash
  BY Typing DEF Tip
<1>2. req[c].type \in RecordType /\ req[c].key \in Key \cup {NoKey}
  BY Typing
<1>3. <<c, calls[c]>> \in RecordId
  BY DEF RecordId
<1>4. seenTip[c].height + 1 \in Height
  BY <1>1, ServiceAssumption DEF Height
<1>5. NewRecord(c) \in Record
  BY <1>1, <1>2, <1>3, <1>4 DEF NewRecord, Record
<1> QED
  BY <1>3, <1>4, <1>5, NoRecordAssumption DEF NewRecord, Hash

\* A lookup leads to a record or to none, and with one writer at a time to the
\* record that carries the key, if any height listed does.
LEMMA LookupType ==
    ASSUME RocksInv, NEW k \in Key \cup {NoKey}
    PROVE  /\ Lookup(k) \in Record \cup {NoRecord}
           /\ serial /\ Lookup(k) # NoRecord => recordAt[Lookup(k).height] = Lookup(k)
           /\ serial /\ k # NoKey /\ Lookup(k) = NoRecord => heightOf[k] = -1
<1>1. TypeOK /\ heightOf \in [Key -> Height \cup {-1}] /\ recordAt \in [Height -> Record \cup {NoRecord}]
  BY Typing DEF RocksInv
<1> QED
  BY <1>1 DEF Lookup, RocksInv, StoreInv

\* A step that leaves the database alone preserves the invariant.
LEMMA QuietStep ==
    ASSUME RocksInv, NEW c \in Caller, Quiet(c)
    PROVE  RocksInv'
<1>1. TypeOK' /\ UNCHANGED <<serial, recordAt, heightOf, tip>>
  BY DEF Quiet, dbVars
<1>2. NoGapBelowTip'
  BY <1>1 DEF RocksInv, NoGapBelowTip
<1>3. ASSUME NEW d \in Caller
      PROVE  CallInv(d)' /\ (serial => LoneInv(d)')
  <2>1. CASE d = c
    BY <2>1 DEF Quiet
  <2>2. CASE d # c
    <3>1. CallInv(d) /\ (serial => LoneInv(d))
      BY DEF RocksInv
    <3>2. /\ pc'[d] = pc[d] /\ req'[d] = req[d] /\ found'[d] = found[d]
          /\ seenTip'[d] = seenTip[d] /\ calls'[d] = calls[d]
      BY <2>2 DEF Quiet, OthersUnchanged
    <3>3. NewRecord(d)' = NewRecord(d)
      BY <3>2 DEF NewRecord
    <3> QED
      BY <1>1, <3>1, <3>2, <3>3 DEF CallInv, LoneInv, Unused
  <2> QED
    BY <2>1, <2>2
<1>4. serial => StoreInv' /\ StoredKeyOnce'
  BY <1>1 DEF RocksInv, StoreInv, StoredKeyOnce
<1>5. serial => Alone'
  BY DEF Quiet, Only, OthersUnchanged, Alone, InFlight
<1> QED
  BY <1>1, <1>2, <1>3, <1>4, <1>5 DEF RocksInv
-----------------------------------------------------------------------------
\* Ending a call is a quiet step.
LEMMA FinishIsQuiet ==
    ASSUME RocksInv, NEW c \in Caller, NEW result \in Outcome, Finish(c, result), Only(c),
           UNCHANGED <<serial, dbVars, appendCount, observed, raced>>,
           failClosed' \in BOOLEAN, acked' \subseteq Record,
           crashes' \in 0..MaxCrashes, failures' \in 0..MaxFailures,
           calls' = calls \/ StartCall(c)
    PROVE  Quiet(c)
<1>1. TypeOK
  BY DEF RocksInv
<1>2. UNCHANGED <<recordAt, heightOf, tip>>
  BY DEF dbVars
<1>3. calls' \in [Caller -> 0..MaxCalls] /\ \A d \in Caller \ {c} : calls'[d] = calls[d]
  BY <1>1, Typing, ServiceAssumption DEF StartCall
<1>4. GenesisRequest \in Request /\ NoTip \in Tip /\ NoTip.height = -1 /\ "idle" \in Await
  BY DEF Request, NoTip, Tip, Hash, Await
<1>5. /\ pc' \in [Caller -> Await] /\ req' \in [Caller -> Request]
      /\ found' \in [Caller -> Record \cup {NoRecord}] /\ seenTip' \in [Caller -> Tip]
      /\ chainOk' \in [Caller -> BOOLEAN] /\ outcome' \in [Caller -> Outcome]
  BY <1>1, <1>4, Typing DEF Finish, TypeOK, ServiceTypeOK
<1>6. TypeOK'
  BY <1>1, <1>2, <1>3, <1>5 DEF TypeOK, ServiceTypeOK
<1>7. /\ pc'[c] = "idle" /\ found'[c] = NoRecord /\ seenTip'[c] = NoTip
      /\ OthersUnchanged(c)
  BY <1>1, <1>3, Typing DEF Finish, OthersUnchanged
<1>8. CallInv(c)' /\ LoneInv(c)'
  BY <1>4, <1>7 DEF CallInv, LoneInv, Unused, Writing
<1> QED
  BY <1>6, <1>7, <1>8 DEF Quiet

\* append up to its first await, from append itself or from ensureGenesis.
LEMMA BeginAppendIsQuiet ==
    ASSUME RocksInv, NEW c \in Caller, NEW r \in Request,
           BeginAppend(c, r, Lookup(r.key), tip), Only(c),
           calls' = calls \/ StartCall(c), calls'[c] \in 1..MaxCalls,
           UNCHANGED <<serial, dbVars, faultVars>>
    PROVE  Quiet(c)
<1>1. /\ TypeOK /\ CallInv(c) /\ (serial => LoneInv(c))
      /\ UNCHANGED <<recordAt, heightOf, tip, crashes, failures>>
  BY DEF RocksInv, dbVars, faultVars
<1>2. r.key \in Key \cup {NoKey}
  BY ServiceAssumption DEF Request, FactRequest, GenesisRequest
<1>3. calls' \in [Caller -> 0..MaxCalls] /\ \A d \in Caller \ {c} : calls'[d] = calls[d]
  BY <1>1, Typing, ServiceAssumption DEF StartCall
<1>4. "lookup" \in Await /\ "tip" \in Await
  BY DEF Await
<1>5. CASE RefuseAppend(c, r)
  <2>1. PICK result \in Outcome : Finish(c, result)
    BY <1>5 DEF RefuseAppend, Outcome
  <2> QED
    BY <1>1, <1>5, <2>1, FinishIsQuiet DEF RefuseAppend, TypeOK, ServiceTypeOK
<1>6. CASE LookUpKey(c, r, Lookup(r.key))
  <2>1. PICK x \in Record \cup {NoRecord} : x = Lookup(r.key)
    BY <1>2, LookupType
  <2>2. /\ pc' = [pc EXCEPT ![c] = "lookup"] /\ req' = [req EXCEPT ![c] = r]
        /\ found' = [found EXCEPT ![c] = x] /\ r.key # NoKey
        /\ UNCHANGED <<seenTip, chainOk, outcome, appendCount, failClosed, acked, observed>>
    BY <1>6, <2>1 DEF LookUpKey, Suspend
  <2>3. raced' \subseteq Key
    BY <1>1, <1>2, <1>6, <2>2 DEF LookUpKey, TypeOK, ServiceTypeOK
  <2>4. TypeOK'
    BY <1>1, <1>3, <1>4, <2>2, <2>3 DEF TypeOK, ServiceTypeOK
  <2>5. pc'[c] = "lookup" /\ req'[c] = r /\ found'[c] = x /\ OthersUnchanged(c)
    BY <1>1, <1>3, <2>2, Typing DEF OthersUnchanged
  <2>6. CallInv(c)'
    BY <1>1, <2>2, <2>5 DEF CallInv, Writing
  <2>7. serial => LoneInv(c)'
    BY <1>1, <1>2, <2>1, <2>2, <2>5, LookupType DEF LoneInv, Unused, Writing
  <2> QED
    BY <2>4, <2>5, <2>6, <2>7 DEF Quiet
<1>7. CASE ReadTipUnkeyed(c, r, tip)
  <2>1. /\ pc' = [pc EXCEPT ![c] = "tip"] /\ req' = [req EXCEPT ![c] = r]
        /\ seenTip' = [seenTip EXCEPT ![c] = tip] /\ r.key = NoKey
        /\ UNCHANGED <<found, chainOk, outcome, appendCount, failClosed, acked, observed, raced>>
    BY <1>7 DEF ReadTipUnkeyed, Suspend
  <2>2. TypeOK'
    BY <1>1, <1>3, <1>4, <2>1 DEF TypeOK, ServiceTypeOK
  <2>3. pc'[c] = "tip" /\ req'[c] = r /\ seenTip'[c] = tip /\ OthersUnchanged(c)
    BY <1>1, <1>3, <2>1, Typing DEF OthersUnchanged
  <2>4. CallInv(c)'
    BY <1>1, <2>1, <2>3 DEF CallInv, Writing, RocksInv, NoGapBelowTip
  <2>5. serial => LoneInv(c)'
    BY <1>1, <2>1, <2>3 DEF LoneInv, Unused, Writing
  <2> QED
    BY <2>2, <2>3, <2>4, <2>5 DEF Quiet
<1> QED
  BY <1>5, <1>6, <1>7 DEF BeginAppend

\* A call in progress, or one that may start, is the only one of a lone writer.
LEMMA OnlyOne ==
    ASSUME RocksInv, NEW c \in Caller, InFlight(c) \/ MayStart(c)
    PROVE  Only(c)
BY DEF RocksInv, Alone, MayStart, Only

LEMMA EnsureGenesisIsQuiet ==
    ASSUME RocksInv, NEW c \in Caller, CallEnsureGenesis(c), UNCHANGED serial
    PROVE  Quiet(c)
<1>1. /\ TypeOK /\ CallInv(c) /\ (serial => LoneInv(c)) /\ Only(c)
      /\ UNCHANGED <<recordAt, heightOf, tip, crashes, failures>>
  BY OnlyOne DEF RocksInv, dbVars, faultVars, CallEnsureGenesis
<1>2. /\ pc' = [pc EXCEPT ![c] = "ensure"] /\ seenTip' = [seenTip EXCEPT ![c] = tip]
      /\ calls' = [calls EXCEPT ![c] = @ + 1] /\ calls[c] < MaxCalls
      /\ UNCHANGED <<req, found, chainOk, outcome, appendCount, failClosed, acked, observed, raced>>
  BY DEF CallEnsureGenesis, MayStart, StartCall, EnsureGenesis, Suspend
<1>3. calls' \in [Caller -> 0..MaxCalls] /\ calls'[c] \in 1..MaxCalls
  BY <1>1, <1>2, Typing, ServiceAssumption
<1>4. TypeOK'
  <2>1. pc' \in [Caller -> Await] /\ seenTip' \in [Caller -> Tip]
    BY <1>1, <1>2, Typing DEF Await
  <2> QED
    BY <1>1, <1>2, <1>3, <2>1 DEF TypeOK, ServiceTypeOK
<1>5. pc'[c] = "ensure" /\ seenTip'[c] = tip /\ OthersUnchanged(c)
  BY <1>1, <1>2, Typing DEF OthersUnchanged
<1>6. CallInv(c)'
  BY <1>1, <1>2, <1>3, <1>5 DEF CallInv, Writing, RocksInv, NoGapBelowTip
<1>7. serial => LoneInv(c)'
  BY <1>1, <1>2, <1>5 DEF LoneInv, Unused, Writing
<1> QED
  BY <1>1, <1>4, <1>5, <1>6, <1>7 DEF Quiet, dbVars

\* The steps between the reads and after the puts.
LEMMA ServiceStepIsQuiet ==
    ASSUME RocksInv, NEW c \in Caller, ServiceStep(c, tip, Listed),
           UNCHANGED <<serial, dbVars, faultVars>>
    PROVE  Quiet(c)
<1>1. /\ TypeOK /\ CallInv(c) /\ (serial => LoneInv(c))
      /\ UNCHANGED <<recordAt, heightOf, tip, crashes, failures>>
  BY DEF RocksInv, dbVars, faultVars
<1>2. InFlight(c)
  BY DEF InFlight, ServiceStep, ReturnExisting, ReadTip, RefuseWrite, CountAndVerify,
         CountAndObserve, Observe, FailClosed, Acknowledge
<1>3. Only(c)
  BY <1>2, OnlyOne
<1>4. crashes' \in 0..MaxCrashes /\ failures' \in 0..MaxFailures /\ failClosed \in BOOLEAN
  BY <1>1 DEF TypeOK, ServiceTypeOK
<1>5. CASE ReturnExisting(c)
  <2>1. acked' \subseteq Record /\ failClosed' \in BOOLEAN
    BY <1>1, <1>4, <1>5, Typing DEF ReturnExisting
  <2>2. Finish(c, "ok") /\ "ok" \in Outcome
    BY <1>5 DEF ReturnExisting, Outcome
  <2> QED
    BY <1>3, <1>4, <1>5, <2>1, <2>2, FinishIsQuiet DEF ReturnExisting
<1>6. CASE ReadTip(c, tip)
  <2>1. /\ pc[c] = "lookup" /\ found[c] = NoRecord
        /\ pc' = [pc EXCEPT ![c] = "tip"] /\ seenTip' = [seenTip EXCEPT ![c] = tip]
        /\ UNCHANGED <<req, found, chainOk, calls, outcome, appendCount, failClosed, acked,
                       observed, raced>>
    BY <1>6 DEF ReadTip, Suspend
  <2>2. TypeOK'
    <3>1. pc' \in [Caller -> Await] /\ seenTip' \in [Caller -> Tip]
      BY <1>1, <2>1, Typing DEF Await
    <3> QED
      BY <1>1, <2>1, <3>1 DEF TypeOK, ServiceTypeOK
  <2>3. pc'[c] = "tip" /\ seenTip'[c] = tip /\ OthersUnchanged(c)
    BY <1>1, <2>1, Typing DEF OthersUnchanged
  <2>4. CallInv(c)'
    BY <1>1, <2>1, <2>3 DEF CallInv, Writing, RocksInv, NoGapBelowTip
  <2>5. serial => LoneInv(c)'
    BY <1>1, <2>1, <2>3 DEF LoneInv, Unused, Writing
  <2> QED
    BY <1>3, <2>2, <2>3, <2>4, <2>5 DEF Quiet
<1>7. CASE RefuseWrite(c)
  <2>1. PICK result \in Outcome : Finish(c, result)
    BY <1>7 DEF RefuseWrite, Outcome
  <2>2. acked' \subseteq Record /\ failClosed' \in BOOLEAN
    BY <1>1, <1>4, <1>7, Typing DEF RefuseWrite
  <2> QED
    BY <1>3, <1>4, <1>7, <2>1, <2>2, FinishIsQuiet DEF RefuseWrite
<1>8. ASSUME NEW to \in {"verify", "observe"}, pc[c] \in {"stored", "verify"}, Suspend(c, to),
             appendCount' \in 0..(VerifyEveryN - 1), chainOk' \in [Caller -> BOOLEAN],
             observed' \subseteq Record,
             UNCHANGED <<req, found, seenTip, calls, outcome, failClosed, acked, raced>>
      PROVE  Quiet(c)
  <2>1. TypeOK'
    <3>1. pc' \in [Caller -> Await]
      BY <1>1, <1>8, Typing DEF Await, Suspend
    <3> QED
      BY <1>1, <1>8, <3>1 DEF TypeOK, ServiceTypeOK
  <2>2. pc'[c] = to /\ OthersUnchanged(c)
    BY <1>1, <1>8, Typing DEF OthersUnchanged, Suspend
  <2>3. NewRecord(c)' = NewRecord(c)
    BY <1>8 DEF NewRecord
  <2>4. CallInv(c)'
    BY <1>1, <1>8, <2>2 DEF CallInv, Writing
  <2>5. serial => LoneInv(c)'
    BY <1>1, <1>8, <2>2, <2>3 DEF LoneInv, Unused, Writing
  <2> QED
    BY <1>3, <2>1, <2>2, <2>4, <2>5 DEF Quiet
<1>9. CASE CountAndVerify(c, Listed)
  <2>1. appendCount' \in 0..(VerifyEveryN - 1)
    BY <1>9, ServiceAssumption DEF CountAndVerify
  <2>2. chainOk' \in [Caller -> BOOLEAN]
    <3>1. chainOk' = [chainOk EXCEPT ![c] = ChainOk(Listed)] /\ ChainOk(Listed) \in BOOLEAN
      BY <1>9, Zenon DEF CountAndVerify, ChainOk
    <3> QED
      BY <1>1, <3>1, Typing
  <2> QED
    BY <1>1, <1>8, <1>9, <2>1, <2>2, Typing DEF CountAndVerify
<1>10. CASE CountAndObserve(c) \/ Observe(c)
  <2>1. NewRecord(c) \in Record
    BY <1>1, <1>10, NewRecordType DEF CallInv, CountAndObserve, Observe
  <2>2. appendCount' \in 0..(VerifyEveryN - 1)
    BY <1>1, <1>10, ServiceAssumption
    DEF CountAndObserve, Observe, VerifyDue, TypeOK, ServiceTypeOK
  <2> QED
    BY <1>1, <1>8, <1>10, <2>1, <2>2, Typing DEF CountAndObserve, Observe
<1>11. CASE FailClosed(c)
  <2>1. Finish(c, "HASH_MISMATCH") /\ "HASH_MISMATCH" \in Outcome
    BY <1>11 DEF FailClosed, Outcome
  <2>2. acked' \subseteq Record /\ failClosed' \in BOOLEAN
    BY <1>1, <1>11, Typing DEF FailClosed
  <2> QED
    BY <1>3, <1>4, <1>11, <2>1, <2>2, FinishIsQuiet DEF FailClosed
<1>12. CASE Acknowledge(c)
  <2>1. NewRecord(c) \in Record
    BY <1>1, <1>12, NewRecordType DEF CallInv, Acknowledge
  <2>2. Finish(c, "ok") /\ "ok" \in Outcome
    BY <1>12 DEF Acknowledge, Outcome
  <2>3. acked' \subseteq Record /\ failClosed' \in BOOLEAN
    BY <1>1, <1>4, <1>12, <2>1, Typing DEF Acknowledge
  <2> QED
    BY <1>3, <1>4, <1>12, <2>2, <2>3, FinishIsQuiet DEF Acknowledge
<1> QED
  BY <1>5, <1>6, <1>7, <1>9, <1>10, <1>11, <1>12 DEF ServiceStep

LEMMA ResumeIsQuiet ==
    ASSUME RocksInv, NEW c \in Caller, Resume(c), UNCHANGED serial
    PROVE  Quiet(c)
<1>1. /\ TypeOK /\ CallInv(c) /\ UNCHANGED <<dbVars, faultVars>>
      /\ crashes' \in 0..MaxCrashes /\ failures' \in 0..MaxFailures /\ failClosed \in BOOLEAN
  BY DEF RocksInv, Resume, faultVars, TypeOK, ServiceTypeOK
<1>2. CASE ReturnGenesis(c, recordAt[0])
  <2>1. Only(c)
    BY <1>2, OnlyOne DEF ReturnGenesis, InFlight
  <2>2. recordAt[0] \in Record \cup {NoRecord}
    BY <1>1, Typing, ServiceAssumption DEF Height
  <2>3. acked' \subseteq Record
    BY <1>1, <1>2, <2>2, Typing DEF ReturnGenesis
  <2>4. PICK result \in Outcome : Finish(c, result)
    BY <1>2 DEF ReturnGenesis, Outcome
  <2> QED
    BY <1>1, <1>2, <2>1, <2>3, <2>4, FinishIsQuiet DEF ReturnGenesis
<1>3. CASE AppendGenesis(c, Lookup(GenesisKey), tip)
  <2>1. BeginAppend(c, GenesisRequest, Lookup(GenesisRequest.key), tip)
    BY <1>3 DEF AppendGenesis, GenesisRequest
  <2>2. GenesisRequest \in Request
    BY DEF Request
  <2>3. Only(c)
    BY <1>3, OnlyOne DEF AppendGenesis, InFlight
  <2>4. calls' = calls /\ calls'[c] \in 1..MaxCalls
    BY <1>1, <1>3 DEF AppendGenesis, CallInv
  <2> QED
    BY <1>1, <2>1, <2>2, <2>3, <2>4, BeginAppendIsQuiet
<1>4. CASE ServiceStep(c, tip, Listed)
  BY <1>1, <1>4, ServiceStepIsQuiet
<1> QED
  BY <1>2, <1>3, <1>4 DEF Resume

LEMMA CallAppendIsQuiet ==
    ASSUME RocksInv, NEW c \in Caller, NEW r \in FactRequest, CallAppend(c, r), UNCHANGED serial
    PROVE  Quiet(c)
<1>1. /\ BeginAppend(c, r, Lookup(r.key), tip) /\ r \in Request
      /\ StartCall(c) /\ MayStart(c) /\ UNCHANGED <<dbVars, faultVars>>
  BY DEF CallAppend, Request, MayStart
<1>2. Only(c)
  BY <1>1, OnlyOne
<1>3. calls'[c] \in 1..MaxCalls
  BY <1>1, Typing, ServiceAssumption DEF StartCall, RocksInv
<1> QED
  BY <1>1, <1>2, <1>3, BeginAppendIsQuiet

LEMMA HeightStepsAreQuiet ==
    ASSUME RocksInv, NEW c \in Caller, CheckHeight(c) \/ HeightTaken(c) \/ PutFails(c),
           UNCHANGED serial
    PROVE  Quiet(c)
<1>1. /\ TypeOK /\ CallInv(c) /\ (serial => LoneInv(c))
      /\ UNCHANGED <<recordAt, heightOf, tip>> /\ UNCHANGED dbVars
  BY DEF RocksInv, CheckHeight, HeightTaken, PutFails, dbVars
<1>2. Only(c)
  BY OnlyOne DEF CheckHeight, HeightTaken, PutFails, InFlight, Writing
<1>3. CASE CheckHeight(c)
  <2>1. /\ pc[c] = "tip" /\ pc' = [pc EXCEPT ![c] = "putRecord"]
        /\ seenTip[c].height < MaxHeight /\ HeightFree(c)
        /\ UNCHANGED <<req, found, seenTip, chainOk, calls, outcome, appendCount, failClosed,
                       acked, observed, raced, crashes, failures>>
    BY <1>3 DEF CheckHeight, Suspend, faultVars
  <2>2. TypeOK'
    <3>1. pc' \in [Caller -> Await]
      BY <1>1, <2>1, Typing DEF Await, Writing
    <3> QED
      BY <1>1, <2>1, <3>1 DEF TypeOK, ServiceTypeOK
  <2>3. pc'[c] = "putRecord" /\ OthersUnchanged(c)
    BY <1>1, <2>1, Typing DEF OthersUnchanged
  <2>4. CallInv(c)'
    BY <1>1, <2>1, <2>3 DEF CallInv, Writing
  <2>5. serial => LoneInv(c)'
    BY <1>1, <2>1, <2>3 DEF LoneInv, Unused, Writing, HeightFree
  <2> QED
    BY <1>1, <1>2, <2>2, <2>3, <2>4, <2>5 DEF Quiet
<1>4. CASE HeightTaken(c) \/ PutFails(c)
  <2>1. Finish(c, "STORAGE") /\ "STORAGE" \in Outcome
    BY <1>4 DEF HeightTaken, PutFails, Outcome
  <2>2. crashes' \in 0..MaxCrashes /\ failures' \in 0..MaxFailures
    <3>1. /\ crashes \in 0..MaxCrashes /\ failures \in 0..MaxFailures
          /\ MaxCrashes \in Nat /\ MaxFailures \in Nat
      BY <1>1, RocksAssumption DEF TypeOK
    <3>2. CASE HeightTaken(c)
      BY <3>1, <3>2 DEF HeightTaken, faultVars
    <3>3. CASE PutFails(c)
      BY <3>1, <3>3 DEF PutFails
    <3> QED
      BY <1>4, <3>2, <3>3
  <2>3. /\ acked' \subseteq Record /\ failClosed' \in BOOLEAN
        /\ UNCHANGED <<appendCount, observed, raced, calls>>
    BY <1>1, <1>4, Typing DEF HeightTaken, PutFails, TypeOK, ServiceTypeOK
  <2> QED
    BY <1>1, <1>2, <2>1, <2>2, <2>3, FinishIsQuiet
<1> QED
  BY <1>3, <1>4
-----------------------------------------------------------------------------
\* put h/<height>.  It may overwrite a record, but of a lone writer never does.
LEMMA PutRecordStep ==
    ASSUME RocksInv, NEW c \in Caller, PutRecord(c), UNCHANGED serial
    PROVE  RocksInv'
<1>1. /\ TypeOK /\ NoGapBelowTip /\ Only(c)
      /\ pc[c] = "putRecord" /\ pc' = [pc EXCEPT ![c] = "putIndex"]
      /\ UNCHANGED <<serial, req, found, seenTip, chainOk, calls, outcome, appendCount,
                     failClosed, acked, observed, raced, heightOf, tip, crashes, failures>>
  BY OnlyOne DEF RocksInv, PutRecord, Suspend, InFlight, faultVars
<1>2. calls[c] \in 1..MaxCalls /\ seenTip[c].height < MaxHeight
  BY <1>1 DEF RocksInv, CallInv, Writing
<1>3. PICK r \in Record, n \in Height : r = NewRecord(c) /\ n = seenTip[c].height + 1
  BY <1>1, <1>2, NewRecordType
<1>4. r # NoRecord /\ r.height = n /\ r.prev = seenTip[c].hash /\ r.key = req[c].key
  BY <1>1, <1>2, <1>3, NewRecordType
<1>5. recordAt' = [recordAt EXCEPT ![n] = r]
  BY <1>3, <1>4 DEF PutRecord
<1>6. /\ recordAt' \in [Height -> Record \cup {NoRecord}] /\ recordAt'[n] = r
      /\ \A h \in Height \ {n} : recordAt'[h] = recordAt[h]
      /\ \A h \in Height : recordAt[h] # NoRecord => recordAt'[h] # NoRecord
  BY <1>1, <1>4, <1>5, Typing
<1>7. /\ pc' \in [Caller -> Await] /\ pc'[c] = "putIndex"
      /\ \A d \in Caller \ {c} : pc'[d] = pc[d]
  BY <1>1, Typing DEF Await, Writing
<1>8. TypeOK'
  BY <1>1, <1>6, <1>7 DEF TypeOK, ServiceTypeOK
<1>9. /\ tip.height \in Height \cup {-1} /\ MaxHeight \in Nat
      /\ \A d \in Caller : seenTip[d].height \in Height \cup {-1}
  BY <1>1, Typing, ServiceAssumption DEF Tip
<1>10. NoGapBelowTip'
  BY <1>1, <1>6, <1>9 DEF NoGapBelowTip, Height
<1>11. ASSUME NEW d \in Caller
       PROVE  CallInv(d)'
  <2>1. CallInv(d)
    BY DEF RocksInv
  <2>2. \A h \in 0..seenTip[d].height : h \in Height
    BY <1>9 DEF Height
  <2>3. seenTip[d].height < MaxHeight => seenTip[d].height + 1 \in Height
    BY <1>9 DEF Height
  <2>4. CASE d = c
    BY <1>1, <1>2, <1>3, <1>4, <1>6, <1>7, <2>1, <2>2, <2>4 DEF CallInv, Writing
  <2>5. CASE d # c
    BY <1>1, <1>6, <1>7, <2>1, <2>2, <2>3, <2>5 DEF CallInv, Writing
  <2> QED
    BY <2>4, <2>5
<1>12. ASSUME serial
       PROVE  Alone' /\ StoreInv' /\ StoredKeyOnce' /\ \A d \in Caller : LoneInv(d)'
  <2>1. /\ StoreInv /\ StoredKeyOnce /\ \A d \in Caller : LoneInv(d)
        /\ \A d \in Caller \ {c} : pc[d] = "idle"
    BY <1>1, <1>12 DEF RocksInv, Only, InFlight
  <2>2. /\ seenTip[c] = tip /\ n = tip.height + 1 /\ recordAt[n] = NoRecord
        /\ (r.key # NoKey => heightOf[r.key] = -1)
    BY <1>1, <1>3, <1>4, <2>1 DEF LoneInv, Unused, Writing
  <2>3. r.key \in Key \cup {NoKey} /\ r.prev = tip.hash
    BY <1>4, <2>2 DEF Record
  <2>4. Alone'
    BY <1>7, <2>1 DEF Alone, InFlight
  <2>5. StoreInv'
    <3>1. ASSUME NEW h \in Height, recordAt'[h] # NoRecord
          PROVE  /\ h <= tip.height + 1 /\ recordAt'[h].height = h
                 /\ recordAt'[h].prev = IF h = 0 THEN GenesisPrev ELSE recordAt'[h - 1].id
                 /\ recordAt'[h].key # NoKey /\ h <= tip.height => heightOf[recordAt'[h].key] = h
      <4>1. CASE h = n
        <5>1. r.prev = IF n = 0 THEN GenesisPrev ELSE recordAt'[n - 1].id
          <6>1. CASE n = 0
            BY <1>9, <2>1, <2>2, <2>3, <6>1 DEF StoreInv, NoTip, Height
          <6>2. CASE n # 0
            <7>1. n - 1 = tip.height /\ n - 1 \in Height \ {n} /\ tip.height # -1
              BY <1>9, <2>2, <6>2 DEF Height
            <7> QED
              BY <1>6, <2>1, <2>3, <6>2, <7>1 DEF StoreInv
          <6> QED
            BY <6>1, <6>2
        <5> QED
          BY <1>4, <1>6, <1>9, <2>2, <4>1, <5>1 DEF Height
      <4>2. CASE h # n
        <5>1. recordAt[h] # NoRecord /\ recordAt'[h] = recordAt[h]
          BY <1>6, <3>1, <4>2
        <5>2. h # 0 => h - 1 \in Height \ {n}
          BY <1>9, <2>1, <2>2, <5>1 DEF StoreInv, Height
        <5> QED
          BY <1>6, <2>1, <5>1, <5>2 DEF StoreInv
      <4> QED
        BY <4>1, <4>2
    <3>2. IF tip.height = -1 THEN tip = NoTip ELSE tip.hash = recordAt'[tip.height].id
      <4>1. tip.height # -1 => tip.height \in Height \ {n}
        BY <1>9, <2>2 DEF Height
      <4> QED
        BY <1>6, <2>1, <4>1 DEF StoreInv
    <3>3. \A k \in Key : heightOf[k] # -1 =>
             recordAt'[heightOf[k]] # NoRecord /\ recordAt'[heightOf[k]].key = k
      <4>1. \A k \in Key : heightOf[k] # -1 => heightOf[k] \in Height \ {n}
        BY <1>1, <2>1, <2>2, Typing DEF StoreInv
      <4> QED
        BY <1>6, <2>1, <4>1 DEF StoreInv
    <3> QED
      BY <1>1, <3>1, <3>2, <3>3 DEF StoreInv
  <2>6. StoredKeyOnce'
    <3>1. ASSUME NEW h \in Height \ {n}, recordAt[h] # NoRecord, recordAt[h].key = r.key
          PROVE  r.key = NoKey
      <4>1. h <= tip.height
        BY <1>9, <2>1, <2>2, <3>1 DEF StoreInv, Height
      <4>2. r.key # NoKey => heightOf[r.key] = h
        BY <2>1, <3>1, <4>1 DEF StoreInv
      <4> QED
        BY <2>2, <4>2 DEF Height
    <3>2. ASSUME NEW h \in Height, NEW i \in Height, recordAt'[h] # NoRecord,
                 recordAt'[i] # NoRecord, h # i
          PROVE  recordAt'[h].key # recordAt'[i].key \/ recordAt'[h].key = NoKey
      <4>1. CASE h = n
        BY <1>6, <3>1, <3>2, <4>1
      <4>2. CASE i = n
        BY <1>6, <3>1, <3>2, <4>2
      <4>3. CASE h # n /\ i # n
        BY <1>6, <1>12, <2>1, <3>2, <4>3 DEF StoredKeyOnce
      <4> QED
        BY <4>1, <4>2, <4>3
    <3> QED
      BY <3>2 DEF StoredKeyOnce
  <2>7. ASSUME NEW d \in Caller
        PROVE  LoneInv(d)'
    <3>1. found[d] # NoRecord => recordAt'[found[d].height] = found[d]
      <4>1. ASSUME found[d] # NoRecord
            PROVE  found[d].height \in Height \ {n}
        <5>1. found[d] \in Record /\ recordAt[found[d].height] = found[d]
          BY <1>1, <2>1, <4>1, Typing DEF LoneInv
        <5> QED
          BY <2>2, <4>1, <5>1 DEF Record
      <4> QED
        BY <1>6, <2>1, <4>1 DEF LoneInv
    <3>2. NewRecord(c)' = r
      BY <1>1, <1>3 DEF NewRecord
    <3>3. CASE d = c
      BY <1>1, <1>3, <1>6, <1>7, <2>2, <3>1, <3>2, <3>3 DEF LoneInv, Unused, Writing
    <3>4. CASE d # c
      BY <1>1, <1>7, <2>1, <3>1, <3>4 DEF LoneInv, Unused, Writing
    <3> QED
      BY <3>3, <3>4
  <2> QED
    BY <2>4, <2>5, <2>6, <2>7
<1> QED
  BY <1>1, <1>8, <1>10, <1>11, <1>12 DEF RocksInv

\* put id/ and client/: the record is already there.
LEMMA PutIndexStep ==
    ASSUME RocksInv, NEW c \in Caller, PutIndex(c), UNCHANGED serial
    PROVE  RocksInv'
<1>1. /\ TypeOK /\ NoGapBelowTip /\ Only(c)
      /\ pc[c] = "putIndex" /\ pc' = [pc EXCEPT ![c] = "putTip"]
      /\ UNCHANGED <<serial, req, found, seenTip, chainOk, calls, outcome, appendCount,
                     failClosed, acked, observed, raced, recordAt, tip, crashes, failures>>
  BY OnlyOne DEF RocksInv, PutIndex, Suspend, InFlight, faultVars
<1>2. /\ calls[c] \in 1..MaxCalls /\ seenTip[c].height < MaxHeight
      /\ recordAt[seenTip[c].height + 1] # NoRecord
  BY <1>1 DEF RocksInv, CallInv, Writing
<1>3. PICK n \in Height : n = seenTip[c].height + 1 /\ n = NewRecord(c).height
  BY <1>1, <1>2, NewRecordType
<1>4. /\ req[c].key \in Key \cup {NoKey} /\ NoKey \notin Key
      /\ tip.height \in Height \cup {-1}
  BY <1>1, Typing, ServiceAssumption DEF Tip
<1>5. /\ heightOf' \in [Key -> Height \cup {-1}]
      /\ \A k \in Key : heightOf'[k] = IF k = req[c].key THEN n ELSE heightOf[k]
  BY <1>1, <1>3, <1>4, Typing DEF PutIndex
<1>6. /\ pc' \in [Caller -> Await] /\ pc'[c] = "putTip"
      /\ \A d \in Caller \ {c} : pc'[d] = pc[d]
  BY <1>1, Typing DEF Await, Writing
<1>7. TypeOK'
  BY <1>1, <1>5, <1>6 DEF TypeOK, ServiceTypeOK
<1>8. NoGapBelowTip'
  BY <1>1 DEF NoGapBelowTip
<1>9. ASSUME NEW d \in Caller
      PROVE  CallInv(d)'
  <2>1. CallInv(d)
    BY DEF RocksInv
  <2>2. CASE d = c
    BY <1>1, <1>2, <1>6, <2>1, <2>2 DEF CallInv, Writing
  <2>3. CASE d # c
    BY <1>1, <1>6, <2>1, <2>3 DEF CallInv, Writing
  <2> QED
    BY <2>2, <2>3
<1>10. ASSUME serial
       PROVE  Alone' /\ StoreInv' /\ StoredKeyOnce' /\ \A d \in Caller : LoneInv(d)'
  <2>1. /\ StoreInv /\ StoredKeyOnce /\ \A d \in Caller : LoneInv(d)
        /\ \A d \in Caller \ {c} : pc[d] = "idle"
    BY <1>1, <1>10 DEF RocksInv, Only, InFlight
  <2>2. /\ seenTip[c] = tip /\ n = tip.height + 1
        /\ recordAt[n] = NewRecord(c) /\ recordAt[n] # NoRecord
        /\ recordAt[n].key = req[c].key
    <3>1. seenTip[c] = tip /\ recordAt[seenTip[c].height + 1] = NewRecord(c)
      BY <1>1, <2>1 DEF LoneInv, Writing
    <3>2. NewRecord(c) # NoRecord /\ NewRecord(c).key = req[c].key
      BY <1>1, <1>2, NewRecordType
    <3> QED
      BY <1>3, <3>1, <3>2
  <2>3. Alone'
    BY <1>6, <2>1 DEF Alone, InFlight
  <2>4. StoredKeyOnce'
    BY <1>1, <1>10, <2>1 DEF StoredKeyOnce
  <2>5. StoreInv'
    <3>1. ASSUME NEW h \in Height, recordAt[h] # NoRecord, recordAt[h].key # NoKey,
                 h <= tip.height
          PROVE  heightOf'[recordAt[h].key] = h
      <4>1. recordAt[h] \in Record /\ recordAt[h].key \in Key
        BY <1>1, <3>1, Typing DEF Record
      <4>2. h # n
        BY <1>4, <2>2, <3>1 DEF Height
      <4>3. recordAt[h].key # recordAt[n].key
        BY <1>10, <2>1, <2>2, <3>1, <4>2 DEF StoredKeyOnce
      <4> QED
        BY <1>5, <2>1, <2>2, <3>1, <4>1, <4>3 DEF StoreInv
    <3>2. ASSUME NEW k \in Key, heightOf'[k] # -1
          PROVE  recordAt[heightOf'[k]] # NoRecord /\ recordAt[heightOf'[k]].key = k
      BY <1>5, <2>1, <2>2, <3>2 DEF StoreInv
    <3> QED
      BY <1>1, <2>1, <3>1, <3>2 DEF StoreInv
  <2>6. ASSUME NEW d \in Caller
        PROVE  LoneInv(d)'
    <3>1. NewRecord(d)' = NewRecord(d)
      BY <1>1 DEF NewRecord
    <3>2. CASE d = c
      BY <1>1, <1>4, <1>5, <1>6, <2>1, <2>2, <3>1, <3>2 DEF LoneInv, Unused, Writing
    <3>3. CASE d # c
      BY <1>1, <1>6, <2>1, <3>3 DEF LoneInv, Unused, Writing
    <3> QED
      BY <3>2, <3>3
  <2> QED
    BY <2>3, <2>4, <2>5, <2>6
<1> QED
  BY <1>1, <1>7, <1>8, <1>9, <1>10 DEF RocksInv

\* put tip: the record at the height it names is there.
LEMMA PutTipStep ==
    ASSUME RocksInv, NEW c \in Caller, PutTip(c), UNCHANGED serial
    PROVE  RocksInv'
<1>1. /\ TypeOK /\ NoGapBelowTip /\ Only(c)
      /\ pc[c] = "putTip" /\ pc' = [pc EXCEPT ![c] = "stored"]
      /\ UNCHANGED <<serial, req, found, seenTip, chainOk, calls, outcome, appendCount,
                     failClosed, acked, observed, raced, recordAt, heightOf, crashes, failures>>
  BY OnlyOne DEF RocksInv, PutTip, Suspend, InFlight, faultVars
<1>2. /\ calls[c] \in 1..MaxCalls /\ seenTip[c].height < MaxHeight
      /\ \A h \in 0..seenTip[c].height : recordAt[h] # NoRecord
      /\ recordAt[seenTip[c].height + 1] # NoRecord
  BY <1>1 DEF RocksInv, CallInv, Writing
<1>3. PICK r \in Record, n \in Height : /\ r = NewRecord(c) /\ r.height = n
                                        /\ n = seenTip[c].height + 1
                                        /\ r.id \in Hash /\ r.key = req[c].key
  BY <1>1, <1>2, NewRecordType
<1>4. tip' = [height |-> n, hash |-> r.id]
  BY <1>3 DEF PutTip
<1>5. tip' \in Tip /\ tip'.height = n /\ tip'.hash = r.id
  BY <1>3, <1>4 DEF Tip
<1>6. /\ pc' \in [Caller -> Await] /\ pc'[c] = "stored"
      /\ \A d \in Caller \ {c} : pc'[d] = pc[d]
  BY <1>1, Typing DEF Await, Writing
<1>7. TypeOK'
  BY <1>1, <1>5, <1>6 DEF TypeOK, ServiceTypeOK
<1>8. /\ tip.height \in Height \cup {-1} /\ seenTip[c].height \in Height \cup {-1}
  BY <1>1, Typing DEF Tip
<1>9. NoGapBelowTip'
  BY <1>1, <1>2, <1>3, <1>5, <1>8 DEF NoGapBelowTip, Height
<1>10. ASSUME NEW d \in Caller
      PROVE  CallInv(d)'
  <2>1. CallInv(d)
    BY DEF RocksInv
  <2>2. CASE d = c
    BY <1>1, <1>2, <1>6, <2>1, <2>2 DEF CallInv, Writing
  <2>3. CASE d # c
    BY <1>1, <1>6, <2>1, <2>3 DEF CallInv, Writing
  <2> QED
    BY <2>2, <2>3
<1>11. ASSUME serial
       PROVE  Alone' /\ StoreInv' /\ StoredKeyOnce' /\ \A d \in Caller : LoneInv(d)'
  <2>1. /\ StoreInv /\ StoredKeyOnce /\ \A d \in Caller : LoneInv(d)
        /\ \A d \in Caller \ {c} : pc[d] = "idle"
    BY <1>1, <1>11 DEF RocksInv, Only, InFlight
  <2>2. /\ n = tip.height + 1 /\ recordAt[n] = r
        /\ (req[c].key # NoKey => heightOf[req[c].key] = n)
    BY <1>1, <1>3, <2>1 DEF LoneInv, Writing
  <2>3. Alone'
    BY <1>6, <2>1 DEF Alone, InFlight
  <2>4. StoredKeyOnce'
    BY <1>1, <1>11, <2>1 DEF StoredKeyOnce
  <2>5. StoreInv'
    <3>1. ASSUME NEW h \in Height, recordAt[h] # NoRecord
          PROVE  /\ h <= n + 1
                 /\ recordAt[h].key # NoKey /\ h <= n => heightOf[recordAt[h].key] = h
      <4>1. CASE h = n
        BY <1>3, <2>2, <4>1 DEF Height
      <4>2. CASE h # n
        BY <1>8, <2>1, <2>2, <3>1, <4>2 DEF StoreInv, Height
      <4> QED
        BY <4>1, <4>2
    <3>2. tip'.height # -1 /\ tip'.hash = recordAt[tip'.height].id
      BY <1>5, <2>2 DEF Height
    <3> QED
      BY <1>1, <1>5, <2>1, <3>1, <3>2 DEF StoreInv
  <2>6. ASSUME NEW d \in Caller
        PROVE  LoneInv(d)'
    <3>1. NewRecord(d)' = NewRecord(d)
      BY <1>1 DEF NewRecord
    <3>2. CASE d = c
      BY <1>1, <1>3, <1>6, <2>1, <2>2, <3>1, <3>2 DEF LoneInv, Unused, Writing
    <3>3. CASE d # c
      BY <1>1, <1>6, <2>1, <3>3 DEF LoneInv, Unused, Writing
    <3> QED
      BY <3>2, <3>3
  <2> QED
    BY <2>3, <2>4, <2>5, <2>6
<1> QED
  BY <1>1, <1>7, <1>9, <1>10, <1>11 DEF RocksInv

\* A crash drops every call; what is stored stays.
LEMMA CrashStep ==
    ASSUME RocksInv, Crash, UNCHANGED serial
    PROVE  RocksInv'
<1>1. /\ TypeOK /\ UNCHANGED <<serial, calls, acked, observed, raced, recordAt, heightOf, tip, failures>>
      /\ StoreInv /\ StoredKeyOnce /\ NoGapBelowTip
  BY DEF RocksInv, Crash, dbVars
<1>2. GenesisRequest \in Request /\ NoTip \in Tip /\ NoTip.height = -1 /\ "idle" \in Await
  BY DEF Request, NoTip, Tip, Hash, Await
<1>3. \A c \in Caller : pc'[c] = "idle" /\ found'[c] = NoRecord /\ seenTip'[c] = NoTip
  BY DEF Crash
<1>4. TypeOK'
  <2>1. /\ pc' \in [Caller -> Await] /\ req' \in [Caller -> Request]
        /\ found' \in [Caller -> Record \cup {NoRecord}] /\ seenTip' \in [Caller -> Tip]
        /\ chainOk' \in [Caller -> BOOLEAN] /\ outcome' \in [Caller -> Outcome]
    BY <1>2 DEF Crash, Outcome
  <2>2. crashes' \in 0..MaxCrashes
    BY <1>1, RocksAssumption DEF Crash, TypeOK
  <2>3. failClosed' \in BOOLEAN /\ appendCount' \in 0..(VerifyEveryN - 1)
    <3>1. failClosed' \in BOOLEAN
      BY Zenon DEF Crash
    <3>2. appendCount' \in 0..(VerifyEveryN - 1)
      BY ServiceAssumption DEF Crash
    <3> QED
      BY <3>1, <3>2
  <2> QED
    BY <1>1, <2>1, <2>2, <2>3 DEF TypeOK, ServiceTypeOK
<1>5. \A c \in Caller : CallInv(c)' /\ LoneInv(c)'
  BY <1>2, <1>3 DEF CallInv, LoneInv, Unused, Writing
<1>6. Alone'
  BY <1>3 DEF Alone, InFlight
<1>7. NoGapBelowTip' /\ StoreInv' /\ (serial => StoredKeyOnce')
  BY <1>1 DEF NoGapBelowTip, StoreInv, StoredKeyOnce
<1> QED
  BY <1>1, <1>4, <1>5, <1>6, <1>7 DEF RocksInv
-----------------------------------------------------------------------------
LEMMA RocksInit ==
    ASSUME Init
    PROVE  RocksInv
<1>1. GenesisRequest \in Request /\ NoTip \in Tip /\ NoTip.height = -1 /\ "idle" \in Await
  BY DEF Request, NoTip, Tip, Hash, Await
<1>2. /\ 0 \in 0..MaxCalls /\ 0 \in 0..(VerifyEveryN - 1)
      /\ 0 \in 0..MaxCrashes /\ 0 \in 0..MaxFailures
  BY ServiceAssumption, RocksAssumption
<1>3. TypeOK
  BY <1>1, <1>2 DEF Init, ServiceInit, TypeOK, ServiceTypeOK, Outcome
<1>4. /\ \A c \in Caller : pc[c] = "idle" /\ found[c] = NoRecord /\ seenTip[c] = NoTip
      /\ \A h \in Height : recordAt[h] = NoRecord
      /\ \A k \in Key : heightOf[k] = -1
      /\ tip = NoTip
  BY DEF Init, ServiceInit
<1>5. NoGapBelowTip
  BY <1>1, <1>4 DEF NoGapBelowTip
<1>6. \A c \in Caller : CallInv(c) /\ LoneInv(c)
  BY <1>1, <1>4 DEF CallInv, LoneInv, Unused, Writing
<1>7. Alone /\ StoreInv /\ StoredKeyOnce
  BY <1>1, <1>4 DEF Alone, InFlight, StoreInv, StoredKeyOnce
<1> QED
  BY <1>3, <1>5, <1>6, <1>7 DEF RocksInv

LEMMA RocksNext ==
    ASSUME RocksInv, [Next]_vars
    PROVE  RocksInv'
<1>1. CASE UNCHANGED vars
  BY <1>1 DEF vars, serviceVars, callVars, dbVars, faultVars, RocksInv, TypeOK, ServiceTypeOK,
     NoGapBelowTip, CallInv, LoneInv, Unused, Alone, InFlight, StoreInv, StoredKeyOnce, NewRecord
<1>2. CASE Next
  <2>1. UNCHANGED serial /\ Step
    BY <1>2 DEF Next
  <2>2. CASE Crash
    BY <2>1, <2>2, CrashStep
  <2>3. ASSUME NEW c \in Caller, NEW r \in FactRequest, CallAppend(c, r)
        PROVE  RocksInv'
    BY <2>1, <2>3, CallAppendIsQuiet, QuietStep
  <2>4. ASSUME NEW c \in Caller, CallEnsureGenesis(c)
        PROVE  RocksInv'
    BY <2>1, <2>4, EnsureGenesisIsQuiet, QuietStep
  <2>5. ASSUME NEW c \in Caller, Resume(c)
        PROVE  RocksInv'
    BY <2>1, <2>5, ResumeIsQuiet, QuietStep
  <2>6. ASSUME NEW c \in Caller, CheckHeight(c) \/ HeightTaken(c) \/ PutFails(c)
        PROVE  RocksInv'
    BY <2>1, <2>6, HeightStepsAreQuiet, QuietStep
  <2>7. ASSUME NEW c \in Caller, PutRecord(c)
        PROVE  RocksInv'
    BY <2>1, <2>7, PutRecordStep
  <2>8. ASSUME NEW c \in Caller, PutIndex(c)
        PROVE  RocksInv'
    BY <2>1, <2>8, PutIndexStep
  <2>9. ASSUME NEW c \in Caller, PutTip(c)
        PROVE  RocksInv'
    BY <2>1, <2>9, PutTipStep
  <2> QED
    BY <2>1, <2>2, <2>3, <2>4, <2>5, <2>6, <2>7, <2>8, <2>9 DEF Step
<1> QED
  BY <1>1, <1>2

\* RocksInv holds throughout: what a suspended call may still rely on after
\* others wrote, and for a lone writer the whole database.
THEOREM RocksInvariance == Spec => []RocksInv
<1>1. Init => RocksInv
  BY RocksInit
<1>2. RocksInv /\ [Next]_vars => RocksInv'
  BY RocksNext
<1> QED
  BY <1>1, <1>2, PTL DEF Spec

\* What the invariant says of the database, put in the words of the properties.
LEMMA RocksInvIsSound ==
    ASSUME RocksInv
    PROVE  StoreIsSound
<1>1. TypeOK /\ NoGapBelowTip
  BY DEF RocksInv
<1>2. tip.height \in Height \cup {-1} /\ tip.height \in Int /\ MaxHeight \in Nat
  BY <1>1, Typing, ServiceAssumption DEF Tip, Height
<1>3. ASSUME serial
      PROVE  ListedChainUnbroken /\ OrphanOnlyAboveTip /\ StoredKeyOnce
  <2>1. StoreInv /\ StoredKeyOnce
    BY <1>3 DEF RocksInv
  <2>2. ASSUME NEW h \in Height, Listed[h] # NoRecord
        PROVE  /\ Listed[h].height = h
               /\ IF h = 0 THEN Listed[h].prev = GenesisPrev
                  ELSE /\ Listed[h - 1] # NoRecord
                       /\ Listed[h].prev = Listed[h - 1].id
    <3>1. h <= tip.height /\ recordAt[h] # NoRecord /\ Listed[h] = recordAt[h]
      BY <2>2 DEF Listed
    <3>2. /\ recordAt[h].height = h
          /\ recordAt[h].prev = IF h = 0 THEN GenesisPrev ELSE recordAt[h - 1].id
      BY <2>1, <3>1 DEF StoreInv
    <3>3. ASSUME h # 0
          PROVE  Listed[h - 1] = recordAt[h - 1] /\ recordAt[h - 1] # NoRecord
      <4>1. h - 1 \in Height /\ h - 1 <= tip.height /\ h - 1 \in 0..tip.height
        BY <1>2, <3>1, <3>3 DEF Height
      <4> QED
        BY <1>1, <4>1 DEF Listed, NoGapBelowTip
    <3> QED
      BY <3>1, <3>2, <3>3
  <2>3. ChainOk(Listed)
    BY <2>2 DEF ChainOk
  <2>4. ListedChainUnbroken
    BY <1>1, <1>2, <2>1, <2>3 DEF ListedChainUnbroken, NoGapBelowTip, StoreInv, Height
  <2>5. OrphanOnlyAboveTip
    <3>1. ASSUME NEW h \in Height, recordAt[h] # NoRecord, h > tip.height
          PROVE  h = tip.height + 1 /\ recordAt[h].prev = tip.hash
      <4>1. h = tip.height + 1
        BY <1>2, <2>1, <3>1 DEF StoreInv, Height
      <4>2. CASE h = 0
        <5>1. tip.height = -1 /\ recordAt[h].prev = GenesisPrev
          BY <1>2, <2>1, <3>1, <4>1, <4>2 DEF StoreInv, Height
        <5> QED
          BY <2>1, <4>1, <5>1 DEF StoreInv, NoTip
      <4>3. CASE h # 0
        <5>1. h - 1 = tip.height /\ tip.height # -1
          BY <1>2, <4>1, <4>3 DEF Height
        <5> QED
          BY <2>1, <3>1, <4>1, <4>3, <5>1 DEF StoreInv
      <4> QED
        BY <4>2, <4>3
    <3> QED
      BY <3>1 DEF OrphanOnlyAboveTip
  <2> QED
    BY <2>1, <2>4, <2>5
<1> QED
  BY <1>1, <1>3 DEF StoreIsSound, ListedChainUnbroken, OrphanOnlyAboveTip, StoredKeyOnce

\* However a lone writer crashes or fails between two puts and retries, the
\* listed journal is one chain up to the tip, at most one record stands above
\* it, no key is stored twice; and overlapping writers leave no gap below it.
THEOREM StoreStaysSound == Spec => []StoreIsSound
<1>1. RocksInv => StoreIsSound
  BY RocksInvIsSound
<1> QED
  BY <1>1, RocksInvariance, PTL
-----------------------------------------------------------------------------
\* A call that has written and not yet verified, or has verified in vain.
OnItsWay(c) == pc[c] \in {"putIndex", "putTip", "stored"} \/ (pc[c] = "verify" /\ ~chainOk[c])

\* A step of c that leaves the journal alone and does not lose its way keeps a
\* break noticed.
LEMMA StillNoticed ==
    ASSUME NEW c \in Caller, BreakIsNoticed, UNCHANGED <<serial, recordAt, tip>>,
           failClosed => failClosed',
           \A d \in Caller \ {c} : pc'[d] = pc[d] /\ chainOk'[d] = chainOk[d],
           ~serial /\ OnItsWay(c) => OnItsWay(c)' \/ failClosed' \/ ChainOk(Listed)
    PROVE  BreakIsNoticed'
<1>1. ChainOk(Listed)' = ChainOk(Listed)
  BY DEF ChainOk, Listed
<1>2. CASE serial \/ ChainOk(Listed) \/ failClosed
  BY <1>1, <1>2 DEF BreakIsNoticed
<1>3. ASSUME NEW d \in Caller, OnItsWay(d), ~serial
      PROVE  BreakIsNoticed'
  <2>1. CASE d = c
    BY <1>1, <1>3, <2>1 DEF BreakIsNoticed, OnItsWay
  <2>2. CASE d # c
    <3>1. OnItsWay(d)'
      BY <1>3, <2>2 DEF OnItsWay
    <3> QED
      BY <3>1 DEF BreakIsNoticed, OnItsWay
  <2> QED
    BY <2>1, <2>2
<1> QED
  BY <1>2, <1>3 DEF BreakIsNoticed, OnItsWay

LEMMA BreakNext ==
    ASSUME VerifyEveryN = 1, TypeOK, BreakIsNoticed, [Next]_vars
    PROVE  BreakIsNoticed'
<1>1. CASE UNCHANGED vars
  BY <1>1 DEF vars, serviceVars, callVars, dbVars, BreakIsNoticed, ChainOk, Listed
<1>2. CASE Next
  <2>1. UNCHANGED serial /\ Step
    BY <1>2 DEF Next
  <2>2. /\ pc \in [Caller -> Await] /\ chainOk \in [Caller -> BOOLEAN]
        /\ appendCount = 0
    BY Typing DEF TypeOK, ServiceTypeOK
  <2>3. CASE Crash
    BY <2>1, <2>3 DEF Crash, BreakIsNoticed
  \* The puts: the caller is on its way to verify what it wrote.
  <2>4. ASSUME NEW c \in Caller, NEW to \in {"putIndex", "putTip", "stored"}, Suspend(c, to)
        PROVE  BreakIsNoticed'
    <3>1. pc'[c] = to
      BY <2>2, <2>4 DEF Suspend
    <3> QED
      BY <3>1 DEF BreakIsNoticed
  <2>5. ASSUME NEW c \in Caller, PutRecord(c) \/ PutIndex(c) \/ PutTip(c)
        PROVE  BreakIsNoticed'
    BY <2>4, <2>5 DEF PutRecord, PutIndex, PutTip
  \* A call not on its way: nothing it does can unnotice a break.
  <2>6. ASSUME NEW c \in Caller, ~OnItsWay(c), UNCHANGED <<recordAt, tip, failClosed>>,
               \/ \E to \in Await : Suspend(c, to) /\ UNCHANGED chainOk
               \/ \E result \in Outcome : Finish(c, result)
        PROVE  BreakIsNoticed'
    <3>1. \A d \in Caller \ {c} : pc'[d] = pc[d] /\ chainOk'[d] = chainOk[d]
      BY <2>2, <2>6 DEF Suspend, Finish
    <3> QED
      BY <2>1, <2>6, <3>1, StillNoticed
  <2>7. ASSUME NEW c \in Caller, NEW r \in Request, NEW x, BeginAppend(c, r, x, tip),
               pc[c] \in {"idle", "ensure"}, UNCHANGED <<recordAt, tip>>
        PROVE  BreakIsNoticed'
    <3>1. ~OnItsWay(c) /\ UNCHANGED failClosed
      BY <2>7 DEF OnItsWay, BeginAppend, RefuseAppend, LookUpKey, ReadTipUnkeyed
    <3>2. \/ \E to \in Await : Suspend(c, to) /\ UNCHANGED chainOk
          \/ \E result \in Outcome : Finish(c, result)
      <4>1. CASE RefuseAppend(c, r)
        BY <4>1 DEF RefuseAppend, Outcome
      <4>2. CASE LookUpKey(c, r, x)
        BY <4>2 DEF LookUpKey, Await
      <4>3. CASE ReadTipUnkeyed(c, r, tip)
        BY <4>3 DEF ReadTipUnkeyed, Await
      <4> QED
        BY <2>7, <4>1, <4>2, <4>3 DEF BeginAppend
    <3> QED
      BY <2>6, <2>7, <3>1, <3>2
  <2>8. ASSUME NEW c \in Caller, NEW r \in FactRequest, CallAppend(c, r)
        PROVE  BreakIsNoticed'
    <3>1. r \in Request /\ pc[c] = "idle" /\ UNCHANGED <<recordAt, tip>>
      BY <2>8 DEF CallAppend, MayStart, Request, dbVars
    <3>2. BeginAppend(c, r, Lookup(r.key), tip)
      BY <2>8 DEF CallAppend
    <3> QED
      BY <2>7, <3>1, <3>2
  <2>9. ASSUME NEW c \in Caller, CallEnsureGenesis(c)
        PROVE  BreakIsNoticed'
    <3>1. /\ ~OnItsWay(c) /\ UNCHANGED <<recordAt, tip, failClosed, chainOk>>
          /\ Suspend(c, "ensure") /\ "ensure" \in Await
      BY <2>9 DEF CallEnsureGenesis, MayStart, EnsureGenesis, OnItsWay, dbVars, Await
    <3> QED
      BY <2>6, <3>1
  <2>10. ASSUME NEW c \in Caller, CheckHeight(c) \/ HeightTaken(c)
         PROVE  BreakIsNoticed'
    <3>1. /\ ~OnItsWay(c) /\ UNCHANGED <<recordAt, tip, failClosed>>
          /\ \/ Suspend(c, "putRecord") /\ UNCHANGED chainOk
             \/ Finish(c, "STORAGE")
      BY <2>10 DEF CheckHeight, HeightTaken, OnItsWay, dbVars
    <3>2. "putRecord" \in Await /\ "STORAGE" \in Outcome
      BY DEF Await, Writing, Outcome
    <3> QED
      BY <2>6, <3>1, <3>2
  <2>11. ASSUME NEW c \in Caller, PutFails(c)
         PROVE  BreakIsNoticed'
    BY <2>1, <2>11 DEF PutFails, BreakIsNoticed
  <2>12. ASSUME NEW c \in Caller, Resume(c)
         PROVE  BreakIsNoticed'
    <3>1. UNCHANGED <<recordAt, tip>>
      BY <2>12 DEF Resume, dbVars
    <3>2. CASE ReturnGenesis(c, recordAt[0])
      <4>1. /\ ~OnItsWay(c) /\ UNCHANGED failClosed
            /\ Finish(c, "ok") \/ Finish(c, "ALREADY_GENESIS")
        BY <3>2 DEF ReturnGenesis, OnItsWay
      <4>2. "ok" \in Outcome /\ "ALREADY_GENESIS" \in Outcome
        BY DEF Outcome
      <4> QED
        BY <2>6, <3>1, <4>1, <4>2
    <3>3. CASE AppendGenesis(c, Lookup(GenesisKey), tip)
      BY <2>7, <3>1, <3>3 DEF AppendGenesis, Request
    <3>4. CASE ReturnExisting(c) \/ RefuseWrite(c) \/ Acknowledge(c)
      <4>1. /\ ~OnItsWay(c) /\ UNCHANGED failClosed
            /\ \E result \in Outcome : Finish(c, result)
        BY <3>4 DEF ReturnExisting, RefuseWrite, Acknowledge, OnItsWay, Outcome
      <4> QED
        BY <2>6, <3>1, <4>1
    <3>5. CASE ReadTip(c, tip)
      <4>1. /\ ~OnItsWay(c) /\ UNCHANGED <<failClosed, chainOk>>
            /\ Suspend(c, "tip") /\ "tip" \in Await
        BY <3>5 DEF ReadTip, OnItsWay, Await
      <4> QED
        BY <2>6, <3>1, <4>1
    <3>6. CASE Observe(c)
      <4>1. /\ ~OnItsWay(c) /\ UNCHANGED <<failClosed, chainOk>>
            /\ Suspend(c, "observe") /\ "observe" \in Await
        BY <3>6 DEF Observe, OnItsWay, Await
      <4> QED
        BY <2>6, <3>1, <4>1
    <3>7. CASE CountAndVerify(c, Listed)
      <4>1. /\ pc'[c] = "verify" /\ chainOk'[c] = ChainOk(Listed) /\ UNCHANGED failClosed
            /\ \A d \in Caller \ {c} : pc'[d] = pc[d] /\ chainOk'[d] = chainOk[d]
        BY <2>2, <3>7 DEF CountAndVerify, Suspend
      <4>2. OnItsWay(c)' \/ ChainOk(Listed)
        BY <4>1 DEF OnItsWay
      <4> QED
        BY <2>1, <3>1, <4>1, <4>2, StillNoticed
    <3>8. CASE CountAndObserve(c)
      BY <2>2, <3>8 DEF CountAndObserve, VerifyDue
    <3>9. CASE FailClosed(c)
      BY <3>9 DEF FailClosed, BreakIsNoticed
    <3> QED
      BY <2>12, <3>2, <3>3, <3>4, <3>5, <3>6, <3>7, <3>8, <3>9 DEF Resume, ServiceStep
  <2> QED
    BY <2>1, <2>3, <2>5, <2>8, <2>9, <2>10, <2>11, <2>12 DEF Step
<1> QED
  BY <1>1, <1>2

\* When every append is verified, overlapping writers that break the chain do
\* not go unnoticed: once no call is in progress, the service is closed.
THEOREM BreaksFailClosed ==
    ASSUME VerifyEveryN = 1
    PROVE  Spec => []BrokenChainFailsClosed
<1>1. Init => BreakIsNoticed
  BY DEF Init, BreakIsNoticed, ChainOk, Listed
<1>2. RocksInv => TypeOK
  BY DEF RocksInv
<1>3. TypeOK /\ BreakIsNoticed /\ [Next]_vars => BreakIsNoticed'
  BY BreakNext
<1>4. BreakIsNoticed => BrokenChainFailsClosed
  BY DEF BreakIsNoticed, BrokenChainFailsClosed, AtRest, InFlight
<1> QED
  BY <1>1, <1>2, <1>3, <1>4, RocksInvariance, PTL DEF Spec
-----------------------------------------------------------------------------
\* The records of a lone writer fill the heights from 0 up; there are as many
\* of them as the tip says, or one more.
LEMMA StoredFromZero ==
    ASSUME RocksInv, serial
    PROVE  /\ Stored \in 0..(MaxHeight + 1)
           /\ \A h \in Height : recordAt[h] # NoRecord <=> h < Stored
           /\ tip.height < MaxHeight /\ recordAt[tip.height + 1] = NoRecord
                => Stored = tip.height + 1
<1>1. /\ NoGapBelowTip /\ StoreInv
      /\ tip.height \in Height \cup {-1} /\ MaxHeight \in Nat
  BY Typing, ServiceAssumption DEF RocksInv, Tip
<1>2. PICK n \in 0..(MaxHeight + 1) :
         /\ \A h \in Height : recordAt[h] # NoRecord <=> h < n
         /\ tip.height < MaxHeight /\ recordAt[tip.height + 1] = NoRecord => n = tip.height + 1
  <2>1. CASE tip.height < MaxHeight /\ recordAt[tip.height + 1] # NoRecord
    <3>1. \A h \in Height : recordAt[h] # NoRecord <=> h < tip.height + 2
      BY <1>1, <2>1 DEF NoGapBelowTip, StoreInv, Height
    <3> QED
      BY <1>1, <2>1, <3>1 DEF Height
  <2>2. CASE ~(tip.height < MaxHeight /\ recordAt[tip.height + 1] # NoRecord)
    <3>1. \A h \in Height : recordAt[h] # NoRecord <=> h < tip.height + 1
      BY <1>1, <2>2 DEF NoGapBelowTip, StoreInv, Height
    <3> QED
      BY <1>1, <2>2, <3>1 DEF Height
  <2> QED
    BY <2>1, <2>2
<1>3. {h \in Height : recordAt[h] # NoRecord} = 0..(n - 1)
  BY <1>1, <1>2 DEF Height
<1>4. Stored = n
  <2>1. Cardinality(0..(n - 1)) = n
    BY <1>1, FS_Interval
  <2> QED
    BY <1>3, <2>1 DEF Stored
<1> QED
  BY <1>2, <1>4

\* put h/<height> of a lone writer is Append of the log.
LEMMA PutRecordAppends ==
    ASSUME RocksInv, serial, NEW c \in Caller, PutRecord(c), UNCHANGED serial
    PROVE  Log!Append
<1>1. /\ TypeOK /\ StoreInv /\ pc[c] = "putRecord" /\ CallInv(c) /\ LoneInv(c)
      /\ UNCHANGED <<serial, acked, tip>>
  BY DEF RocksInv, PutRecord
<1>2. /\ calls[c] \in 1..MaxCalls /\ seenTip[c].height < MaxHeight /\ seenTip[c] = tip
      /\ recordAt[tip.height + 1] = NoRecord
      /\ tip.height \in Height \cup {-1} /\ MaxHeight \in Nat
  BY <1>1, Typing, ServiceAssumption DEF CallInv, LoneInv, Writing, Tip
<1>3. PICK r \in Record, n \in Height :
         /\ r = NewRecord(c) /\ r.height = n /\ n = tip.height + 1
         /\ r.prev = tip.hash /\ r # NoRecord
  BY <1>1, <1>2, NewRecordType
<1>4. /\ recordAt' = [recordAt EXCEPT ![n] = r] /\ recordAt[n] = NoRecord
      /\ recordAt'[n] # NoRecord
  BY <1>1, <1>2, <1>3, Typing DEF PutRecord
<1>5. Stored = n /\ Stored' = n + 1
  <2>1. Stored = n /\ \A h \in Height : recordAt[h] # NoRecord <=> h < n
    <3>1. Stored = tip.height + 1 /\ \A h \in Height : recordAt[h] # NoRecord <=> h < Stored
      BY <1>2, StoredFromZero
    <3> QED
      BY <1>3, <3>1
  <2>2. \A h \in Height : recordAt'[h] # NoRecord <=> h < n + 1
    <3>1. \A h \in Height \ {n} : recordAt'[h] = recordAt[h]
      BY <1>1, <1>4, Typing
    <3> QED
      BY <1>4, <2>1, <3>1 DEF Height
  <2>3. {h \in Height : recordAt'[h] # NoRecord} = 0..n
    BY <1>2, <2>2 DEF Height
  <2>4. Cardinality(0..n) = n + 1
    BY FS_Interval DEF Height
  <2>5. Stored' = n + 1
    BY <2>3, <2>4 DEF Stored, Height
  <2> QED
    BY <2>1, <2>5
<1>6. tip.hash = Log!TipHash
  <2>1. CASE n = 0
    BY <1>1, <1>2, <1>3, <1>5, <2>1 DEF StoreInv, NoTip, Log!TipHash, Height
  <2>2. CASE n # 0
    BY <1>1, <1>2, <1>3, <1>5, <2>2 DEF StoreInv, Log!TipHash, Height
  <2> QED
    BY <2>1, <2>2
<1>7. serial' /\ acked' = acked /\ r.height = n /\ r.prev = Log!TipHash /\ n \in 0..MaxHeight
  BY <1>1, <1>3, <1>6 DEF Height
<1> QED
  BY <1>4, <1>5, <1>7 DEF Log!Append

\* A step that leaves the records alone is Acknowledge of the log or a stutter.
LEMMA QuietAcknowledges ==
    ASSUME RocksInv, serial, UNCHANGED <<serial, recordAt>>, AcksOne
    PROVE  [Log!Next]_(Log!vars)
<1>1. Stored' = Stored
  BY DEF Stored, Height
<1>2. CASE acked' = acked
  BY <1>1, <1>2 DEF Log!vars
<1>3. ASSUME NEW h \in Height, recordAt[h] # NoRecord, acked' = acked \cup {recordAt[h]}
      PROVE  Log!Next
  <2>1. h \in 0..(Stored - 1)
    BY <1>3, StoredFromZero, ServiceAssumption DEF Height
  <2>2. Log!Acknowledge(h)
    BY <1>1, <1>3 DEF Log!Acknowledge
  <2> QED
    BY <2>1, <2>2 DEF Log!Next
<1> QED
  BY <1>2, <1>3 DEF AcksOne

\* What a step acknowledges is stored where the caller is told it is.
LEMMA AcknowledgedIsStored ==
    ASSUME RocksInv, Next, serial, \A c \in Caller : ~PutRecord(c)
    PROVE  UNCHANGED <<serial, recordAt>> /\ AcksOne
<1>1. UNCHANGED serial /\ Step /\ TypeOK /\ \A c \in Caller : CallInv(c) /\ LoneInv(c)
  BY DEF Next, RocksInv
<1>2. CASE Crash
  BY <1>1, <1>2 DEF Crash, dbVars, AcksOne
<1>3. ASSUME NEW c \in Caller, NEW r \in FactRequest, CallAppend(c, r)
      PROVE  UNCHANGED recordAt /\ AcksOne
  BY <1>3 DEF CallAppend, BeginAppend, RefuseAppend, LookUpKey, ReadTipUnkeyed, dbVars, AcksOne
<1>4. ASSUME NEW c \in Caller, CallEnsureGenesis(c)
      PROVE  UNCHANGED recordAt /\ AcksOne
  BY <1>4 DEF CallEnsureGenesis, EnsureGenesis, dbVars, AcksOne
<1>5. ASSUME NEW c \in Caller,
             CheckHeight(c) \/ HeightTaken(c) \/ PutFails(c) \/ PutIndex(c) \/ PutTip(c)
      PROVE  UNCHANGED recordAt /\ AcksOne
  BY <1>5 DEF CheckHeight, HeightTaken, PutFails, PutIndex, PutTip, dbVars, AcksOne
<1>6. ASSUME NEW c \in Caller, Resume(c)
      PROVE  UNCHANGED recordAt /\ AcksOne
  <2>1. UNCHANGED recordAt
    BY <1>6 DEF Resume, dbVars
  <2>2. CASE ReturnGenesis(c, recordAt[0])
    <3>1. 0 \in Height
      BY ServiceAssumption DEF Height
    <3> QED
      BY <2>1, <2>2, <3>1 DEF ReturnGenesis, AcksOne
  <2>3. CASE AppendGenesis(c, Lookup(GenesisKey), tip)
    BY <2>1, <2>3 DEF AppendGenesis, BeginAppend, RefuseAppend, LookUpKey, ReadTipUnkeyed, AcksOne
  <2>4. CASE ReturnExisting(c)
    <3>1. /\ found[c] # NoRecord /\ acked' = acked \cup {found[c]}
          /\ recordAt[found[c].height] = found[c]
      BY <1>1, <2>4 DEF ReturnExisting, LoneInv
    <3>2. found[c].height \in Height
      BY <1>1, <3>1, Typing DEF Record
    <3> QED
      BY <2>1, <3>1, <3>2 DEF AcksOne
  <2>5. CASE Acknowledge(c)
    <3>1. /\ pc[c] = "observe" /\ acked' = acked \cup {NewRecord(c)}
          /\ calls[c] \in 1..MaxCalls /\ seenTip[c].height < MaxHeight
          /\ recordAt[seenTip[c].height + 1] = NewRecord(c)
      BY <1>1, <2>5 DEF Acknowledge, CallInv, LoneInv
    <3>2. NewRecord(c) # NoRecord /\ seenTip[c].height + 1 \in Height
      BY <1>1, <3>1, NewRecordType
    <3> QED
      BY <2>1, <3>1, <3>2 DEF AcksOne
  <2>6. CASE \/ ReadTip(c, tip) \/ RefuseWrite(c) \/ CountAndVerify(c, Listed)
             \/ CountAndObserve(c) \/ Observe(c) \/ FailClosed(c)
    BY <2>1, <2>6 DEF ReadTip, RefuseWrite, CountAndVerify, CountAndObserve, Observe,
                      FailClosed, AcksOne
  <2> QED
    BY <1>6, <2>1, <2>2, <2>3, <2>4, <2>5, <2>6 DEF Resume, ServiceStep
<1> QED
  BY <1>1, <1>2, <1>3, <1>4, <1>5, <1>6 DEF Step

\* Through every crash, failing put and retry of one writer at a time the store
\* is the append-only log of AppendLog: no height is written twice, and what
\* was acknowledged stays where the caller was told it is.
THEOREM StoreImplementsLog == Spec => ImplementsAppendLog
<1>1. Init => Log!Init
  <2>1. ASSUME Init
        PROVE  Log!Init
    <3>1. recordAt = [h \in Height |-> NoRecord] /\ acked = {}
      BY <2>1 DEF Init, ServiceInit
    <3>2. {h \in Height : recordAt[h] # NoRecord} = {}
      BY <3>1
    <3>3. Stored = 0
      BY <3>2, FS_EmptySet DEF Stored
    <3> QED
      BY <3>1, <3>3 DEF Log!Init, Height
  <2> QED
    BY <2>1
<1>2. RocksInv /\ [Next]_vars => [Log!Next]_(Log!vars)
  <2> SUFFICES ASSUME RocksInv, [Next]_vars PROVE [Log!Next]_(Log!vars)
    OBVIOUS
  <2>1. CASE UNCHANGED vars
    BY <2>1 DEF vars, serviceVars, dbVars, Log!vars, Stored
  <2>2. CASE Next /\ ~serial
    BY <2>2 DEF Next, Log!vars
  <2>3. CASE Next /\ serial
    <3>1. CASE \E c \in Caller : PutRecord(c)
      BY <2>3, <3>1, PutRecordAppends DEF Next, Log!Next
    <3>2. CASE \A c \in Caller : ~PutRecord(c)
      BY <2>3, <3>2, AcknowledgedIsStored, QuietAcknowledges
    <3> QED
      BY <3>1, <3>2
  <2> QED
    BY <2>1, <2>2, <2>3
<1> QED
  BY <1>1, <1>2, RocksInvariance, PTL DEF Spec, ImplementsAppendLog, Log!Spec
-----------------------------------------------------------------------------
(***************************************************************************)
(* The secrets beside the journal (modules KeyCustody and KeyVault).       *)
(* CustodyInv says what a process holds by where it is (HoldsByPlace) and  *)
(* that one generation of key pairs (PairsAgree) and one sealing key       *)
(* (SealsAgree) is about, each unless its ghost tells otherwise; VaultInv  *)
(* says the same of what lies in the vault.                                *)
(***************************************************************************)

Holding == {"made", "sealing", "open", "up", "stopped"}

\* What a process holds goes with where it is; whoever verified and stopped had records.
HoldsByPlace ==
    \A p \in Process :
        /\ run[p] # "down" => keyPairs[p] \in Secret
        /\ run[p] = "down" => keyPairs[p] = Absent
        /\ run[p] \in Holding => sealingKey[p] \in Secret
        /\ run[p] \notin Holding => sealingKey[p] = Absent
        /\ run[p] = "stopped" => entries # {}
        /\ run[p] \notin {"down", "read"} => keyFile # Absent

\* One generation of key pairs is about ...
PairsAgree ==
    /\ \A p, q \in Process :
          keyPairs[p] # Absent /\ keyPairs[q] # Absent => keyPairs[p] = keyPairs[q]
    /\ \A p \in Process : keyFile \in Secret /\ keyPairs[p] # Absent => keyFile = keyPairs[p]
    /\ \A e \in entries : \A p \in Process : keyPairs[p] \in {Absent, e.pairs}
    /\ \A e \in entries : keyFile \in {e.pairs, Empty}
    /\ \A p \in Process : run[p] # "stopped"

\* ... and one sealing key, which at most one process makes, before any record.
SealsAgree ==
    /\ \A p \in Process : run[p] \in {"made", "sealing"} =>
          /\ sealFile \notin Secret /\ entries = {}
          /\ \A q \in Process \ {p} : run[q] \notin Holding
    /\ \A p \in Process : run[p] \in {"open", "up", "stopped"} => sealFile = sealingKey[p]
    /\ \A e \in entries : sealFile = e.seal

CustodyInv ==
    /\ CustodyTypeOK /\ IsFiniteSet(entries) /\ HoldsByPlace
    /\ orphaned \/ PairsAgree
    /\ resealed \/ SealsAgree

LEMMA CustodyImplies == CustodyInv => CustodyTypeOK /\ RecordsVerify /\ RecordsReadable
<1> SUFFICES ASSUME CustodyInv PROVE CustodyTypeOK /\ RecordsVerify /\ RecordsReadable OBVIOUS
<1>1. RecordsVerify
  BY DEF CustodyInv, RecordsVerify, PairsAgree
<1>2. RecordsReadable
  <2>1. ASSUME ~resealed, NEW e \in entries, NEW p \in Process
        PROVE  sealFile = e.seal /\ sealingKey[p] \in {Absent, e.seal}
    BY <2>1 DEF CustodyInv, SealsAgree, HoldsByPlace, Holding
  <2> QED BY <2>1 DEF RecordsReadable, CustodyInv, SealsAgree
<1> QED BY <1>1, <1>2 DEF CustodyInv

LEMMA CustodyStarts == CustodyInit => CustodyInv
<1> SUFFICES ASSUME CustodyInit PROVE CustodyInv OBVIOUS
<1>1. /\ 0 \in 0..MaxSecrets /\ 0 \in 0..Empty /\ 0 \in 0..MaxStarts
  BY CustodyAssumption DEF Empty
<1>2. CustodyTypeOK
  BY <1>1 DEF CustodyInit, CustodyTypeOK, Absent
<1>3. IsFiniteSet(entries) /\ entries = {}
  BY FS_EmptySet DEF CustodyInit
<1>4. \A p \in Process : run[p] = "down" /\ keyPairs[p] = Absent /\ sealingKey[p] = Absent
  BY DEF CustodyInit
<1>5. HoldsByPlace /\ PairsAgree /\ SealsAgree
  BY <1>3, <1>4 DEF HoldsByPlace, PairsAgree, SealsAgree, Holding
<1> QED BY <1>2, <1>3, <1>5 DEF CustodyInv

LEMMA ReadKeysKeeps ==
    ASSUME CustodyInv, NEW p \in Process, ReadKeys(p) PROVE CustodyInv'
<1>1. /\ run[p] = "down" /\ run' = [run EXCEPT ![p] = "read"] /\ keyFile' = keyFile
      /\ sealFile' = sealFile /\ entries' = entries /\ sealingKey' = sealingKey /\ view' = view
      /\ sealsMade' = sealsMade /\ resealed' = resealed
  BY DEF ReadKeys, At, disk
<1>2. starts' \in 0..MaxStarts
  <2>1. starts \in 0..MaxStarts /\ MaxStarts \in Nat /\ starts < MaxStarts /\ starts' = starts + 1
    BY CustodyAssumption DEF CustodyInv, CustodyTypeOK, ReadKeys
  <2> QED BY <2>1
<1>3. PICK s \in Secret :
         /\ keyPairs' = [keyPairs EXCEPT ![p] = s]
         /\ \/ s = keyFile /\ keyFile \in Secret /\ pairsMade' = pairsMade /\ orphaned' = orphaned
            \/ /\ keyFile \notin Secret /\ pairsMade' \in 0..MaxSecrets
               /\ orphaned' = (orphaned \/ entries # {} \/ \E q \in Process : run[q] # "down")
  <2>1. CASE keyFile \in Secret /\ keyPairs' = [keyPairs EXCEPT ![p] = keyFile]
             /\ UNCHANGED <<pairsMade, orphaned>>
    BY <2>1
  <2>2. CASE /\ keyFile \notin Secret /\ pairsMade < MaxSecrets /\ pairsMade' = pairsMade + 1
             /\ keyPairs' = [keyPairs EXCEPT ![p] = pairsMade + 1]
             /\ orphaned' = (orphaned \/ entries # {} \/ \E q \in Process : run[q] # "down")
    <3>1. pairsMade \in 0..MaxSecrets /\ MaxSecrets \in Nat /\ pairsMade < MaxSecrets
      BY <2>2, CustodyAssumption DEF CustodyInv, CustodyTypeOK
    <3>2. pairsMade + 1 \in 1..MaxSecrets /\ pairsMade + 1 \in 0..MaxSecrets
      BY <3>1
    <3> QED BY <2>2, <3>2 DEF Secret
  <2> QED BY <2>1, <2>2 DEF ReadKeys
<1>4. /\ run \in [Process -> {"down", "read", "saving", "saved", "made", "sealing", "open", "up",
                              "stopped"}]
      /\ keyPairs \in [Process -> 0..MaxSecrets] /\ pairsMade \in 0..MaxSecrets /\ orphaned \in BOOLEAN
  BY DEF CustodyInv, CustodyTypeOK
<1>5. s \in 0..MaxSecrets /\ s # Absent
  <2>1. s \in 1..MaxSecrets
    BY <1>3 DEF Secret
  <2> QED BY <2>1, CustodyAssumption DEF Absent
<1>6. /\ run'[p] = "read" /\ keyPairs'[p] = s
      /\ \A q \in Process \ {p} : run'[q] = run[q] /\ keyPairs'[q] = keyPairs[q]
  BY <1>1, <1>3, <1>4
<1>7. CustodyTypeOK'
  <2>1. keyPairs' \in [Process -> 0..MaxSecrets]
    BY <1>3, <1>4, <1>5
  <2>2. orphaned' \in BOOLEAN /\ pairsMade' \in 0..MaxSecrets
    BY <1>3, <1>4
  <2>3. run' \in [Process -> {"down", "read", "saving", "saved", "made", "sealing", "open", "up",
                              "stopped"}]
    BY <1>1, <1>4
  <2> QED BY <2>1, <2>2, <2>3, <1>1, <1>2 DEF CustodyInv, CustodyTypeOK
<1>8. HoldsByPlace'
  BY <1>1, <1>3, <1>6 DEF CustodyInv, HoldsByPlace, Holding
<1>9. orphaned' \/ PairsAgree'
  <2>1. CASE s = keyFile /\ keyFile \in Secret /\ orphaned' = orphaned
    <3> SUFFICES ASSUME PairsAgree, ~orphaned PROVE PairsAgree'
      BY <2>1 DEF CustodyInv
    <3> QED BY <2>1, <1>1, <1>3, <1>5, <1>6, CustodyAssumption DEF PairsAgree, Secret, Empty
  <2>2. CASE keyFile \notin Secret /\ entries = {} /\ \A q \in Process : run[q] = "down"
    <3>1. \A q \in Process \ {p} : keyPairs'[q] = Absent /\ run'[q] = "down"
      BY <2>2, <1>6 DEF CustodyInv, HoldsByPlace
    <3> QED BY <3>1, <2>2, <1>1, <1>5, <1>6 DEF PairsAgree
  <2> QED BY <2>1, <2>2, <1>3
<1>10. resealed' \/ SealsAgree'
  <2>1. \A q \in Process : (run'[q] \in Holding <=> run[q] \in Holding) /\
                           (run'[q] \in Holding => run'[q] = run[q])
    BY <1>1, <1>6 DEF Holding
  <2> QED BY <2>1, <1>1 DEF CustodyInv, SealsAgree, Holding
<1> QED BY <1>1, <1>7, <1>8, <1>9, <1>10 DEF CustodyInv

LEMMA EmptyKeyFileKeeps ==
    ASSUME CustodyInv, NEW p \in Process, EmptyKeyFile(p) PROVE CustodyInv'
<1>1. /\ run[p] = "read" /\ run' = [run EXCEPT ![p] = "saving"] /\ keyFile' = Empty
      /\ UNCHANGED <<sealFile, entries, keyPairs, sealingKey, view, pairsMade, sealsMade, starts,
                     orphaned, resealed>>
  BY DEF EmptyKeyFile, At
<1>2. /\ run'[p] = "saving" /\ \A q \in Process \ {p} : run'[q] = run[q]
      /\ Empty # Absent /\ Empty \notin Secret /\ Empty \in 0..Empty
  BY <1>1, CustodyAssumption DEF CustodyInv, CustodyTypeOK, Empty, Absent, Secret
<1>3. CustodyTypeOK'
  BY <1>1, <1>2 DEF CustodyInv, CustodyTypeOK
<1>4. HoldsByPlace'
  BY <1>1, <1>2 DEF CustodyInv, HoldsByPlace, Holding
<1>5. orphaned' \/ PairsAgree'
  BY <1>1, <1>2 DEF CustodyInv, PairsAgree
<1>6. resealed' \/ SealsAgree'
  BY <1>1, <1>2 DEF CustodyInv, SealsAgree, Holding
<1> QED BY <1>1, <1>3, <1>4, <1>5, <1>6 DEF CustodyInv

LEMMA WriteKeyFileKeeps ==
    ASSUME CustodyInv, NEW p \in Process, WriteKeyFile(p) PROVE CustodyInv'
<1>1. /\ run[p] = "saving" /\ run' = [run EXCEPT ![p] = "saved"] /\ keyFile' = keyPairs[p]
      /\ UNCHANGED <<sealFile, entries, keyPairs, sealingKey, view, pairsMade, sealsMade, starts,
                     orphaned, resealed>>
  BY DEF WriteKeyFile, At
<1>2. run'[p] = "saved" /\ \A q \in Process \ {p} : run'[q] = run[q]
  BY <1>1 DEF CustodyInv, CustodyTypeOK
<1>3. keyPairs[p] \in Secret
  BY <1>1 DEF CustodyInv, HoldsByPlace
<1>4. keyPairs[p] \in 0..Empty /\ keyPairs[p] # Absent
  BY <1>3, CustodyAssumption DEF Secret, Empty, Absent
<1>5. CustodyTypeOK'
  BY <1>1, <1>2, <1>4 DEF CustodyInv, CustodyTypeOK
<1>6. HoldsByPlace'
  BY <1>1, <1>2, <1>4 DEF CustodyInv, HoldsByPlace, Holding
<1>7. orphaned' \/ PairsAgree'
  BY <1>1, <1>2, <1>4 DEF CustodyInv, PairsAgree
<1>8. resealed' \/ SealsAgree'
  BY <1>1, <1>2 DEF CustodyInv, SealsAgree, Holding
<1> QED BY <1>1, <1>5, <1>6, <1>7, <1>8 DEF CustodyInv

LEMMA ReadSealKeeps ==
    ASSUME CustodyInv, NEW p \in Process, ReadSeal(p) PROVE CustodyInv'
<1>1. /\ run[p] = "saved" /\ keyFile' = keyFile
      /\ sealFile' = sealFile /\ entries' = entries /\ keyPairs' = keyPairs /\ view' = view
      /\ pairsMade' = pairsMade /\ orphaned' = orphaned /\ starts' = starts
  BY DEF ReadSeal, disk
<1>2. /\ run \in [Process -> {"down", "read", "saving", "saved", "made", "sealing", "open", "up",
                              "stopped"}]
      /\ sealingKey \in [Process -> 0..MaxSecrets] /\ sealsMade \in 0..MaxSecrets
      /\ resealed \in BOOLEAN
  BY DEF CustodyInv, CustodyTypeOK
<1>3. CASE /\ sealFile \in Secret /\ sealingKey' = [sealingKey EXCEPT ![p] = sealFile]
           /\ At(p, "open") /\ UNCHANGED <<sealsMade, resealed>>
  <2>1. /\ run'[p] = "open" /\ sealingKey'[p] = sealFile
        /\ \A q \in Process \ {p} : run'[q] = run[q] /\ sealingKey'[q] = sealingKey[q]
    BY <1>2, <1>3 DEF At
  <2>2. sealFile \in 0..MaxSecrets
    BY <1>3, CustodyAssumption DEF Secret
  <2>3. CustodyTypeOK'
    BY <1>1, <1>2, <1>3, <2>2 DEF CustodyInv, CustodyTypeOK, At
  <2>4. HoldsByPlace'
    BY <1>1, <1>3, <2>1 DEF CustodyInv, HoldsByPlace, Holding
  <2>5. orphaned' \/ PairsAgree'
    BY <1>1, <2>1 DEF CustodyInv, PairsAgree
  <2>6. resealed' \/ SealsAgree'
    <3> SUFFICES ASSUME SealsAgree, ~resealed PROVE SealsAgree'
      BY <1>3 DEF CustodyInv
    <3> QED BY <1>1, <1>3, <2>1 DEF SealsAgree, Holding
  <2> QED BY <1>1, <2>3, <2>4, <2>5, <2>6 DEF CustodyInv
<1>4. CASE /\ sealFile \notin Secret /\ sealsMade < MaxSecrets
           /\ sealsMade' = sealsMade + 1
           /\ sealingKey' = [sealingKey EXCEPT ![p] = sealsMade + 1]
           /\ At(p, "made")
           /\ resealed' = (resealed \/ entries # {} \/
                            \E q \in Process : run[q] \in {"made", "sealing", "open", "up"})
  <2>1. sealsMade + 1 \in Secret /\ sealsMade + 1 \in 0..MaxSecrets
    <3>1. sealsMade \in 0..MaxSecrets /\ MaxSecrets \in Nat /\ sealsMade < MaxSecrets
      BY <1>2, <1>4, CustodyAssumption
    <3> QED BY <3>1 DEF Secret
  <2>2. /\ run'[p] = "made" /\ sealingKey'[p] = sealsMade + 1
        /\ \A q \in Process \ {p} : run'[q] = run[q] /\ sealingKey'[q] = sealingKey[q]
    BY <1>2, <1>4 DEF At
  <2>3. run' \in [Process -> {"down", "read", "saving", "saved", "made", "sealing", "open", "up",
                              "stopped"}]
    BY <1>2, <1>4 DEF At
  <2>4. sealingKey' \in [Process -> 0..MaxSecrets]
    BY <1>2, <1>4, <2>1
  <2>5. CustodyTypeOK'
    BY <1>1, <1>4, <2>1, <2>3, <2>4 DEF CustodyInv, CustodyTypeOK
  <2>6. HoldsByPlace'
    BY <1>1, <2>1, <2>2 DEF CustodyInv, HoldsByPlace, Holding
  <2>7. orphaned' \/ PairsAgree'
    BY <1>1, <2>2 DEF CustodyInv, PairsAgree
  <2>8. resealed' \/ SealsAgree'
    <3> SUFFICES ASSUME SealsAgree, entries = {},
                        \A q \in Process : run[q] \notin {"made", "sealing", "open", "up"}
                 PROVE  SealsAgree'
      BY <1>4 DEF CustodyInv
    <3>1. \A q \in Process : run[q] \notin Holding
      BY DEF CustodyInv, HoldsByPlace, Holding
    <3> QED BY <3>1, <1>1, <1>4, <2>2 DEF SealsAgree, Holding
  <2> QED BY <1>1, <2>5, <2>6, <2>7, <2>8 DEF CustodyInv
<1> QED BY <1>3, <1>4 DEF ReadSeal

LEMMA EmptySealFileKeeps ==
    ASSUME CustodyInv, NEW p \in Process, EmptySealFile(p) PROVE CustodyInv'
<1>1. /\ run[p] = "made" /\ run' = [run EXCEPT ![p] = "sealing"] /\ sealFile' = Empty
      /\ UNCHANGED <<keyFile, entries, keyPairs, sealingKey, view, pairsMade, sealsMade, starts,
                     orphaned, resealed>>
  BY DEF EmptySealFile, At
<1>2. /\ run'[p] = "sealing" /\ \A q \in Process \ {p} : run'[q] = run[q]
      /\ Empty \notin Secret /\ Empty \in 0..Empty
  BY <1>1, CustodyAssumption DEF CustodyInv, CustodyTypeOK, Empty, Secret
<1>3. CustodyTypeOK'
  BY <1>1, <1>2 DEF CustodyInv, CustodyTypeOK
<1>4. HoldsByPlace'
  BY <1>1, <1>2 DEF CustodyInv, HoldsByPlace, Holding
<1>5. orphaned' \/ PairsAgree'
  BY <1>1, <1>2 DEF CustodyInv, PairsAgree
<1>6. resealed' \/ SealsAgree'
  BY <1>1, <1>2 DEF CustodyInv, SealsAgree, Holding
<1> QED BY <1>1, <1>3, <1>4, <1>5, <1>6 DEF CustodyInv

LEMMA WriteSealFileKeeps ==
    ASSUME CustodyInv, NEW p \in Process, WriteSealFile(p) PROVE CustodyInv'
<1>1. /\ run[p] = "sealing" /\ run' = [run EXCEPT ![p] = "open"] /\ sealFile' = sealingKey[p]
      /\ UNCHANGED <<keyFile, entries, keyPairs, sealingKey, view, pairsMade, sealsMade, starts,
                     orphaned, resealed>>
  BY DEF WriteSealFile, At
<1>2. /\ run'[p] = "open" /\ \A q \in Process \ {p} : run'[q] = run[q]
  BY <1>1 DEF CustodyInv, CustodyTypeOK
<1>3. sealingKey[p] \in 0..Empty
  BY CustodyAssumption DEF CustodyInv, CustodyTypeOK, Empty
<1>4. CustodyTypeOK'
  BY <1>1, <1>2, <1>3 DEF CustodyInv, CustodyTypeOK
<1>5. HoldsByPlace'
  BY <1>1, <1>2 DEF CustodyInv, HoldsByPlace, Holding
<1>6. orphaned' \/ PairsAgree'
  BY <1>1, <1>2 DEF CustodyInv, PairsAgree
<1>7. resealed' \/ SealsAgree'
  BY <1>1, <1>2 DEF CustodyInv, SealsAgree, Holding
<1> QED BY <1>1, <1>4, <1>5, <1>6, <1>7 DEF CustodyInv

LEMMA DownKeeps ==
    ASSUME CustodyInv, NEW p \in Process, run[p] # "down", At(p, "down"), Forgotten(p),
           UNCHANGED <<disk, pairsMade, sealsMade, starts, orphaned, resealed>>
    PROVE  CustodyInv'
<1>1. /\ run' = [run EXCEPT ![p] = "down"] /\ keyPairs' = [keyPairs EXCEPT ![p] = Absent]
      /\ sealingKey' = [sealingKey EXCEPT ![p] = Absent] /\ view' = [view EXCEPT ![p] = {}]
      /\ UNCHANGED <<keyFile, sealFile, entries, pairsMade, sealsMade, starts, orphaned, resealed>>
  BY DEF At, Forgotten, disk
<1>2. /\ run'[p] = "down" /\ keyPairs'[p] = Absent /\ sealingKey'[p] = Absent
      /\ \A q \in Process \ {p} : /\ run'[q] = run[q] /\ keyPairs'[q] = keyPairs[q]
                                  /\ sealingKey'[q] = sealingKey[q]
      /\ Absent \in 0..MaxSecrets
  BY <1>1, CustodyAssumption DEF CustodyInv, CustodyTypeOK, Absent
<1>3. \A q \in Process : view'[q] \subseteq entries
  BY <1>1 DEF CustodyInv, CustodyTypeOK
<1>4. CustodyTypeOK'
  BY <1>1, <1>2, <1>3 DEF CustodyInv, CustodyTypeOK
<1>5. HoldsByPlace'
  BY <1>1, <1>2 DEF CustodyInv, HoldsByPlace, Holding
<1>6. orphaned' \/ PairsAgree'
  BY <1>1, <1>2 DEF CustodyInv, PairsAgree
<1>7. resealed' \/ SealsAgree'
  BY <1>1, <1>2 DEF CustodyInv, SealsAgree, Holding
<1> QED BY <1>1, <1>4, <1>5, <1>6, <1>7 DEF CustodyInv

LEMMA OpenJournalKeeps ==
    ASSUME CustodyInv, NEW p \in Process, OpenJournal(p) PROVE CustodyInv'
<1>1. run[p] = "open" /\ UNCHANGED <<disk, pairsMade, sealsMade, starts, orphaned, resealed>>
  BY DEF OpenJournal
<1>2. CASE At(p, "down") /\ Forgotten(p)
  BY <1>1, <1>2, DownKeeps
<1>3. CASE /\ At(p, "up") /\ view' = [view EXCEPT ![p] = entries]
           /\ UNCHANGED <<keyPairs, sealingKey>>
  <2>1. /\ run'[p] = "up" /\ \A q \in Process \ {p} : run'[q] = run[q]
        /\ UNCHANGED <<keyFile, sealFile, entries, keyPairs, sealingKey, pairsMade, sealsMade,
                       starts, orphaned, resealed>>
    BY <1>1, <1>3 DEF CustodyInv, CustodyTypeOK, At, disk
  <2>2. \A q \in Process : view'[q] \subseteq entries
    BY <1>3 DEF CustodyInv, CustodyTypeOK
  <2>3. CustodyTypeOK'
    BY <2>1, <2>2, <1>3 DEF CustodyInv, CustodyTypeOK, At
  <2>4. HoldsByPlace'
    BY <1>1, <2>1 DEF CustodyInv, HoldsByPlace, Holding
  <2>5. orphaned' \/ PairsAgree'
    BY <1>1, <2>1 DEF CustodyInv, PairsAgree
  <2>6. resealed' \/ SealsAgree'
    BY <1>1, <2>1 DEF CustodyInv, SealsAgree, Holding
  <2> QED BY <2>1, <2>3, <2>4, <2>5, <2>6 DEF CustodyInv
<1> QED BY <1>2, <1>3 DEF OpenJournal

LEMMA AppendEntryKeeps ==
    ASSUME CustodyInv, NEW p \in Process, AppendEntry(p) PROVE CustodyInv'
<1>1. PICK e : e = [number |-> Cardinality(entries) + 1, pairs |-> keyPairs[p],
                    seal |-> sealingKey[p]]
  OBVIOUS
<1>2. /\ run[p] = "up" /\ Cardinality(entries) < MaxEntries /\ entries' = entries \cup {e}
      /\ view' = [view EXCEPT ![p] = @ \cup {e}]
      /\ UNCHANGED <<keyFile, sealFile, run, keyPairs, sealingKey, pairsMade, sealsMade, starts,
                     orphaned, resealed>>
  BY <1>1 DEF AppendEntry
<1>3. /\ keyPairs[p] \in Secret /\ sealingKey[p] \in Secret /\ keyFile # Absent
  BY <1>2 DEF CustodyInv, HoldsByPlace, Holding
<1>4. Cardinality(entries) \in Nat /\ MaxEntries \in Nat
  BY CustodyAssumption, FS_CardinalityType DEF CustodyInv
<1>5. e \in Entry /\ e.pairs = keyPairs[p] /\ e.seal = sealingKey[p]
  BY <1>1, <1>2, <1>3, <1>4 DEF Entry
<1>6. IsFiniteSet(entries')
  BY <1>2, FS_AddElement DEF CustodyInv
<1>7. \A q \in Process : view'[q] \subseteq entries'
  BY <1>2 DEF CustodyInv, CustodyTypeOK
<1>8. CustodyTypeOK'
  BY <1>2, <1>5, <1>7 DEF CustodyInv, CustodyTypeOK
<1>9. HoldsByPlace'
  BY <1>2 DEF CustodyInv, HoldsByPlace, Holding
<1>10. orphaned' \/ PairsAgree'
  <2> SUFFICES ASSUME PairsAgree PROVE PairsAgree'
    BY <1>2 DEF CustodyInv
  <2>1. keyPairs[p] # Absent
    BY <1>3, CustodyAssumption DEF Secret, Absent
  <2>2. keyFile \in {e.pairs, Empty}
    <3>1. keyFile \in 0..Empty
      BY DEF CustodyInv, CustodyTypeOK
    <3>2. keyFile \in Secret \/ keyFile = Empty
      BY <3>1, <1>3, CustodyAssumption DEF Secret, Empty, Absent
    <3> QED BY <3>2, <2>1, <1>5 DEF PairsAgree
  <2>3. \A q \in Process : keyPairs[q] \in {Absent, e.pairs}
    BY <2>1, <1>5 DEF PairsAgree
  <2> QED BY <2>2, <2>3, <1>2 DEF PairsAgree
<1>11. resealed' \/ SealsAgree'
  <2> SUFFICES ASSUME SealsAgree PROVE SealsAgree'
    BY <1>2 DEF CustodyInv
  <2>1. sealFile = e.seal /\ \A q \in Process : run[q] \notin {"made", "sealing"}
    BY <1>2, <1>5 DEF SealsAgree, Holding
  <2> QED BY <2>1, <1>2 DEF SealsAgree
<1> QED BY <1>2, <1>6, <1>8, <1>9, <1>10, <1>11 DEF CustodyInv

LEMMA VerifySignaturesKeeps ==
    ASSUME CustodyInv, NEW p \in Process, VerifySignatures(p) PROVE CustodyInv'
<1>1. /\ run[p] = "up" /\ run' = [run EXCEPT ![p] = "stopped"]
      /\ \E e \in view[p] : e.pairs # keyPairs[p]
      /\ UNCHANGED <<keyFile, sealFile, entries, keyPairs, sealingKey, view, pairsMade, sealsMade,
                     starts, orphaned, resealed>>
  BY DEF VerifySignatures, At, disk
<1>2. run'[p] = "stopped" /\ \A q \in Process \ {p} : run'[q] = run[q]
  BY <1>1 DEF CustodyInv, CustodyTypeOK
<1>3. PICK e \in entries : e.pairs # keyPairs[p]
  BY <1>1 DEF CustodyInv, CustodyTypeOK
<1>4. CustodyTypeOK'
  BY <1>1 DEF CustodyInv, CustodyTypeOK
<1>5. HoldsByPlace'
  BY <1>1, <1>2, <1>3 DEF CustodyInv, HoldsByPlace, Holding
<1>6. orphaned
  <2>1. keyPairs[p] \in Secret
    BY <1>1 DEF CustodyInv, HoldsByPlace
  <2>2. keyPairs[p] # Absent
    BY <2>1, CustodyAssumption DEF Secret, Absent
  <2> QED BY <2>2, <1>3 DEF CustodyInv, PairsAgree
<1>7. resealed' \/ SealsAgree'
  BY <1>1, <1>2 DEF CustodyInv, SealsAgree, Holding
<1> QED BY <1>1, <1>4, <1>5, <1>6, <1>7 DEF CustodyInv

LEMMA EndProcessKeeps ==
    ASSUME CustodyInv, NEW p \in Process, EndProcess(p) PROVE CustodyInv'
BY DownKeeps DEF EndProcess

LEMMA CustodyStep == CustodyInv /\ [CustodyNext]_custodyVars => CustodyInv'
<1> SUFFICES ASSUME CustodyInv, [CustodyNext]_custodyVars PROVE CustodyInv' OBVIOUS
<1>1. CASE UNCHANGED custodyVars
  <2>1. UNCHANGED <<keyFile, sealFile, entries, run, keyPairs, sealingKey, view, pairsMade,
                    sealsMade, starts, orphaned, resealed>>
    BY <1>1 DEF custodyVars, disk, processes
  <2> QED BY <2>1 DEF CustodyInv, CustodyTypeOK, HoldsByPlace, PairsAgree, SealsAgree
<1> QED
  BY <1>1, ReadKeysKeeps, EmptyKeyFileKeeps, WriteKeyFileKeeps, ReadSealKeeps, EmptySealFileKeeps,
     WriteSealFileKeeps, OpenJournalKeeps, AppendEntryKeeps, VerifySignaturesKeeps, EndProcessKeeps
  DEF CustodyNext
-----------------------------------------------------------------------------
\* The master keys under which what is held, or can be read, was sealed are on record.
SealedUnderMasters(content) == \A k \in KeyId : content[k].pair # NoPair => content[k].under \in masters

\* The provider of a program that runs.
ProviderInv ==
    program # "down" =>
        /\ master \in masters /\ SealedUnderMasters(sealed)
        /\ \A k \in ids : HasPrivate(sealed, k)
        /\ remade \/ \A r \in signatures : sealed[r[1]].pair = r[2]

VaultInv ==
    /\ VaultTypeOK /\ IsFiniteSet(masters)
    /\ ProviderInv
    /\ vault.readable => SealedUnderMasters(vault.content)
    /\ vault.readable /\ ~remade => \A r \in signatures : vault.content[r[1]].pair = r[2]
    /\ program = "up" => vault = File(TRUE, sealed)

LEMMA VaultImplies == VaultInv => VaultTypeOK /\ VaultKeepsPairs /\ OneMasterSigns
<1> SUFFICES ASSUME VaultInv PROVE VaultTypeOK /\ VaultKeepsPairs /\ OneMasterSigns OBVIOUS
<1>1. VaultKeepsPairs
  <2>1. ASSUME ~remade, NEW r \in signatures, program # "down" PROVE VerifiesRecord(r)
    <3>1. sealed[r[1]].pair = r[2] /\ r[1] \in KeyId
      BY <2>1 DEF VaultInv, ProviderInv, VaultTypeOK
    <3>2. cache[r[1]] \in {NoPair, sealed[r[1]].pair}
      BY <3>1 DEF VaultInv, VaultTypeOK
    <3> QED BY <3>1, <3>2 DEF VerifiesRecord
  <2> QED BY <2>1 DEF VaultKeepsPairs, VaultInv
<1>2. OneMasterSigns
  <2> SUFFICES ASSUME program = "up", Cardinality(masters) <= 1, NEW k \in ids PROVE Unlocks(k)
    BY DEF OneMasterSigns
  <2>1. /\ k \in KeyId /\ HasPrivate(sealed, k) /\ master \in masters /\ sealed[k].under \in masters
    BY DEF VaultInv, VaultTypeOK, ProviderInv, SealedUnderMasters, HasPrivate
  <2>2. sealed[k].under = master
    <3>1. SUFFICES ASSUME sealed[k].under # master PROVE FALSE
      OBVIOUS
    <3>2. {master, sealed[k].under} \subseteq masters /\ IsFiniteSet(masters)
      BY <2>1 DEF VaultInv
    <3>3. Cardinality({master, sealed[k].under}) <= Cardinality(masters)
      BY <3>2, FS_Subset
    <3>4. Cardinality({master, sealed[k].under}) = 2
      <4>1. IsFiniteSet({master}) /\ Cardinality({master}) = 1
        BY FS_Singleton
      <4>2. {master, sealed[k].under} = {master} \cup {sealed[k].under} /\ sealed[k].under \notin {master}
        BY <3>1
      <4>3. Cardinality({master} \cup {sealed[k].under}) = Cardinality({master}) + 1
        BY <4>1, <4>2, FS_AddElement
      <4> QED BY <4>1, <4>2, <4>3
    <3> QED BY <3>2, <3>3, <3>4, FS_CardinalityType
  <2> QED BY <2>1, <2>2 DEF Unlocks
<1> QED BY <1>1, <1>2 DEF VaultInv

LEMMA VaultStarts == VaultInit => VaultInv
<1> SUFFICES ASSUME VaultInit PROVE VaultInv OBVIOUS
<1>1. (CHOOSE m \in Master : TRUE) \in Master
  BY VaultAssumption
<1>2. 0 \in PairNumber /\ 0 \in 0..MaxProgramStarts
  BY VaultAssumption DEF PairNumber
<1>3. Nothing \in [KeyId -> Sealed] /\ NoCache \in [KeyId -> PairNumber] /\ \A k \in KeyId : NoCache[k] = NoPair
  BY <1>1, <1>2 DEF Nothing, NoCache, Sealed, NoPair
<1>4. /\ vault.readable = FALSE /\ vault \in [readable : BOOLEAN, content : [KeyId -> Sealed]]
  BY <1>3 DEF VaultInit, File
<1>5. VaultTypeOK
  BY <1>1, <1>2, <1>3, <1>4 DEF VaultInit, VaultTypeOK
<1>6. IsFiniteSet(masters)
  BY FS_EmptySet DEF VaultInit
<1> QED BY <1>4, <1>5, <1>6 DEF VaultInit, VaultInv, ProviderInv

LEMMA VaultTypes ==
    ASSUME VaultInv
    PROVE  /\ vault.readable \in BOOLEAN /\ vault.content \in [KeyId -> Sealed]
           /\ ids \subseteq KeyId /\ master \in Master /\ masters \subseteq Master
           /\ sealed \in [KeyId -> Sealed] /\ cache \in [KeyId -> PairNumber]
           /\ signatures \subseteq KeyId \X (1..MaxPairs)
           /\ pairs \in PairNumber /\ MaxPairs \in Nat /\ MaxProgramStarts \in Nat
           /\ programStarts \in 0..MaxProgramStarts /\ remade \in BOOLEAN
           /\ \A k \in KeyId : cache[k] \in {NoPair, sealed[k].pair}
BY VaultAssumption DEF VaultInv, VaultTypeOK

LEMMA LoadVaultKeeps ==
    ASSUME VaultInv, NEW m \in Master, NEW wanted \in Versions, LoadVault(m, wanted)
    PROVE  /\ VaultInv'
           /\ vault.readable =>
                 \A k \in KeyId : HasPrivate(vault.content, k) => sealed'[k] = vault.content[k]
<1>1. PICK content : content = IF vault.readable THEN vault.content ELSE Nothing
  OBVIOUS
<1>2. PICK lacking : lacking = Missing(content, m, wanted)
  OBVIOUS
<1>3. PICK count : count = Cardinality(lacking)
  OBVIOUS
<1>4. /\ program = "down" /\ programStarts < MaxProgramStarts /\ pairs + count <= MaxPairs
      /\ pairs' = pairs + count /\ programStarts' = programStarts + 1
      /\ program' = "loaded" /\ ids' = wanted /\ master' = m
      /\ remade' = (remade \/ (~vault.readable /\ signatures # {}))
      /\ masters' = (IF vault.readable THEN masters ELSE {}) \cup {m}
      /\ UNCHANGED <<vault, signatures>>
  BY <1>1, <1>2, <1>3 DEF LoadVault
<1>5. PICK number \in [lacking -> (pairs + 1)..(pairs + count)] :
         /\ sealed' = [k \in KeyId |-> IF k \in lacking THEN [pair |-> number[k], under |-> m]
                                       ELSE content[k]]
         /\ cache' = [k \in KeyId |-> IF k \in lacking THEN number[k] ELSE NoPair]
  BY <1>1, <1>2, <1>3 DEF LoadVault
<1>6. /\ wanted \subseteq KeyId /\ IsFiniteSet(wanted) /\ lacking \subseteq wanted
      /\ \A k \in wanted : k \in lacking <=> content[k].pair = NoPair
  BY <1>2, VaultAssumption, FS_Subset DEF Missing, HasPrivate
<1>7. count \in Nat /\ pairs \in Nat
  <2>1. IsFiniteSet(lacking)
    BY <1>6, FS_Subset
  <2> QED BY <2>1, <1>3, VaultTypes, FS_CardinalityType DEF PairNumber
<1>8. content \in [KeyId -> Sealed] /\ 0 \in PairNumber
  <2>1. Nothing \in [KeyId -> Sealed] /\ 0 \in PairNumber
    BY VaultAssumption DEF Nothing, Sealed, PairNumber, NoPair
  <2> QED BY <2>1, <1>1, VaultTypes
<1>9. \A k \in lacking : number[k] \in PairNumber /\ number[k] # NoPair
  <2>1. ASSUME NEW n \in (pairs + 1)..(pairs + count) PROVE n \in 0..MaxPairs /\ n # 0
    BY <1>4, <1>7, VaultAssumption
  <2> QED BY <2>1, <1>5 DEF PairNumber, NoPair
<1>10. /\ \A k \in lacking : sealed'[k] = [pair |-> number[k], under |-> m] /\ cache'[k] = number[k]
       /\ \A k \in KeyId \ lacking : sealed'[k] = content[k] /\ cache'[k] = NoPair
  BY <1>5, <1>6
<1>11. /\ \A k \in lacking : sealed'[k] \in Sealed /\ sealed'[k].pair = number[k] /\ sealed'[k].under = m
       /\ \A k \in KeyId : sealed'[k] \in Sealed
  <2>1. \A k \in lacking : sealed'[k] \in Sealed /\ sealed'[k].pair = number[k] /\ sealed'[k].under = m
    <3> SUFFICES ASSUME NEW k \in lacking
                 PROVE  sealed'[k] \in Sealed /\ sealed'[k].pair = number[k] /\ sealed'[k].under = m
      OBVIOUS
    <3>1. PICK n \in PairNumber : n = number[k]
      BY <1>9
    <3>2. PICK row : row = [pair |-> n, under |-> m]
      OBVIOUS
    <3>3. row \in Sealed /\ row.pair = n /\ row.under = m
      BY <3>2 DEF Sealed
    <3>4. sealed'[k] = row
      BY <3>1, <3>2, <1>10
    <3> QED BY <3>1, <3>3, <3>4
  <2>2. \A k \in KeyId \ lacking : sealed'[k] \in Sealed
    BY <1>8, <1>10
  <2> QED BY <2>1, <2>2
<1>12. VaultTypeOK'
  <2>1. sealed' \in [KeyId -> Sealed]
    BY <1>5, <1>11
  <2>2. cache' \in [KeyId -> PairNumber]
    BY <1>5, <1>8, <1>9 DEF NoPair
  <2>3. \A k \in KeyId : cache'[k] \in {NoPair, sealed'[k].pair}
    BY <1>6, <1>10, <1>11
  <2>4. pairs' \in PairNumber /\ programStarts' \in 0..MaxProgramStarts
    <3>1. pairs + count \in 0..MaxPairs
      BY <1>4, <1>7, VaultAssumption
    <3>2. programStarts + 1 \in 0..MaxProgramStarts
      BY <1>4, VaultTypes
    <3> QED BY <3>1, <3>2, <1>4 DEF PairNumber
  <2>5. remade' \in BOOLEAN /\ masters' \subseteq Master
    BY <1>4, VaultTypes
  <2> QED BY <2>1, <2>2, <2>3, <2>4, <2>5, <1>4, <1>6 DEF VaultInv, VaultTypeOK
<1>13. IsFiniteSet(masters') /\ m \in masters' /\ (vault.readable => masters \subseteq masters')
  BY <1>4, FS_EmptySet, FS_AddElement DEF VaultInv
<1>14. \A k \in KeyId : content[k].pair # NoPair => vault.readable /\ content = vault.content
  <2>1. \A k \in KeyId : Nothing[k].pair = NoPair
    BY DEF Nothing
  <2> QED BY <2>1, <1>1
<1>15. \A k \in KeyId : sealed'[k].pair # NoPair => sealed'[k].under \in masters'
  <2> SUFFICES ASSUME NEW k \in KeyId, k \notin lacking, content[k].pair # NoPair
               PROVE  content[k].under \in masters'
    BY <1>10, <1>11, <1>13
  <2> QED BY <1>13, <1>14 DEF VaultInv, SealedUnderMasters
<1>16. \A k \in ids' : sealed'[k].pair # NoPair
  BY <1>4, <1>6, <1>9, <1>10, <1>11
<1>17. ASSUME vault.readable, NEW k \in KeyId, vault.content[k].pair # NoPair
       PROVE  sealed'[k] = vault.content[k]
  BY <1>17, <1>1, <1>6, <1>10
<1>18. remade' \/ \A r \in signatures' : sealed'[r[1]].pair = r[2]
  <2> SUFFICES ASSUME ~remade', NEW r \in signatures PROVE sealed'[r[1]].pair = r[2]
    BY <1>4
  <2>1. vault.readable /\ ~remade /\ r[1] \in KeyId /\ r[2] \in 1..MaxPairs
    BY <1>4, VaultTypes
  <2>2. vault.content[r[1]].pair = r[2] /\ r[2] # NoPair
    BY <2>1, VaultAssumption DEF VaultInv, NoPair
  <2> QED BY <2>1, <2>2, <1>17
<1>19. ProviderInv'
  BY <1>4, <1>13, <1>15, <1>16, <1>18 DEF ProviderInv, SealedUnderMasters, HasPrivate
<1>20. vault'.readable => SealedUnderMasters(vault.content)'
  BY <1>4, <1>13 DEF VaultInv, SealedUnderMasters
<1>21. vault'.readable /\ ~remade' => \A r \in signatures' : vault'.content[r[1]].pair = r[2]
  BY <1>4 DEF VaultInv
<1>22. VaultInv'
  BY <1>4, <1>12, <1>13, <1>19, <1>20, <1>21 DEF VaultInv
<1> QED BY <1>17, <1>22 DEF HasPrivate

LEMMA WritingKeeps ==
    ASSUME VaultInv, EmptyVault \/ WriteVault PROVE VaultInv'
<1>1. /\ UNCHANGED <<ids, master, sealed, cache, signatures, pairs, programStarts, remade, masters>>
      /\ program # "down"
  BY DEF EmptyVault, WriteVault
<1>2. /\ \A readable, content : File(readable, content).readable = readable
      /\ \A readable, content : File(readable, content).content = content
  BY DEF File
<1>3. Nothing \in [KeyId -> Sealed]
  BY VaultAssumption DEF Nothing, Sealed, PairNumber, NoPair
<1>4. VaultTypeOK /\ ProviderInv /\ IsFiniteSet(masters)
  BY DEF VaultInv
<1>5. CASE EmptyVault
  <2>1. program' = "writing" /\ vault' = [readable |-> FALSE, content |-> Nothing]
    BY <1>5 DEF EmptyVault, File
  <2>2. vault'.readable = FALSE /\ vault' \in [readable : BOOLEAN, content : [KeyId -> Sealed]]
    BY <2>1, <1>3
  <2>3. VaultTypeOK'
    BY <2>1, <2>2, <1>1, <1>4 DEF VaultTypeOK
  <2>4. ProviderInv'
    BY <2>1, <1>1, <1>4 DEF ProviderInv, SealedUnderMasters, HasPrivate
  <2> QED BY <2>1, <2>2, <2>3, <2>4, <1>1, <1>4 DEF VaultInv
<1>6. CASE WriteVault
  <2>1. program' = "up" /\ vault' = [readable |-> TRUE, content |-> sealed] /\ vault' = File(TRUE, sealed)
    BY <1>6 DEF WriteVault, File
  <2>2. /\ vault'.readable = TRUE /\ vault'.content = sealed
        /\ vault' \in [readable : BOOLEAN, content : [KeyId -> Sealed]]
    BY <2>1, VaultTypes
  <2>3. VaultTypeOK'
    BY <2>1, <2>2, <1>1, <1>4 DEF VaultTypeOK
  <2>4. ProviderInv'
    BY <2>1, <1>1, <1>4 DEF ProviderInv, SealedUnderMasters, HasPrivate
  <2>5. SealedUnderMasters(vault.content)'
    BY <2>2, <1>1, <1>4 DEF ProviderInv, SealedUnderMasters
  <2>6. ~remade' => \A r \in signatures' : vault'.content[r[1]].pair = r[2]
    BY <2>2, <1>1, <1>4 DEF ProviderInv
  <2>7. vault' = File(TRUE, sealed)'
    BY <2>1, <1>1 DEF File
  <2> QED BY <2>3, <2>4, <2>5, <2>6, <2>7, <1>1, <1>4 DEF VaultInv
<1> QED BY <1>5, <1>6

LEMMA SignRecordKeeps ==
    ASSUME VaultInv, NEW k \in KeyId, SignRecord(k) PROVE VaultInv'
<1>1. /\ program = "up" /\ k \in ids /\ Unlocks(k)
      /\ cache' = [cache EXCEPT ![k] = sealed[k].pair]
      /\ signatures' = signatures \cup {<<k, sealed[k].pair>>}
      /\ UNCHANGED <<vault, program, ids, master, sealed, pairs, programStarts, remade, masters>>
  BY DEF SignRecord
<1>2. PICK n : n = sealed[k].pair
  OBVIOUS
<1>3. n \in 1..MaxPairs
  <2>1. n \in 0..MaxPairs /\ n # NoPair
    BY <1>1, <1>2, VaultTypes DEF Unlocks, HasPrivate, Sealed, PairNumber
  <2> QED BY <2>1, VaultAssumption DEF NoPair
<1>4. VaultTypeOK /\ ProviderInv /\ vault = File(TRUE, sealed)
  BY <1>1 DEF VaultInv
<1>5. vault.content = sealed
  BY <1>4 DEF File
<1>6. n \in PairNumber
  BY <1>3, VaultAssumption DEF PairNumber
<1>7. VaultTypeOK'
  <2>1. signatures' \subseteq KeyId \X (1..MaxPairs)
    BY <1>1, <1>2, <1>3, VaultTypes
  <2>2. cache' \in [KeyId -> PairNumber] /\ \A j \in KeyId : cache'[j] \in {NoPair, sealed[j].pair}
    BY <1>1, <1>2, <1>6, VaultTypes
  <2> QED BY <2>1, <2>2, <1>1, <1>4 DEF VaultTypeOK
<1>8. remade \/ \A r \in signatures' : sealed[r[1]].pair = r[2]
  BY <1>1, <1>4 DEF ProviderInv
<1>9. ProviderInv'
  BY <1>1, <1>4, <1>8 DEF ProviderInv, SealedUnderMasters, HasPrivate
<1>10. SealedUnderMasters(vault.content)'
  BY <1>1, <1>4, <1>5 DEF ProviderInv, SealedUnderMasters
<1>11. File(TRUE, sealed)' = File(TRUE, sealed)
  BY <1>1 DEF File
<1> QED BY <1>1, <1>4, <1>5, <1>7, <1>8, <1>9, <1>10, <1>11 DEF VaultInv

LEMMA ProgramEndsKeeps ==
    ASSUME VaultInv, ProgramEnds PROVE VaultInv'
<1>1. /\ program' = "down" /\ sealed' = Nothing /\ cache' = NoCache
      /\ UNCHANGED <<vault, ids, master, signatures, pairs, programStarts, remade, masters>>
  BY DEF ProgramEnds
<1>2. Nothing \in [KeyId -> Sealed] /\ NoCache \in [KeyId -> PairNumber] /\ \A k \in KeyId : NoCache[k] = NoPair
  BY VaultAssumption DEF Nothing, Sealed, PairNumber, NoPair, NoCache
<1>3. VaultTypeOK
  BY DEF VaultInv
<1>4. VaultTypeOK'
  BY <1>1, <1>2, <1>3 DEF VaultTypeOK
<1>5. SealedUnderMasters(vault.content)' <=> SealedUnderMasters(vault.content)
  BY <1>1 DEF SealedUnderMasters
<1> QED BY <1>1, <1>4, <1>5 DEF VaultInv, ProviderInv

LEMMA VaultStep == VaultInv /\ [VaultNext]_vaultVars => VaultInv'
<1> SUFFICES ASSUME VaultInv, [VaultNext]_vaultVars PROVE VaultInv' OBVIOUS
<1>1. CASE UNCHANGED vaultVars
  <2>1. UNCHANGED <<vault, program, ids, master, sealed, cache, signatures, pairs, programStarts,
                    remade, masters>>
    BY <1>1 DEF vaultVars, provider
  <2>2. /\ VaultTypeOK' <=> VaultTypeOK
        /\ ProviderInv' <=> ProviderInv
        /\ SealedUnderMasters(vault.content)' <=> SealedUnderMasters(vault.content)
        /\ File(TRUE, sealed)' = File(TRUE, sealed)
    BY <2>1 DEF VaultTypeOK, ProviderInv, SealedUnderMasters, HasPrivate, File
  <2> QED BY <2>1, <2>2 DEF VaultInv
<1> QED
  BY <1>1, LoadVaultKeeps, WritingKeeps, SignRecordKeeps, ProgramEndsKeeps DEF VaultNext

\* Key pairs and sealing keys in files, and key pairs in the vault of the software HSM, for any
\* processes, restarts and masters: every record can be verified and read by whoever is up, what
\* is on file fits what is in use, and a pair once stored is kept, unless a secret was made anew
\* over records that needed the old one, which is the named exception.
THEOREM SecretsKeepKeysFit == CustodySpec /\ VaultSpec => KeysFit
<1>1. CustodySpec => []CustodyInv
  BY CustodyStarts, CustodyStep, PTL DEF CustodySpec
<1>2. VaultSpec => []VaultInv
  BY VaultStarts, VaultStep, PTL DEF VaultSpec
<1>3. VaultInv /\ [VaultNext]_vaultVars =>
          [program = "down" /\ program' = "loaded" /\ vault.readable =>
              \A k \in KeyId : HasPrivate(vault.content, k) => sealed'[k] = vault.content[k]]_vaultVars
  <2> SUFFICES ASSUME VaultInv, VaultNext, program = "down", program' = "loaded", vault.readable,
                      NEW k \in KeyId, HasPrivate(vault.content, k)
               PROVE  sealed'[k] = vault.content[k]
    OBVIOUS
  <2>1. PICK m \in Master : \E wanted \in Versions : LoadVault(m, wanted)
    BY DEF VaultNext, EmptyVault, WriteVault, ProgramEnds, SignRecord
  <2> QED BY <2>1, LoadVaultKeeps
<1>4. VaultSpec => PairsAreKept
  BY <1>2, <1>3, PTL DEF VaultSpec, PairsAreKept
<1> QED BY <1>1, <1>2, <1>4, CustodyImplies, VaultImplies, PTL DEF KeysFit
-----------------------------------------------------------------------------
(***************************************************************************)
(* The observers of the journal (module ObserverCopies). LogInv is about   *)
(* the event log and its consumer, MirrorInv about the index mirror. A     *)
(* step of the one leaves the other alone (LogQuiet, MirrorQuiet), so      *)
(* LogStep and MirrorStep say what a step has to show. Covered is why the  *)
(* mirror is complete: what it lacks some replay still owes.               *)
(***************************************************************************)

\* Where the callback is once it is through with the event log.
Past == {"index", "summary", "meta", "out", "done"}
Both == {"record", "tip"}

Holds(es, h, type) == \E i \in DOMAIN es : es[i].height = h /\ es[i].type = type
HoldsNone(es, h) == \A type \in Both : ~Holds(es, h, type)
HoldsBoth(es, h) == \A type \in Both : Holds(es, h, type)

Begun(places) == {h \in AllHeights : places[h] \notin {"none", "stored"}}
Doubled(places) == {h \in AllHeights : places[h] \notin {"none", "stored", "record"}}

\* The events in memory have numbers of their own, up to the counter, and one of them is of
\* a record and a type; the lines are some of them, each written once.
Numbered(es, fs, n) ==
    /\ es \in Seq(Event) /\ fs \in Seq(Event)
    /\ n \in Nat /\ \A i \in DOMAIN es : es[i].seq <= n
    /\ \A i, j \in DOMAIN es : es[i].seq = es[j].seq => i = j
    /\ \A i, j \in DOMAIN es : es[i].height = es[j].height /\ es[i].type = es[j].type => i = j
    /\ \A i \in DOMAIN fs : \E j \in DOMAIN es : fs[i] = es[j]
    /\ \A i, j \in DOMAIN fs : fs[i] = fs[j] => i = j

\* What the log has of a record, by where its callback is.
Written(es, fs, un, h, where) ==
    /\ where \in {"none", "stored"} => HoldsNone(es, h)
    /\ where = "record" =>
          Holds(es, h, "record") /\ ~Holds(es, h, "tip") /\ HoldsNone(fs, h)
    /\ where = "tip" =>
          Holds(fs, h, "record") /\ Holds(es, h, "tip") /\ ~Holds(fs, h, "tip")
    /\ where \in Past => h \in un \/ HoldsBoth(fs, h)

LogSound ==
    /\ Numbered(events, eventFile, seq)
    /\ \A h \in AllHeights : Written(events, eventFile, unheard, h, at[h])
    /\ \A h \in AllHeights : at[h] = "none" <=> h > top
    /\ \A h \in sent : HoldsBoth(eventFile, h)
    /\ seq <= Cardinality(Begun(at)) + Cardinality(Doubled(at))

Follows(es, n, c, g) ==
    /\ c <= n
    /\ Ascending(es)
    /\ \A i \in DOMAIN es : es[i].seq <= c => es[i] \in g

LogInv == LogSound /\ (clouded \/ Follows(events, seq, cursor, got))

\* The records a replay is still to upsert.
Owes(row, n, h) ==
    \/ row.at = "list" /\ h \in 1..n
    \/ row.at \in {"clear", "index"} /\ h \in row.todo
    \/ row.at \in {"summary", "meta"} /\ h \in row.todo \ {Lowest(row.todo)}

ReplayRow == [at : {"idle", "list", "clear", "index", "summary", "meta"}, todo : SUBSET AllHeights]

Rows ==
    \A r \in Replay :
        /\ \A h \in replay[r].todo : h <= top
        /\ replay[r].at \in {"index", "summary", "meta"} => replay[r].todo # {}
        /\ kind = "postgres" => replay[r].at # "clear"

Covered ==
    \A h \in AllHeights : at[h] \in {"summary", "meta", "out", "done"} =>
        h \in index \cup missing \/ \E r \in Replay : Owes(replay[r], top, h)

Tops(S, h) == h \in S /\ \A g \in S : g <= h

\* The heights of the tables, while upserts come one by one and in order.
HeightsKept ==
    /\ \A g, h \in Upserting : g = h
    /\ \A p, r \in Replaying : p = r
    /\ Upserting = {} \/ Replaying = {}
    /\ \A h \in Upserting : Tops(index, h) /\ (at[h] = "meta" => lastHeight = h)
    /\ \A r \in Replaying :
          /\ replay[r].at = "list" => index = {} /\ lastHeight = 0
          /\ replay[r].at = "index" => \A g \in index, h \in replay[r].todo : g < h
          /\ replay[r].at \in {"summary", "meta"} => Tops(index, NextOf(r))
          /\ replay[r].at = "meta" => lastHeight = NextOf(r)
    /\ Upserting = {} /\ Replaying = {} =>
          lastHeight = Highest(index) /\ maxHeight = Highest(index)

MirrorInv ==
    /\ Rows /\ Covered /\ maxHeight <= top
    /\ kind = "postgres" /\ ~crossed => HeightsKept

ObserverInv == ObserverTypeOK /\ LogInv /\ MirrorInv
-----------------------------------------------------------------------------
LEMMA LeastNatural ==
    ASSUME NEW T \in SUBSET Nat, T # {}
    PROVE  \E n \in T : \A m \in T : n <= m
<1> DEFINE R == {p \in Nat \X Nat : p[1] < p[2]}
<1>1. IsWellFoundedOn(R, Nat)
  BY NatLessThanWellFounded DEF OpToRel
<1>2. PICK n \in T : \A m \in T : ~(<<m, n>> \in R)
  BY <1>1, WFMin
<1>3. ASSUME NEW m \in T PROVE n <= m
  <2>1. ~(<<m, n>> \in R)
    BY <1>2
  <2>2. ~(m < n)
    BY <2>1
  <2> QED
    BY <2>2
<1> QED BY <1>3

LEMMA LowestIs ==
    ASSUME NEW T \in SUBSET Nat, T # {}
    PROVE  Lowest(T) \in T /\ \A g \in T : Lowest(T) <= g
BY LeastNatural DEF Lowest

LEMMA HighestIs ==
    ASSUME NEW T \in SUBSET Nat
    PROVE  /\ T = {} => Highest(T) = 0
           /\ \A h : Tops(T, h) => Highest(T) = h
<1>1. T = {} => Highest(T) = 0
  BY DEF Highest
<1>2. ASSUME NEW h, Tops(T, h) PROVE Highest(T) = h
  <2>1. T # {} /\ h \in T /\ \A g \in T : g <= h
    BY <1>2 DEF Tops
  <2> DEFINE x == CHOOSE y \in T : \A g \in T : g <= y
  <2>2. x \in T /\ \A g \in T : g <= x
    BY <2>1
  <2>3. Highest(T) = x
    BY <2>1, Zenon DEF Highest
  <2> HIDE DEF x
  <2>4. x = h
    BY <2>1, <2>2
  <2> QED BY <2>3, <2>4
<1> QED BY <1>1, <1>2

LEMMA HighestExists ==
    ASSUME NEW T \in SUBSET Nat, NEW b \in Nat, T # {}, \A g \in T : g <= b
    PROVE  Tops(T, Highest(T)) /\ Highest(T) \in T
<1> DEFINE D == {b - g : g \in T}
<1>1. D \subseteq Nat /\ D # {}
  <2>1. ASSUME NEW g \in T PROVE b - g \in Nat
    BY <2>1
  <2> QED BY <2>1
<1>2. PICK n \in D : \A m \in D : n <= m
  BY <1>1, LeastNatural
<1>3. PICK h \in T : n = b - h
  BY <1>2
<1>4. ASSUME NEW g \in T PROVE g <= h
  <2>1. n <= b - g
    BY <1>2
  <2> QED BY <2>1, <1>3
<1>5. Tops(T, h)
  BY <1>4 DEF Tops
<1>6. Highest(T) = h
  BY <1>5, HighestIs
<1> QED BY <1>5, <1>6

LEMMA ObserverImplies == ObserverInv => ObserversFollow
<1> SUFFICES ASSUME ObserverInv PROVE ObserversFollow OBVIOUS
<1>1. events \in Seq(Event) /\ eventFile \in Seq(Event)
  BY DEF ObserverInv, LogInv, LogSound, Numbered
<1>2. EventsComplete
  <2> SUFFICES ASSUME NEW h \in AllHeights, at[h] \in Past, h \notin unheard,
                      NEW type \in Both
               PROVE  \E e \in ToSet(events) \cap ToSet(eventFile) : e.height = h /\ e.type = type
    BY DEF EventsComplete, Past, Both
  <2>1. Holds(eventFile, h, type)
    BY DEF ObserverInv, LogInv, LogSound, Written, HoldsBoth
  <2>2. PICK i \in DOMAIN eventFile : eventFile[i].height = h /\ eventFile[i].type = type
    BY <2>1 DEF Holds
  <2>3. PICK j \in DOMAIN events : eventFile[i] = events[j]
    BY DEF ObserverInv, LogInv, LogSound, Numbered
  <2> QED BY <2>2, <2>3 DEF ToSet
<1>3. ConsumerMissesNothing
  BY DEF ObserverInv, LogInv, Follows, ConsumerMissesNothing, ToSet
<1>4. SentIsLogged
  BY DEF ObserverInv, LogInv, LogSound, SentIsLogged, HoldsBoth, Holds, Both, ToSet
<1>5. NumbersAreUnique
  BY DEF ObserverInv, LogInv, LogSound, Numbered, NumbersAreUnique
<1>6. MirrorComplete
  <2> SUFFICES ASSUME Replaying = {}, NEW h \in AllHeights, at[h] \in {"out", "done"}
               PROVE  h \in index \cup missing
    BY DEF MirrorComplete
  <2>1. \A r \in Replay : replay[r].at = "idle"
    BY DEF Replaying
  <2> QED BY <2>1 DEF ObserverInv, MirrorInv, Covered, Owes
<1>7. MaxHeightIsTop
  BY DEF ObserverInv, MirrorInv, HeightsKept, MaxHeightIsTop
<1> QED BY <1>2, <1>3, <1>4, <1>5, <1>6, <1>7 DEF ObserverInv, ObserversFollow

LEMMA ObserverInitInv == ObserverInit => ObserverInv
<1> SUFFICES ASSUME ObserverInit PROVE ObserverInv OBVIOUS
<1> USE ObserverAssumption
<1>1. ObserverTypeOK
  <2>1. \A es \in {events, eventFile} : \A i \in DOMAIN es : es[i] \in Event
    BY DEF ObserverInit
  <2>2. NoReplay \in [at : {"idle", "list", "clear", "index", "summary", "meta"},
                      todo : SUBSET AllHeights]
    BY DEF NoReplay
  <2>3. replay \in [Replay -> [at : {"idle", "list", "clear", "index", "summary", "meta"},
                             todo : SUBSET AllHeights]]
    BY <2>2 DEF ObserverInit
  <2>4. at \in [AllHeights -> {"none", "stored", "record", "tip", "index", "summary",
                          "meta", "out", "done"}]
    BY DEF ObserverInit
  <2>5. seq \in 0..(2 * MaxTop) /\ cursor \in 0..(2 * MaxTop) /\ top \in 0..MaxTop
    BY DEF ObserverInit
  <2>6. {lastHeight, maxHeight} \subseteq 0..MaxTop /\ replays \in 0..MaxReplays /\ cuts \in 0..MaxCuts
    BY DEF ObserverInit
  <2> QED BY <2>1, <2>3, <2>4, <2>5, <2>6 DEF ObserverInit, ObserverTypeOK
<1>2. Numbered(events, eventFile, seq)
  BY DEF ObserverInit, Numbered
<1>3. \A h \in AllHeights : at[h] = "none" /\ (at[h] = "none" <=> h > top)
  BY DEF ObserverInit, AllHeights
<1>4. \A h \in AllHeights : Written(events, eventFile, unheard, h, at[h])
  BY <1>3 DEF ObserverInit, Written, HoldsNone, Holds, Past
<1>5. seq <= Cardinality(Begun(at)) + Cardinality(Doubled(at))
  <2>1. Begun(at) = {} /\ Doubled(at) = {}
    BY <1>3 DEF Begun, Doubled
  <2>2. Cardinality(Begun(at)) = 0 /\ Cardinality(Doubled(at)) = 0
    BY <2>1, FS_EmptySet
  <2>3. seq = 0
    BY DEF ObserverInit
  <2> QED BY <2>2, <2>3
<1>6. LogInv
  BY <1>2, <1>3, <1>4, <1>5 DEF LogInv, LogSound, Follows, Ascending, ObserverInit
<1>7. Upserting = {} /\ Replaying = {}
  BY <1>3 DEF Upserting, Replaying, ObserverInit, NoReplay
<1>8. Rows /\ Covered
  BY <1>3 DEF Rows, Covered, ObserverInit, NoReplay
<1>9. HeightsKept
  BY <1>7, HighestIs DEF HeightsKept, ObserverInit
<1> QED BY <1>1, <1>6, <1>8, <1>9 DEF ObserverInv, MirrorInv, ObserverInit

-----------------------------------------------------------------------------
\* Steps of the mirror leave the log alone.
MirrorMoves(from, to) ==
    \/ to = from
    \/ from \in Past /\ to \in Past

LogAlone ==
    /\ UNCHANGED <<log, consumer, sent, unheard, clouded>>
    /\ top \in Nat /\ top' \in Nat /\ top' = top
    /\ \A h \in AllHeights : MirrorMoves(at[h], at'[h])

LEMMA LogQuiet ==
    ASSUME LogInv, LogAlone
    PROVE  LogInv'
<1>1. UNCHANGED <<seq, events, eventFile, cursor, got, sent, unheard, clouded, top>>
  BY DEF LogAlone, log, consumer
<1>2. \A h \in AllHeights : MirrorMoves(at[h], at'[h])
  BY DEF LogAlone
<1>3. Begun(at)' = Begun(at) /\ Doubled(at)' = Doubled(at)
  BY <1>2 DEF Begun, Doubled, Past, MirrorMoves
<1>4. Numbered(events, eventFile, seq)'
  BY <1>1 DEF LogInv, LogSound
<1>5. (\A h \in AllHeights : Written(events, eventFile, unheard, h, at[h]))'
  <2> SUFFICES ASSUME NEW h \in AllHeights
               PROVE  Written(events, eventFile, unheard, h, at'[h])
    BY <1>1
  <2>1. Written(events, eventFile, unheard, h, at[h])
    BY DEF LogInv, LogSound
  <2>2. CASE at'[h] = at[h]
    BY <2>1, <2>2
  <2>3. CASE at[h] \in Past /\ at'[h] \in Past
    BY <2>1, <2>3 DEF Written, Past
  <2> QED BY <1>2, <2>2, <2>3 DEF MirrorMoves
<1>6. (\A h \in AllHeights : at[h] = "none" <=> h > top)'
  <2>1. \A h \in AllHeights : at[h] = "none" <=> at'[h] = "none"
    BY <1>2 DEF Past, MirrorMoves
  <2> QED BY <1>1, <2>1 DEF LogInv, LogSound
<1>7. (\A h \in sent : HoldsBoth(eventFile, h))'
  BY <1>1 DEF LogInv, LogSound
<1>8. (seq <= Cardinality(Begun(at)) + Cardinality(Doubled(at)))'
  BY <1>1, <1>3 DEF LogInv, LogSound
<1>9. (clouded \/ Follows(events, seq, cursor, got))'
  BY <1>1 DEF LogInv
<1> QED BY <1>4, <1>5, <1>6, <1>7, <1>8, <1>9 DEF LogInv, LogSound

\* Steps of the log leave the mirror alone.
Early == {"none", "stored", "record", "tip", "index"}
LogMoves(from, to) ==
    \/ to = from
    \/ from \in Early /\ to \in Early
    \/ from = "out" /\ to = "done"

MirrorAlone ==
    /\ UNCHANGED mirror
    /\ top \in Nat /\ top' \in Nat /\ top <= top'
    /\ \A h \in AllHeights :
          LogMoves(at[h], at'[h])

LEMMA MirrorQuiet ==
    ASSUME ObserverTypeOK, MirrorInv, MirrorAlone
    PROVE  MirrorInv'
<1>1. UNCHANGED <<kind, index, lastHeight, maxHeight, replay, replays, missing, crossed>>
  BY DEF MirrorAlone, mirror, tables
<1>2. \A h \in AllHeights :
          LogMoves(at[h], at'[h])
  BY DEF MirrorAlone
<1>3. top \in Nat /\ top' \in Nat /\ top <= top'
  BY DEF MirrorAlone
<1>a. \A r \in Replay : replay[r].todo \subseteq 1..MaxTop
  BY DEF ObserverTypeOK, AllHeights
<1>4. Rows'
  <2> SUFFICES ASSUME NEW r \in Replay
               PROVE  /\ \A h \in replay[r].todo : h <= top'
                      /\ replay[r].at \in {"index", "summary", "meta"} => replay[r].todo # {}
                      /\ kind = "postgres" => replay[r].at # "clear"
    BY <1>1 DEF Rows
  <2>1. \A h \in replay[r].todo : h <= top /\ h \in 1..MaxTop
    BY <1>a DEF MirrorInv, Rows
  <2>2. \A h \in replay[r].todo : h <= top'
    BY <1>3, <2>1
  <2> QED BY <2>2 DEF MirrorInv, Rows
<1>5. Covered'
  <2> SUFFICES ASSUME NEW h \in AllHeights, at'[h] \in {"summary", "meta", "out", "done"}
               PROVE  h \in index \cup missing \/ \E r \in Replay : Owes(replay[r], top', h)
    BY <1>1 DEF Covered
  <2>1. at[h] \in {"summary", "meta", "out", "done"}
    BY <1>2 DEF Early, LogMoves
  <2>2. h \in index \cup missing \/ \E r \in Replay : Owes(replay[r], top, h)
    BY <2>1 DEF MirrorInv, Covered
  <2>3. ASSUME NEW r \in Replay, Owes(replay[r], top, h) PROVE Owes(replay[r], top', h)
    <3>1. h \in 1..top => h \in 1..top'
      BY <1>3
    <3> QED BY <2>3, <3>1 DEF Owes
  <2> QED BY <2>2, <2>3
<1>6. (maxHeight <= top)'
  <2>1. maxHeight \in Nat /\ maxHeight <= top
    BY ObserverAssumption DEF MirrorInv, ObserverTypeOK
  <2> QED BY <1>1, <1>3, <2>1
<1>7. Upserting' = Upserting /\ Replaying' = Replaying
  BY <1>1, <1>2 DEF Upserting, Replaying, Early, LogMoves
<1>8. (kind = "postgres" /\ ~crossed => HeightsKept)'
  <2> SUFFICES ASSUME kind = "postgres", ~crossed PROVE HeightsKept'
    BY <1>1
  <2>1. \A h \in Upserting : at'[h] = at[h]
    BY <1>2 DEF Upserting, Early, LogMoves
  <2>2. \A r \in Replay : NextOf(r)' = NextOf(r)
    BY <1>1 DEF NextOf
  <2>3. HeightsKept
    BY DEF MirrorInv
  <2>4. \A r \in Replaying : r \in Replay
    BY DEF Replaying
  <2> QED BY <1>1, <1>7, <2>1, <2>2, <2>3, <2>4 DEF HeightsKept
<1> QED BY <1>4, <1>5, <1>6, <1>8 DEF MirrorInv

-----------------------------------------------------------------------------
Place == {"none", "stored", "record", "tip", "index", "summary", "meta", "out", "done"}

LEMMA HeightTypes ==
    /\ MaxTop \in Nat \ {0} /\ PageLimit \in Nat \ {0} /\ MaxCuts \in Nat /\ MaxReplays \in Nat
    /\ AllHeights = 1..MaxTop
    /\ ObserverTypeOK =>
          /\ top \in Nat /\ top <= MaxTop /\ seq \in Nat /\ cursor \in Nat
          /\ at \in [AllHeights -> Place] /\ clouded \in BOOLEAN /\ cuts \in Nat
          /\ sent \subseteq AllHeights /\ unheard \subseteq AllHeights /\ got \subseteq Event
BY ObserverAssumption DEF ObserverTypeOK, AllHeights, Place

\* A set of heights has room for one it does not have.
LEMMA Room ==
    ASSUME NEW S \in SUBSET AllHeights
    PROVE  /\ IsFiniteSet(S) /\ Cardinality(S) \in Nat /\ Cardinality(S) <= MaxTop
           /\ \A h \in AllHeights \ S : /\ Cardinality(S \cup {h}) = Cardinality(S) + 1
                                        /\ Cardinality(S) + 1 <= MaxTop
           /\ \A h \in AllHeights : Cardinality(S) <= Cardinality(S \cup {h})
<1>1. IsFiniteSet(AllHeights) /\ Cardinality(AllHeights) = MaxTop
  BY HeightTypes, FS_Interval
<1>2. ASSUME NEW T \in SUBSET AllHeights
      PROVE  IsFiniteSet(T) /\ Cardinality(T) \in Nat /\ Cardinality(T) <= MaxTop
  <2>1. IsFiniteSet(T) /\ Cardinality(T) <= Cardinality(AllHeights)
    BY <1>1, FS_Subset
  <2> QED BY <1>1, <2>1, FS_CardinalityType
<1>3. ASSUME NEW h \in AllHeights
      PROVE  /\ h \notin S => Cardinality(S \cup {h}) = Cardinality(S) + 1
             /\ h \in S => Cardinality(S \cup {h}) = Cardinality(S)
             /\ Cardinality(S \cup {h}) \in Nat /\ Cardinality(S \cup {h}) <= MaxTop
  <2>1. S \cup {h} \in SUBSET AllHeights
    OBVIOUS
  <2> QED BY <1>2, <2>1, FS_AddElement
<1>4. Cardinality(S) \in Nat /\ Cardinality(S) <= MaxTop
  BY <1>2
<1>5. MaxTop \in Nat
  BY HeightTypes
<1> QED BY <1>2, <1>3, <1>4, <1>5

LEMMA EventTypes ==
    ASSUME NEW e \in Event
    PROVE  /\ e.seq \in Nat /\ e.seq >= 1 /\ e.seq <= 2 * MaxTop
           /\ e.height \in AllHeights /\ e.type \in Both
BY HeightTypes DEF Event, Both

IsAppended(es, e, es2) == es2 = Append(es, e)

\* An event is published.
LEMMA Published ==
    ASSUME NEW es, NEW fs, NEW n, Numbered(es, fs, n),
           NEW e \in Event, e.seq = n + 1, ~Holds(es, e.height, e.type),
           NEW es2, IsAppended(es, e, es2)
    PROVE  /\ Numbered(es2, fs, n + 1)
           /\ \A k, t : Holds(es2, k, t) <=> Holds(es, k, t) \/ (k = e.height /\ t = e.type)
           /\ \A g : \A c \in Nat : Follows(es, n, c, g) => Follows(es2, n + 1, c, g)
<1>1. es \in Seq(Event) /\ fs \in Seq(Event) /\ n \in Nat
  BY DEF Numbered
<1>2. PICK m \in Nat : m = Len(es)
  BY <1>1
<1>3. /\ es2 \in Seq(Event) /\ Len(es2) = m + 1
      /\ DOMAIN es = 1..m /\ DOMAIN es2 = 1..(m + 1)
      /\ \A i \in 1..m : es2[i] = es[i]
      /\ es2[m + 1] = e
  BY <1>1, <1>2 DEF IsAppended
<1>4. \A i \in 1..(m + 1) : i \in 1..m \/ i = m + 1
  BY <1>2
<1>d. DOMAIN es = 1..m
  BY <1>3
<1>s. \A i \in 1..m : es2[i] = es[i]
  BY <1>3
<1>u. /\ \A i, j \in 1..m : es[i].seq = es[j].seq => i = j
      /\ \A i, j \in 1..m : es[i].height = es[j].height /\ es[i].type = es[j].type => i = j
      /\ \A i \in 1..m : es[i].seq <= n
  BY <1>d DEF Numbered
<1>t. \A i \in 1..m : es[i] \in Event
  BY <1>1, <1>d
<1>5. \A i \in 1..m : es[i] \in Event /\ es[i].seq \in Nat /\ es[i].seq <= n
  BY <1>t, <1>u, EventTypes
<1>6. \A i \in DOMAIN es2 : es2[i].seq <= n + 1
  BY <1>1, <1>3, <1>4, <1>5
<1>7. \A i \in 1..m : es2[i].seq # e.seq
  BY <1>1, <1>3, <1>5
<1>8. \A i, j \in DOMAIN es2 : es2[i].seq = es2[j].seq => i = j
  <2> SUFFICES ASSUME NEW i \in 1..(m + 1), NEW j \in 1..(m + 1), es2[i].seq = es2[j].seq
               PROVE  i = j
    BY <1>3
  <2>1. CASE i \in 1..m /\ j \in 1..m
    BY <1>s, <1>u, <2>1
  <2>2. CASE i = m + 1 /\ j \in 1..m
    BY <1>3, <1>7, <2>2
  <2>3. CASE i \in 1..m /\ j = m + 1
    BY <1>3, <1>7, <2>3
  <2> QED BY <1>4, <2>1, <2>2, <2>3
<1>9. \A i \in 1..m : ~(es2[i].height = e.height /\ es2[i].type = e.type)
  BY <1>3 DEF Holds
<1>10. \A i, j \in DOMAIN es2 :
          es2[i].height = es2[j].height /\ es2[i].type = es2[j].type => i = j
  <2> SUFFICES ASSUME NEW i \in 1..(m + 1), NEW j \in 1..(m + 1),
                      es2[i].height = es2[j].height, es2[i].type = es2[j].type
               PROVE  i = j
    BY <1>3
  <2>1. CASE i \in 1..m /\ j \in 1..m
    BY <1>s, <1>u, <2>1
  <2>2. CASE i = m + 1 /\ j \in 1..m
    BY <1>3, <1>9, <2>2
  <2>3. CASE i \in 1..m /\ j = m + 1
    BY <1>3, <1>9, <2>3
  <2> QED BY <1>4, <2>1, <2>2, <2>3
<1>11. \A i \in DOMAIN fs : \E j \in DOMAIN es2 : fs[i] = es2[j]
  <2> SUFFICES ASSUME NEW i \in DOMAIN fs PROVE \E j \in DOMAIN es2 : fs[i] = es2[j]
    OBVIOUS
  <2>1. PICK j \in DOMAIN es : fs[i] = es[j]
    BY DEF Numbered
  <2>2. j \in DOMAIN es2 /\ es2[j] = es[j]
    BY <1>3, <1>2
  <2> QED BY <2>1, <2>2
<1>12. Numbered(es2, fs, n + 1)
  BY <1>1, <1>3, <1>6, <1>8, <1>10, <1>11 DEF Numbered
<1>13. ASSUME NEW k, NEW t
       PROVE  Holds(es2, k, t) <=> Holds(es, k, t) \/ (k = e.height /\ t = e.type)
  <2>1. m + 1 \in 1..(m + 1) /\ \A i \in 1..m : i \in 1..(m + 1)
    BY <1>2
  <2> QED BY <1>3, <1>4, <2>1 DEF Holds
<1>14. ASSUME NEW c \in Nat, NEW g, Follows(es, n, c, g) PROVE Follows(es2, n + 1, c, g)
  <2>1. c <= n
    BY <1>14 DEF Follows
  <2>2. c <= n + 1
    BY <1>1, <2>1
  <2>3. Ascending(es2)
    <3> SUFFICES ASSUME NEW i \in 1..(m + 1), NEW j \in 1..(m + 1), i < j
                 PROVE  es2[i].seq < es2[j].seq
      BY <1>3 DEF Ascending
    <3>1. i \in 1..m
      BY <1>2
    <3>2. CASE j \in 1..m
      BY <1>3, <1>14, <3>1, <3>2 DEF Follows, Ascending
    <3>3. CASE j = m + 1
      <4>1. es2[i].seq \in Nat /\ es2[i].seq <= n
        BY <1>3, <1>5, <3>1
      <4>2. es2[j].seq = n + 1
        BY <1>3, <3>3
      <4>3. \A a \in Nat : a <= n => a < n + 1
        BY <1>1
      <4> QED BY <4>1, <4>2, <4>3
    <3> QED BY <1>4, <3>2, <3>3
  <2>4. \A i \in DOMAIN es2 : es2[i].seq <= c => es2[i] \in g
    <3> SUFFICES ASSUME NEW i \in 1..(m + 1), es2[i].seq <= c PROVE es2[i] \in g
      BY <1>3
    <3>1. i # m + 1
      <4> SUFFICES ASSUME i = m + 1 PROVE FALSE OBVIOUS
      <4>1. n + 1 <= c
        BY <1>3
      <4> QED BY <1>1, <2>1, <4>1
    <3>2. i \in 1..m
      BY <1>4, <3>1
    <3> QED BY <1>3, <1>14, <3>2 DEF Follows
  <2> QED BY <2>2, <2>3, <2>4 DEF Follows
<1> QED BY <1>12, <1>13, <1>14

\* The line of an event is written.
LEMMA LineWritten ==
    ASSUME NEW es, NEW fs, NEW n, Numbered(es, fs, n),
           NEW j \in DOMAIN es, ~Holds(fs, es[j].height, es[j].type),
           NEW fs2, IsAppended(fs, es[j], fs2)
    PROVE  /\ Numbered(es, fs2, n)
           /\ \A k, t : Holds(fs2, k, t) <=>
                            Holds(fs, k, t) \/ (k = es[j].height /\ t = es[j].type)
<1>1. es \in Seq(Event) /\ fs \in Seq(Event) /\ es[j] \in Event
  BY DEF Numbered
<1>2. PICK m \in Nat : m = Len(fs)
  BY <1>1
<1>3. /\ fs2 \in Seq(Event)
      /\ DOMAIN fs = 1..m /\ DOMAIN fs2 = 1..(m + 1)
      /\ \A i \in 1..m : fs2[i] = fs[i]
      /\ fs2[m + 1] = es[j]
  BY <1>1, <1>2 DEF IsAppended
<1>4. \A i \in 1..(m + 1) : i \in 1..m \/ i = m + 1
  BY <1>2
<1>5. \A i \in 1..m : fs2[i] # es[j]
  BY <1>3 DEF Holds
<1>6. \A i, l \in DOMAIN fs2 : fs2[i] = fs2[l] => i = l
  BY <1>3, <1>4, <1>5 DEF Numbered
<1>7. \A i \in DOMAIN fs2 : \E l \in DOMAIN es : fs2[i] = es[l]
  BY <1>3, <1>4 DEF Numbered
<1>8. Numbered(es, fs2, n)
  BY <1>3, <1>6, <1>7 DEF Numbered
<1>9. ASSUME NEW k, NEW t
      PROVE  Holds(fs2, k, t) <=> Holds(fs, k, t) \/ (k = es[j].height /\ t = es[j].type)
  <2>1. m + 1 \in 1..(m + 1) /\ \A i \in 1..m : i \in 1..(m + 1)
    BY <1>2
  <2> QED BY <1>3, <1>4, <2>1 DEF Holds
<1> QED BY <1>8, <1>9

\* What is in the lines is in memory; the callback finds its own event there.
LEMMA LinesInMemory ==
    ASSUME NEW es, NEW fs, NEW n, Numbered(es, fs, n)
    PROVE  \A k, t : Holds(fs, k, t) => Holds(es, k, t)
<1> SUFFICES ASSUME NEW k, NEW t, Holds(fs, k, t) PROVE Holds(es, k, t) OBVIOUS
<1>1. PICK i \in DOMAIN fs : fs[i].height = k /\ fs[i].type = t
  BY DEF Holds
<1>2. PICK j \in DOMAIN es : fs[i] = es[j]
  BY DEF Numbered
<1> QED BY <1>1, <1>2 DEF Holds

LEMMA OwnEvent ==
    ASSUME NEW h, NEW type, Holds(events, h, type)
    PROVE  \E j \in DOMAIN events : /\ EventOf(h, type) = events[j]
                                    /\ events[j].height = h /\ events[j].type = type
<1>1. \E e \in ToSet(events) : e.height = h /\ e.type = type
  BY DEF Holds, ToSet
<1>2. EventOf(h, type) \in ToSet(events)
      /\ EventOf(h, type).height = h /\ EventOf(h, type).type = type
  BY <1>1 DEF EventOf
<1> QED BY <1>2 DEF ToSet

\* What the log has of a record depends on its own events alone.
LEMMA WrittenSame ==
    ASSUME NEW es, NEW fs, NEW un, NEW es2, NEW fs2, NEW un2, NEW k, NEW w,
           Written(es, fs, un, k, w),
           \A t \in Both : Holds(es2, k, t) <=> Holds(es, k, t),
           \A t \in Both : Holds(fs2, k, t) <=> Holds(fs, k, t),
           k \in un => k \in un2
    PROVE  Written(es2, fs2, un2, k, w)
BY DEF Written, HoldsNone, HoldsBoth, Both

-----------------------------------------------------------------------------
LogTyped ==
    /\ top \in 0..MaxTop /\ at \in [AllHeights -> Place]
    /\ seq \in 0..(2 * MaxTop)
    /\ \A i \in DOMAIN events : events[i] \in Event
    /\ \A i \in DOMAIN eventFile : eventFile[i] \in Event
    /\ cursor \in 0..(2 * MaxTop) /\ got \subseteq Event
    /\ sent \subseteq AllHeights /\ unheard \subseteq AllHeights
    /\ cuts \in 0..MaxCuts /\ clouded \in BOOLEAN

MirrorTyped ==
    /\ kind \in {"memory", "postgres"}
    /\ index \subseteq AllHeights /\ missing \subseteq AllHeights
    /\ lastHeight \in 0..MaxTop /\ maxHeight \in 0..MaxTop
    /\ replay \in [Replay -> ReplayRow] /\ replays \in 0..MaxReplays
    /\ crossed \in BOOLEAN

LEMMA TypeParts ==
    /\ ObserverTypeOK <=> LogTyped /\ MirrorTyped
    /\ ObserverTypeOK' <=> LogTyped' /\ MirrorTyped'
<1>1. ObserverTypeOK <=> LogTyped /\ MirrorTyped
  BY DEF ObserverTypeOK, LogTyped, MirrorTyped, Place, ReplayRow
<1>2. ObserverTypeOK' <=> LogTyped' /\ MirrorTyped'
  BY DEF ObserverTypeOK, LogTyped, MirrorTyped, Place, ReplayRow
<1> QED BY <1>1, <1>2

LEMMA GoesThere ==
    ASSUME ObserverTypeOK, NEW h \in AllHeights, NEW w \in Place, Goes(h, w)
    PROVE  /\ at' \in [AllHeights -> Place] /\ at'[h] = w
           /\ \A k \in AllHeights : k # h => at'[k] = at[k]
BY HeightTypes DEF Goes

\* What a step of the log has to show.
LEMMA LogStep ==
    ASSUME ObserverInv, LogTyped', LogInv', UNCHANGED mirror, top <= top',
           \A h \in AllHeights : LogMoves(at[h], at'[h])
    PROVE  ObserverInv'
<1>1. MirrorTyped'
  BY TypeParts DEF ObserverInv, MirrorTyped, mirror, tables
<1>2. top \in Nat /\ top' \in Nat
  BY HeightTypes, TypeParts DEF LogTyped, ObserverInv
<1>3. MirrorAlone
  BY <1>2 DEF MirrorAlone
<1> QED BY <1>1, <1>3, TypeParts, MirrorQuiet DEF ObserverInv

LEMMA AppendRecordKeeps == ASSUME ObserverInv, AppendRecord PROVE ObserverInv'
<1>1. top \in 0..MaxTop /\ top < MaxTop /\ top + 1 \in AllHeights /\ top' = top + 1
  BY HeightTypes, TypeParts DEF ObserverInv, AppendRecord, LogTyped
<1>2. UNCHANGED <<seq, events, eventFile, cursor, got, sent, cuts, unheard, clouded>>
  BY DEF AppendRecord, log, consumer
<1>3. PICK t : t = top + 1
  OBVIOUS
<1>4. t \in AllHeights /\ Goes(t, "stored") /\ "stored" \in Place /\ ObserverTypeOK
  BY <1>1, <1>3 DEF AppendRecord, Place, ObserverInv
<1>5. /\ at' \in [AllHeights -> Place] /\ at'[t] = "stored"
      /\ \A k \in AllHeights : k # t => at'[k] = at[k]
  BY <1>4, GoesThere
<1>6. \A k \in AllHeights : at[k] = "none" <=> k > top
  BY DEF ObserverInv, LogInv, LogSound
<1>7. at[t] = "none"
  BY <1>1, <1>3, <1>4, <1>6
<1>8. LogTyped'
  <2>1. LogTyped
    BY TypeParts DEF ObserverInv
  <2>2. top' \in 0..MaxTop
    BY <1>1, HeightTypes
  <2> QED BY <1>2, <1>5, <2>1, <2>2 DEF LogTyped
<1>9. (\A k \in AllHeights : Written(events, eventFile, unheard, k, at[k]))'
  <2> SUFFICES ASSUME NEW k \in AllHeights PROVE Written(events, eventFile, unheard, k, at'[k])
    BY <1>2
  <2>1. Written(events, eventFile, unheard, k, at[k])
    BY DEF ObserverInv, LogInv, LogSound
  <2>2. CASE k = t
    BY <1>5, <1>7, <2>1, <2>2 DEF Written, Past
  <2> QED BY <1>5, <2>1, <2>2
<1>10. (\A k \in AllHeights : at[k] = "none" <=> k > top)'
  <2> SUFFICES ASSUME NEW k \in AllHeights PROVE at'[k] = "none" <=> k > top'
    OBVIOUS
  <2>1. k \in Nat
    BY HeightTypes
  <2>2. CASE k = t
    BY <1>1, <1>3, <1>5, <2>2
  <2>3. CASE k # t
    BY <1>1, <1>3, <1>5, <1>6, <2>1, <2>3
  <2> QED BY <2>2, <2>3
<1>11. Begun(at)' = Begun(at) /\ Doubled(at)' = Doubled(at)
  BY <1>5, <1>7 DEF Begun, Doubled
<1>12. LogInv'
  BY <1>2, <1>9, <1>10, <1>11 DEF ObserverInv, LogInv, LogSound
<1>13. UNCHANGED mirror
  BY DEF AppendRecord
<1>14. top <= top'
  BY <1>1
<1>15. \A h \in AllHeights : LogMoves(at[h], at'[h])
  BY <1>5, <1>7 DEF Early, LogMoves
<1> QED BY <1>8, <1>12, <1>13, <1>14, <1>15, LogStep

LEMMA CallBackKeeps == ASSUME ObserverInv, NEW h \in AllHeights, CallBack(h) PROVE ObserverInv'
<1>1. at[h] = "stored" /\ Goes(h, "record") /\ "record" \in Place /\ ObserverTypeOK
  BY DEF CallBack, Publish, Place, ObserverInv
<1>2. UNCHANGED <<top, eventFile, cursor, got, sent, cuts, unheard, clouded>> /\ UNCHANGED mirror
  BY DEF CallBack, consumer
<1>3. /\ at' \in [AllHeights -> Place] /\ at'[h] = "record"
      /\ \A k \in AllHeights : k # h => at'[k] = at[k]
  BY <1>1, GoesThere
<1>4. /\ Numbered(events, eventFile, seq)
      /\ \A k \in AllHeights : Written(events, eventFile, unheard, k, at[k])
      /\ \A k \in AllHeights : at[k] = "none" <=> k > top
      /\ \A k \in sent : HoldsBoth(eventFile, k)
      /\ seq <= Cardinality(Begun(at)) + Cardinality(Doubled(at))
      /\ clouded \/ Follows(events, seq, cursor, got)
      /\ seq \in Nat /\ cursor \in Nat /\ MaxTop \in Nat
  BY <1>1, HeightTypes DEF ObserverInv, LogInv, LogSound
<1>5. HoldsNone(events, h)
  BY <1>1, <1>4 DEF Written
<1>6. PICK e : e = [seq |-> seq + 1, height |-> h, type |-> "record"]
  OBVIOUS
<1>7. IsAppended(events, e, events') /\ seq' = seq + 1
  BY <1>6 DEF IsAppended, CallBack, Publish
<1>8. /\ Begun(at') = Begun(at) \cup {h} /\ Doubled(at') = Doubled(at)
      /\ h \notin Begun(at)
      /\ Begun(at) \in SUBSET AllHeights /\ Doubled(at) \in SUBSET AllHeights
  BY <1>1, <1>3 DEF Begun, Doubled
<1>9. PICK b \in Nat, d \in Nat : b = Cardinality(Begun(at)) /\ d = Cardinality(Doubled(at))
  BY <1>8, Room
<1>10. Cardinality(Begun(at')) = b + 1 /\ b + 1 <= MaxTop /\ d <= MaxTop
  BY <1>8, <1>9, Room
<1>11. seq + 1 <= (b + 1) + d /\ seq + 1 \in 1..(2 * MaxTop)
  BY <1>4, <1>9, <1>10
<1>12. e \in Event /\ e.seq = seq + 1 /\ e.height = h /\ e.type = "record"
  BY <1>6, <1>11 DEF Event
<1>13. ~Holds(events, e.height, e.type)
  BY <1>5, <1>12 DEF HoldsNone, Both
<1>14. /\ Numbered(events', eventFile, seq + 1)
       /\ \A k, t : Holds(events', k, t) <=> Holds(events, k, t) \/ (k = e.height /\ t = e.type)
       /\ \A g : \A c \in Nat : Follows(events, seq, c, g) => Follows(events', seq + 1, c, g)
  BY <1>4, <1>7, <1>12, <1>13, Published
<1>15. LogTyped'
  <2>1. LogTyped
    BY <1>1, TypeParts
  <2>2. seq' \in 0..(2 * MaxTop)
    BY <1>7, <1>11
  <2>3. \A i \in DOMAIN events' : events'[i] \in Event
    BY <1>14 DEF Numbered
  <2> QED BY <1>2, <1>3, <2>1, <2>2, <2>3 DEF LogTyped
<1>16. (\A k \in AllHeights : Written(events, eventFile, unheard, k, at[k]))'
  <2> SUFFICES ASSUME NEW k \in AllHeights PROVE Written(events', eventFile, unheard, k, at'[k])
    BY <1>2
  <2>1. CASE k = h
    <3>1. Holds(events', h, "record") /\ ~Holds(events', h, "tip")
      BY <1>5, <1>12, <1>14 DEF HoldsNone, Both
    <3>2. HoldsNone(eventFile, h)
      BY <1>4, <1>5, LinesInMemory DEF HoldsNone
    <3> QED BY <1>3, <2>1, <3>1, <3>2 DEF Written, Past
  <2>2. CASE k # h
    BY <1>3, <1>4, <1>12, <1>14, <2>2, WrittenSame
  <2> QED BY <2>1, <2>2
<1>17. (\A k \in AllHeights : at[k] = "none" <=> k > top)'
  BY <1>1, <1>2, <1>3, <1>4
<1>18. (seq <= Cardinality(Begun(at)) + Cardinality(Doubled(at)))'
  BY <1>7, <1>8, <1>9, <1>10, <1>11
<1>19. (clouded \/ Follows(events, seq, cursor, got))'
  BY <1>2, <1>4, <1>7, <1>14
<1>20. LogInv'
  BY <1>2, <1>4, <1>7, <1>14, <1>16, <1>17, <1>18, <1>19 DEF LogInv, LogSound
<1>21. top <= top'
  BY <1>1, <1>2, HeightTypes
<1>22. \A k \in AllHeights : LogMoves(at[k], at'[k])
  BY <1>1, <1>3 DEF Early, LogMoves
<1> QED BY <1>2, <1>15, <1>20, <1>21, <1>22, LogStep

LEMMA WriteRecordEventKeeps ==
    ASSUME ObserverInv, NEW h \in AllHeights, WriteRecordEvent(h) PROVE ObserverInv'
<1>1. at[h] = "record" /\ Goes(h, "tip") /\ "tip" \in Place /\ ObserverTypeOK
  BY DEF WriteRecordEvent, Publish, Place, ObserverInv
<1>2. UNCHANGED <<top, cursor, got, sent, cuts, unheard, clouded>> /\ UNCHANGED mirror
  BY DEF WriteRecordEvent, consumer
<1>3. /\ at' \in [AllHeights -> Place] /\ at'[h] = "tip"
      /\ \A k \in AllHeights : k # h => at'[k] = at[k]
  BY <1>1, GoesThere
<1>4. /\ Numbered(events, eventFile, seq)
      /\ \A k \in AllHeights : Written(events, eventFile, unheard, k, at[k])
      /\ \A k \in AllHeights : at[k] = "none" <=> k > top
      /\ \A k \in sent : HoldsBoth(eventFile, k)
      /\ seq <= Cardinality(Begun(at)) + Cardinality(Doubled(at))
      /\ clouded \/ Follows(events, seq, cursor, got)
      /\ seq \in Nat /\ cursor \in Nat /\ MaxTop \in Nat
  BY <1>1, HeightTypes DEF ObserverInv, LogInv, LogSound
<1>5. Holds(events, h, "record") /\ ~Holds(events, h, "tip") /\ HoldsNone(eventFile, h)
  BY <1>1, <1>4 DEF Written
<1>6. PICK e : e = [seq |-> seq + 1, height |-> h, type |-> "tip"]
  OBVIOUS
<1>7. /\ IsAppended(events, e, events') /\ seq' = seq + 1
      /\ IsAppended(eventFile, EventOf(h, "record"), eventFile')
  BY <1>6 DEF IsAppended, WriteRecordEvent, Publish
<1>8. /\ Begun(at') = Begun(at) /\ Doubled(at') = Doubled(at) \cup {h}
      /\ h \notin Doubled(at)
      /\ Begun(at) \in SUBSET AllHeights /\ Doubled(at) \in SUBSET AllHeights
  BY <1>1, <1>3 DEF Begun, Doubled
<1>9. PICK b \in Nat, d \in Nat : b = Cardinality(Begun(at)) /\ d = Cardinality(Doubled(at))
  BY <1>8, Room
<1>10. Cardinality(Doubled(at')) = d + 1 /\ d + 1 <= MaxTop /\ b <= MaxTop
  BY <1>8, <1>9, Room
<1>11. seq + 1 <= b + (d + 1) /\ seq + 1 \in 1..(2 * MaxTop)
  BY <1>4, <1>9, <1>10
<1>12. e \in Event /\ e.seq = seq + 1 /\ e.height = h /\ e.type = "tip"
  BY <1>6, <1>11 DEF Event
<1>a. PICK j \in DOMAIN events : /\ EventOf(h, "record") = events[j]
                                 /\ events[j].height = h /\ events[j].type = "record"
  BY <1>5, OwnEvent
<1>b. ~Holds(eventFile, events[j].height, events[j].type)
  BY <1>5, <1>a DEF HoldsNone, Both
<1>c. /\ Numbered(events, eventFile', seq)
      /\ \A k, t : Holds(eventFile', k, t) <=> Holds(eventFile, k, t) \/ (k = h /\ t = "record")
  BY <1>4, <1>7, <1>a, <1>b, LineWritten
<1>14. /\ Numbered(events', eventFile', seq + 1)
       /\ \A k, t : Holds(events', k, t) <=> Holds(events, k, t) \/ (k = e.height /\ t = e.type)
       /\ \A g : \A c \in Nat : Follows(events, seq, c, g) => Follows(events', seq + 1, c, g)
  <2>1. ~Holds(events, e.height, e.type)
    BY <1>5, <1>12
  <2> QED BY <1>7, <1>12, <1>c, <2>1, Published
<1>15. LogTyped'
  <2>1. LogTyped
    BY <1>1, TypeParts
  <2>2. seq' \in 0..(2 * MaxTop)
    BY <1>7, <1>11
  <2>3. /\ \A i \in DOMAIN events' : events'[i] \in Event
        /\ \A i \in DOMAIN eventFile' : eventFile'[i] \in Event
    BY <1>14 DEF Numbered
  <2> QED BY <1>2, <1>3, <2>1, <2>2, <2>3 DEF LogTyped
<1>16. (\A k \in AllHeights : Written(events, eventFile, unheard, k, at[k]))'
  <2> SUFFICES ASSUME NEW k \in AllHeights PROVE Written(events', eventFile', unheard, k, at'[k])
    BY <1>2
  <2>1. CASE k = h
    <3>1. Holds(events', h, "tip")
      BY <1>12, <1>14
    <3>2. Holds(eventFile', h, "record") /\ ~Holds(eventFile', h, "tip")
      BY <1>5, <1>c DEF HoldsNone, Both
    <3> QED BY <1>3, <2>1, <3>1, <3>2 DEF Written, Past
  <2>2. CASE k # h
    BY <1>3, <1>4, <1>12, <1>14, <1>c, <2>2, WrittenSame
  <2> QED BY <2>1, <2>2
<1>17. (\A k \in AllHeights : at[k] = "none" <=> k > top)'
  BY <1>1, <1>2, <1>3, <1>4
<1>18. (seq <= Cardinality(Begun(at)) + Cardinality(Doubled(at)))'
  BY <1>7, <1>8, <1>9, <1>10, <1>11
<1>19. (clouded \/ Follows(events, seq, cursor, got))'
  BY <1>2, <1>4, <1>7, <1>14
<1>d. (\A k \in sent : HoldsBoth(eventFile, k))'
  BY <1>2, <1>4, <1>c DEF HoldsBoth
<1>20. LogInv'
  BY <1>7, <1>14, <1>16, <1>17, <1>18, <1>19, <1>d DEF LogInv, LogSound
<1>21. top <= top'
  BY <1>1, <1>2, HeightTypes
<1>22. \A k \in AllHeights : LogMoves(at[k], at'[k])
  BY <1>1, <1>3 DEF Early, LogMoves
<1> QED BY <1>2, <1>15, <1>20, <1>21, <1>22, LogStep

LEMMA WriteTipEventKeeps ==
    ASSUME ObserverInv, NEW h \in AllHeights, WriteTipEvent(h) PROVE ObserverInv'
<1>1. at[h] = "tip" /\ Goes(h, "index") /\ "index" \in Place /\ ObserverTypeOK
  BY DEF WriteTipEvent, Place, ObserverInv
<1>2. UNCHANGED <<top, seq, events, cursor, got, sent, cuts, unheard, clouded>> /\ UNCHANGED mirror
  BY DEF WriteTipEvent, consumer
<1>3. /\ at' \in [AllHeights -> Place] /\ at'[h] = "index"
      /\ \A k \in AllHeights : k # h => at'[k] = at[k]
  BY <1>1, GoesThere
<1>4. /\ Numbered(events, eventFile, seq)
      /\ \A k \in AllHeights : Written(events, eventFile, unheard, k, at[k])
      /\ \A k \in AllHeights : at[k] = "none" <=> k > top
      /\ \A k \in sent : HoldsBoth(eventFile, k)
      /\ seq <= Cardinality(Begun(at)) + Cardinality(Doubled(at))
      /\ clouded \/ Follows(events, seq, cursor, got)
      /\ seq \in Nat /\ cursor \in Nat /\ MaxTop \in Nat
  BY <1>1, HeightTypes DEF ObserverInv, LogInv, LogSound
<1>5. Holds(eventFile, h, "record") /\ Holds(events, h, "tip") /\ ~Holds(eventFile, h, "tip")
  BY <1>1, <1>4 DEF Written
<1>6. IsAppended(eventFile, EventOf(h, "tip"), eventFile')
  BY DEF WriteTipEvent, IsAppended
<1>7. PICK j \in DOMAIN events : /\ EventOf(h, "tip") = events[j]
                                 /\ events[j].height = h /\ events[j].type = "tip"
  BY <1>5, OwnEvent
<1>8. ~Holds(eventFile, events[j].height, events[j].type)
  BY <1>5, <1>7
<1>9. /\ Numbered(events, eventFile', seq)
      /\ \A k, t : Holds(eventFile', k, t) <=> Holds(eventFile, k, t) \/ (k = h /\ t = "tip")
  BY <1>4, <1>6, <1>7, <1>8, LineWritten
<1>10. Begun(at') = Begun(at) /\ Doubled(at') = Doubled(at)
  BY <1>1, <1>3 DEF Begun, Doubled
<1>15. LogTyped'
  <2>1. LogTyped
    BY <1>1, TypeParts
  <2>2. \A i \in DOMAIN eventFile' : eventFile'[i] \in Event
    BY <1>9 DEF Numbered
  <2> QED BY <1>2, <1>3, <2>1, <2>2 DEF LogTyped
<1>16. (\A k \in AllHeights : Written(events, eventFile, unheard, k, at[k]))'
  <2> SUFFICES ASSUME NEW k \in AllHeights PROVE Written(events, eventFile', unheard, k, at'[k])
    BY <1>2
  <2>1. CASE k = h
    <3>1. HoldsBoth(eventFile', h)
      BY <1>5, <1>9 DEF HoldsBoth, Both
    <3> QED BY <1>3, <2>1, <3>1 DEF Written, Past
  <2>2. CASE k # h
    BY <1>3, <1>4, <1>9, <2>2, WrittenSame
  <2> QED BY <2>1, <2>2
<1>17. (\A k \in AllHeights : at[k] = "none" <=> k > top)'
  BY <1>1, <1>2, <1>3, <1>4
<1>18. (\A k \in sent : HoldsBoth(eventFile, k))'
  BY <1>2, <1>4, <1>9 DEF HoldsBoth
<1>20. LogInv'
  BY <1>2, <1>4, <1>9, <1>10, <1>16, <1>17, <1>18 DEF LogInv, LogSound
<1>21. top <= top'
  BY <1>1, <1>2, HeightTypes
<1>22. \A k \in AllHeights : LogMoves(at[k], at'[k])
  BY <1>1, <1>3 DEF Early, LogMoves
<1> QED BY <1>2, <1>15, <1>20, <1>21, <1>22, LogStep

LEMMA EventFailsKeeps ==
    ASSUME ObserverInv, NEW h \in AllHeights, EventFails(h) PROVE ObserverInv'
<1>1. at[h] \in {"record", "tip"} /\ Goes(h, "index") /\ "index" \in Place /\ ObserverTypeOK
  BY DEF EventFails, Place, ObserverInv
<1>2. /\ UNCHANGED <<top, seq, events, eventFile, cursor, got, sent, clouded>>
      /\ UNCHANGED mirror
      /\ unheard' = unheard \cup {h}
  BY DEF EventFails, consumer, log
<1>3. /\ at' \in [AllHeights -> Place] /\ at'[h] = "index"
      /\ \A k \in AllHeights : k # h => at'[k] = at[k]
  BY <1>1, GoesThere
<1>4. /\ Numbered(events, eventFile, seq)
      /\ \A k \in AllHeights : Written(events, eventFile, unheard, k, at[k])
      /\ \A k \in AllHeights : at[k] = "none" <=> k > top
      /\ \A k \in sent : HoldsBoth(eventFile, k)
      /\ seq <= Cardinality(Begun(at)) + Cardinality(Doubled(at))
      /\ clouded \/ Follows(events, seq, cursor, got)
      /\ seq \in Nat /\ cursor \in Nat /\ MaxTop \in Nat
  BY <1>1, HeightTypes DEF ObserverInv, LogInv, LogSound
<1>8. /\ Begun(at') = Begun(at) /\ Doubled(at') = Doubled(at) \cup {h}
      /\ Begun(at) \in SUBSET AllHeights /\ Doubled(at) \in SUBSET AllHeights
      /\ Doubled(at') \in SUBSET AllHeights
  BY <1>1, <1>3 DEF Begun, Doubled
<1>9. PICK b \in Nat, d \in Nat, d2 \in Nat :
          b = Cardinality(Begun(at)) /\ d = Cardinality(Doubled(at)) /\ d2 = Cardinality(Doubled(at'))
  BY <1>8, Room
<1>10. d <= d2
  BY <1>8, <1>9, Room
<1>15. LogTyped'
  <2>1. LogTyped
    BY <1>1, TypeParts
  <2>2. cuts' \in 0..MaxCuts
    BY <2>1, HeightTypes DEF EventFails, Cut, LogTyped
  <2> QED BY <1>2, <1>3, <2>1, <2>2 DEF LogTyped
<1>16. (\A k \in AllHeights : Written(events, eventFile, unheard, k, at[k]))'
  <2> SUFFICES ASSUME NEW k \in AllHeights PROVE Written(events, eventFile, unheard', k, at'[k])
    BY <1>2
  <2>1. CASE k = h
    BY <1>2, <1>3, <2>1 DEF Written, Past
  <2>2. CASE k # h
    BY <1>2, <1>3, <1>4, <2>2, WrittenSame
  <2> QED BY <2>1, <2>2
<1>17. (\A k \in AllHeights : at[k] = "none" <=> k > top)'
  BY <1>1, <1>2, <1>3, <1>4
<1>18. seq <= b + d2
  BY <1>4, <1>9, <1>10
<1>20. LogInv'
  BY <1>2, <1>4, <1>8, <1>9, <1>16, <1>17, <1>18 DEF LogInv, LogSound
<1>21. top <= top'
  BY <1>1, <1>2, HeightTypes
<1>22. \A k \in AllHeights : LogMoves(at[k], at'[k])
  BY <1>1, <1>3 DEF Early, LogMoves
<1> QED BY <1>2, <1>15, <1>20, <1>21, <1>22, LogStep

LEMMA NotifyKeeps ==
    ASSUME ObserverInv, NEW h \in AllHeights, Notify(h) PROVE ObserverInv'
<1>1. at[h] = "out" /\ Goes(h, "done") /\ "done" \in Place /\ ObserverTypeOK
  BY DEF Notify, Place, ObserverInv
<1>2. /\ UNCHANGED <<top, seq, events, eventFile, cursor, got, cuts, unheard, clouded>>
      /\ UNCHANGED mirror
      /\ sent' = IF h \in unheard THEN sent ELSE sent \cup {h}
  BY DEF Notify, consumer, log
<1>3. /\ at' \in [AllHeights -> Place] /\ at'[h] = "done"
      /\ \A k \in AllHeights : k # h => at'[k] = at[k]
  BY <1>1, GoesThere
<1>4. /\ Numbered(events, eventFile, seq)
      /\ \A k \in AllHeights : Written(events, eventFile, unheard, k, at[k])
      /\ \A k \in AllHeights : at[k] = "none" <=> k > top
      /\ \A k \in sent : HoldsBoth(eventFile, k)
      /\ seq <= Cardinality(Begun(at)) + Cardinality(Doubled(at))
      /\ clouded \/ Follows(events, seq, cursor, got)
      /\ seq \in Nat /\ cursor \in Nat /\ MaxTop \in Nat
  BY <1>1, HeightTypes DEF ObserverInv, LogInv, LogSound
<1>10. Begun(at') = Begun(at) /\ Doubled(at') = Doubled(at)
  BY <1>1, <1>3 DEF Begun, Doubled
<1>15. LogTyped'
  <2>1. LogTyped
    BY <1>1, TypeParts
  <2> QED BY <1>2, <1>3, <2>1 DEF LogTyped
<1>a. h \in unheard \/ HoldsBoth(eventFile, h)
  BY <1>1, <1>4 DEF Written, Past
<1>16. (\A k \in AllHeights : Written(events, eventFile, unheard, k, at[k]))'
  <2> SUFFICES ASSUME NEW k \in AllHeights PROVE Written(events, eventFile, unheard, k, at'[k])
    BY <1>2
  <2>1. CASE k = h
    BY <1>a, <1>3, <2>1 DEF Written, Past
  <2>2. CASE k # h
    BY <1>3, <1>4, <2>2
  <2> QED BY <2>1, <2>2
<1>17. (\A k \in AllHeights : at[k] = "none" <=> k > top)'
  BY <1>1, <1>2, <1>3, <1>4
<1>18. (\A k \in sent : HoldsBoth(eventFile, k))'
  BY <1>a, <1>2, <1>4
<1>20. LogInv'
  BY <1>2, <1>4, <1>10, <1>16, <1>17, <1>18 DEF LogInv, LogSound
<1>21. top <= top'
  BY <1>1, <1>2, HeightTypes
<1>22. \A k \in AllHeights : LogMoves(at[k], at'[k])
  BY <1>1, <1>3 DEF Early, LogMoves
<1> QED BY <1>2, <1>15, <1>20, <1>21, <1>22, LogStep

Later(es, c) == {i \in DOMAIN es : es[i].seq > c}
Page(later) == {i \in later : Cardinality({j \in later : j <= i}) <= PageLimit}

\* A poll shows the next events after the cursor, and moves it to the last one shown.
LEMMA PollFollows ==
    ASSUME NEW es \in Seq(Event), NEW n \in Nat, \A i \in DOMAIN es : es[i].seq <= n,
           NEW c \in Nat, NEW g,
           NEW later, later = Later(es, c), later # {},
           NEW shown, shown = Page(later)
    PROVE  /\ Highest(shown) \in DOMAIN es
           /\ Follows(es, n, c, g) =>
                 Follows(es, n, es[Highest(shown)].seq, g \cup {es[i] : i \in shown})
<1> USE DEF Later, Page
<1>1. PICK len \in Nat : len = Len(es) /\ DOMAIN es = 1..len
  OBVIOUS
<1>2. later \in SUBSET (1..len) /\ later \in SUBSET Nat /\ shown \in SUBSET Nat
      /\ shown \subseteq later
  BY <1>1
<1>3. IsFiniteSet(1..len)
  BY <1>1, FS_Interval
<1>4. ASSUME NEW T \in SUBSET (1..len) PROVE IsFiniteSet(T) /\ Cardinality(T) \in Nat
  BY <1>3, FS_Subset, FS_CardinalityType
<1>5. Lowest(later) \in shown
  <2>1. PICK l \in later : l = Lowest(later) /\ \A k \in later : l <= k
    BY <1>2, LowestIs
  <2>a. \A j \in later : j \in Nat /\ l <= j
    BY <1>2, <2>1
  <2>b. ASSUME NEW j \in later PROVE j <= l <=> j = l
    <3>1. j \in Nat /\ l \in Nat /\ l <= j
      BY <2>a
    <3> HIDE DEF Later, Page
    <3> QED BY <3>1
  <2>2. {j \in later : j <= l} = {l}
    BY <2>1, <2>b
  <2>3. Cardinality({j \in later : j <= l}) = 1
    BY <2>2, FS_Singleton
  <2>4. 1 <= PageLimit
    BY HeightTypes
  <2> QED BY <2>1, <2>3, <2>4
<1>6. PICK m \in shown : m = Highest(shown) /\ \A k \in shown : k <= m
  <2>1. \A k \in shown : k <= len
    BY <1>1, <1>2
  <2>2. shown # {}
    BY <1>5
  <2>3. Tops(shown, Highest(shown)) /\ Highest(shown) \in shown
    BY <1>1, <1>2, <2>1, <2>2, HighestExists
  <2> QED BY <2>3 DEF Tops
<1>7. m \in 1..len /\ m \in later /\ m \in DOMAIN es
  BY <1>1, <1>2
<1>8. \A i \in 1..len : es[i] \in Event /\ es[i].seq \in Nat
  BY <1>1, EventTypes
<1>9. ASSUME Follows(es, n, c, g)
      PROVE  Follows(es, n, es[m].seq, g \cup {es[i] : i \in shown})
  <2>1. es[m].seq <= n
    BY <1>7
  <2>2. Ascending(es)
    BY <1>9 DEF Follows
  <2>3. ASSUME NEW i \in DOMAIN es, es[i].seq <= es[m].seq
        PROVE  es[i] \in g \cup {es[k] : k \in shown}
    <3>1. CASE es[i].seq <= c
      BY <1>9, <3>1 DEF Follows
    <3>2. CASE ~(es[i].seq <= c)
      <4>1. i \in 1..len /\ es[i].seq \in Nat /\ es[m].seq \in Nat
        BY <1>1, <1>7, <1>8
      <4>2. i \in later
        BY <3>2, <4>1
      <4>3. i <= m
        <5> SUFFICES ASSUME m < i PROVE FALSE
          BY <1>7, <4>1
        <5>1. es[m].seq < es[i].seq
          BY <1>7, <2>2 DEF Ascending
        <5> QED BY <2>3, <4>1, <5>1
      <4>4. {j \in later : j <= i} \subseteq {j \in later : j <= m}
        BY <1>2, <1>7, <4>1, <4>3
      <4>5. PICK A, B : A = {j \in later : j <= i} /\ B = {j \in later : j <= m}
        OBVIOUS
      <4>6. A \in SUBSET (1..len) /\ B \in SUBSET (1..len) /\ A \in SUBSET B
        BY <1>2, <4>4, <4>5
      <4>7. Cardinality(A) <= Cardinality(B) /\ Cardinality(A) \in Nat /\ Cardinality(B) \in Nat
        BY <1>4, <4>6, FS_Subset
      <4>8. Cardinality(B) <= PageLimit
        BY <4>5
      <4>9. Cardinality(A) <= PageLimit
        BY <4>7, <4>8, HeightTypes
      <4>10. i \in shown
        BY <4>2, <4>5, <4>9
      <4> QED BY <4>10
    <3> QED BY <3>1, <3>2
  <2> QED BY <2>1, <2>2, <2>3 DEF Follows
<1> QED BY <1>6, <1>7, <1>9

LEMMA PollKeeps == ASSUME ObserverInv, Poll PROVE ObserverInv'
<1>1. PICK later, shown : later = Later(events, cursor) /\ shown = Page(later)
  OBVIOUS
<1>2. /\ later # {}
      /\ got' = got \cup {events[i] : i \in shown} /\ cursor' = events[Highest(shown)].seq
      /\ UNCHANGED <<top, at, seq, events, eventFile, sent, cuts, unheard, clouded>>
      /\ UNCHANGED mirror
  BY <1>1 DEF Poll, log, Later, Page
<1>3. shown \subseteq DOMAIN events
  BY <1>1 DEF Later, Page
<1>4. /\ events \in Seq(Event) /\ seq \in Nat /\ \A i \in DOMAIN events : events[i].seq <= seq
      /\ cursor \in Nat /\ ObserverTypeOK
  BY HeightTypes DEF ObserverInv, LogInv, LogSound, Numbered
<1>5. /\ Highest(shown) \in DOMAIN events
      /\ Follows(events, seq, cursor, got) => Follows(events, seq, cursor', got')
  <2>1. /\ Highest(shown) \in DOMAIN events
        /\ Follows(events, seq, cursor, got) =>
              Follows(events, seq, events[Highest(shown)].seq, got \cup {events[i] : i \in shown})
    BY <1>1, <1>2, <1>4, PollFollows
  <2> QED BY <1>2, <2>1
<1>6. LogTyped'
  <2>1. LogTyped
    BY <1>4, TypeParts
  <2>2. events[Highest(shown)] \in Event
    BY <1>5, <2>1 DEF LogTyped
  <2>3. cursor' \in 0..(2 * MaxTop)
    BY <1>2, <2>2, EventTypes, HeightTypes
  <2>4. shown \subseteq DOMAIN events
    BY <1>3
  <2>5. got' \subseteq Event
    BY <1>2, <2>1, <2>4 DEF LogTyped
  <2> QED BY <1>2, <2>1, <2>3, <2>5 DEF LogTyped
<1>7. LogInv'
  BY <1>2, <1>5 DEF ObserverInv, LogInv, LogSound
<1>8. top <= top' /\ \A k \in AllHeights : LogMoves(at[k], at'[k])
  BY <1>2, <1>4, HeightTypes DEF LogMoves
<1> QED BY <1>2, <1>6, <1>7, <1>8, LogStep

-----------------------------------------------------------------------------
\* What a step of the mirror has to show.
LEMMA MirrorStep ==
    ASSUME ObserverInv, MirrorTyped', MirrorInv',
           UNCHANGED <<top, log, consumer, sent, unheard, clouded>>,
           cuts' \in 0..MaxCuts, at' \in [AllHeights -> Place],
           \A h \in AllHeights : MirrorMoves(at[h], at'[h])
    PROVE  ObserverInv'
<1>1. LogAlone
  BY HeightTypes DEF ObserverInv, LogAlone
<1>2. LogInv'
  BY <1>1, LogQuiet DEF ObserverInv
<1>3. LogTyped'
  BY TypeParts DEF ObserverInv, LogTyped, log, consumer
<1> QED BY <1>2, <1>3, TypeParts DEF ObserverInv

\* A callback that has got to the mirror is of a record of the journal.
LEMMA UpsertedIsAppended ==
    ASSUME ObserverInv
    PROVE  /\ \A h \in AllHeights : at[h] # "none" => h \in 1..top /\ h <= top
           /\ top \in Nat /\ top <= MaxTop /\ at \in [AllHeights -> Place]
           /\ MirrorTyped /\ maxHeight \in Nat /\ maxHeight <= top /\ lastHeight \in Nat
           /\ cuts \in 0..MaxCuts
<1>1. top \in Nat /\ top <= MaxTop /\ at \in [AllHeights -> Place] /\ AllHeights = 1..MaxTop
  BY HeightTypes DEF ObserverInv
<1>2. \A h \in AllHeights : at[h] = "none" <=> h > top
  BY DEF ObserverInv, LogInv, LogSound
<1>3. MirrorTyped /\ maxHeight <= top /\ cuts \in 0..MaxCuts
  BY TypeParts DEF ObserverInv, MirrorInv, LogTyped
<1>4. maxHeight \in Nat /\ lastHeight \in Nat
  BY <1>3, HeightTypes DEF MirrorTyped
<1>5. \A h \in AllHeights : at[h] # "none" => h \in 1..top /\ h <= top
  BY <1>1, <1>2
<1> QED BY <1>1, <1>3, <1>4, <1>5

LEMMA IndexKeeps == ASSUME ObserverInv, NEW h \in AllHeights, Index(h) PROVE ObserverInv'
<1>1. PICK w : w = IF kind = "memory" THEN "out" ELSE "summary"
  OBVIOUS
<1>2. at[h] = "index" /\ Goes(h, w) /\ w \in Place /\ w \in Past /\ ObserverTypeOK
  BY <1>1 DEF Index, Place, Past, ObserverInv
<1>3. /\ at' \in [AllHeights -> Place] /\ at'[h] = w
      /\ \A k \in AllHeights : k # h => at'[k] = at[k]
  BY <1>2, GoesThere
<1>4. /\ UNCHANGED <<top, log, consumer, sent, cuts, unheard, clouded>>
      /\ UNCHANGED <<kind, lastHeight, maxHeight, replay, replays>>
      /\ index' = index \cup {h} /\ missing' = missing \ {h}
  BY DEF Index, Enter
<1>5. crossed' <=> (crossed \/ Upserting # {} \/ Replaying # {} \/ \E g \in index : g > h)
  BY DEF Index
<1>6. crossed' \in BOOLEAN
  BY DEF Index, ObserverInv, ObserverTypeOK
<1>7. MirrorTyped'
  BY <1>4, <1>6, UpsertedIsAppended DEF MirrorTyped
<1>8. Rows' /\ (maxHeight <= top)'
  BY <1>4 DEF ObserverInv, MirrorInv, Rows
<1>9. Covered'
  <2> SUFFICES ASSUME NEW k \in AllHeights, at'[k] \in {"summary", "meta", "out", "done"}
               PROVE  k \in index' \cup missing' \/ \E r \in Replay : Owes(replay[r], top, k)
    BY <1>4 DEF Covered
  <2>1. CASE k = h
    BY <1>4, <2>1
  <2>2. CASE k # h
    BY <1>3, <1>4, <2>2 DEF ObserverInv, MirrorInv, Covered
  <2> QED BY <2>1, <2>2
<1>10. (kind = "postgres" /\ ~crossed => HeightsKept)'
  <2> SUFFICES ASSUME kind = "postgres", ~crossed' PROVE HeightsKept'
    BY <1>4
  <2>1. Upserting = {} /\ Replaying = {} /\ \A g \in index : ~(g > h)
    BY <1>5
  <2>2. w = "summary"
    BY <1>1
  <2>3. Upserting' = {h} /\ Replaying' = {}
    BY <1>3, <1>4, <2>1, <2>2 DEF Upserting, Replaying
  <2>4. \A g \in index' : g <= h
    <3>1. \A g \in index : g \in Nat /\ h \in Nat
      BY UpsertedIsAppended, HeightTypes DEF MirrorTyped
    <3>2. h <= h
      BY HeightTypes
    <3> QED BY <1>4, <2>1, <3>1, <3>2
  <2>5. Tops(index, h)'
    BY <1>4, <2>4 DEF Tops
  <2> QED BY <1>3, <2>2, <2>3, <2>5 DEF HeightsKept
<1>11. MirrorInv'
  BY <1>8, <1>9, <1>10 DEF MirrorInv
<1>12. \A k \in AllHeights : MirrorMoves(at[k], at'[k])
  BY <1>2, <1>3 DEF MirrorMoves, Past
<1> QED BY <1>3, <1>4, <1>7, <1>11, <1>12, MirrorStep, UpsertedIsAppended

LEMMA SummariseKeeps == ASSUME ObserverInv, NEW h \in AllHeights, Summarise(h) PROVE ObserverInv'
<1>1. at[h] = "summary" /\ Goes(h, "meta") /\ "meta" \in Place /\ ObserverTypeOK
  BY DEF Summarise, Place, ObserverInv
<1>2. /\ at' \in [AllHeights -> Place] /\ at'[h] = "meta"
      /\ \A k \in AllHeights : k # h => at'[k] = at[k]
  BY <1>1, GoesThere
<1>3. /\ UNCHANGED <<top, log, consumer, sent, cuts, unheard, clouded>>
      /\ UNCHANGED <<kind, index, maxHeight, replay, replays, missing, crossed>>
      /\ lastHeight' = h
  BY DEF Summarise
<1>4. MirrorTyped'
  <2>1. h \in 0..MaxTop
    BY HeightTypes
  <2> QED BY <1>3, <2>1, UpsertedIsAppended DEF MirrorTyped
<1>5. Rows' /\ (maxHeight <= top)'
  BY <1>3 DEF ObserverInv, MirrorInv, Rows
<1>6. Covered'
  BY <1>1, <1>2, <1>3 DEF ObserverInv, MirrorInv, Covered
<1>7. (kind = "postgres" /\ ~crossed => HeightsKept)'
  <2> SUFFICES ASSUME kind = "postgres", ~crossed PROVE HeightsKept'
    BY <1>3
  <2>1. HeightsKept /\ h \in Upserting
    BY <1>1 DEF ObserverInv, MirrorInv, Upserting
  <2>2. Upserting' = Upserting /\ Replaying' = Replaying /\ Replaying = {}
    BY <1>1, <1>2, <1>3, <2>1 DEF Upserting, Replaying, HeightsKept
  <2>3. \A k \in Upserting : k = h
    BY <2>1 DEF HeightsKept
  <2>4. Tops(index, h)
    BY <2>1 DEF HeightsKept
  <2> QED BY <1>3, <2>1, <2>2, <2>3, <2>4 DEF HeightsKept
<1>8. MirrorInv'
  BY <1>5, <1>6, <1>7 DEF MirrorInv
<1>9. \A k \in AllHeights : MirrorMoves(at[k], at'[k])
  BY <1>1, <1>2 DEF MirrorMoves, Past
<1> QED BY <1>2, <1>3, <1>4, <1>8, <1>9, MirrorStep, UpsertedIsAppended

LEMMA RecordMaxHeightKeeps ==
    ASSUME ObserverInv, NEW h \in AllHeights, RecordMaxHeight(h) PROVE ObserverInv'
<1>1. at[h] = "meta" /\ Goes(h, "out") /\ "out" \in Place /\ ObserverTypeOK
  BY DEF RecordMaxHeight, Place, ObserverInv
<1>2. /\ at' \in [AllHeights -> Place] /\ at'[h] = "out"
      /\ \A k \in AllHeights : k # h => at'[k] = at[k]
  BY <1>1, GoesThere
<1>3. /\ UNCHANGED <<top, log, consumer, sent, cuts, unheard, clouded>>
      /\ UNCHANGED <<kind, index, lastHeight, replay, replays, missing, crossed>>
      /\ maxHeight' = h
  BY DEF RecordMaxHeight
<1>4. MirrorTyped'
  <2>1. h \in 0..MaxTop
    BY HeightTypes
  <2> QED BY <1>3, <2>1, UpsertedIsAppended DEF MirrorTyped
<1>5. Rows' /\ (maxHeight <= top)'
  BY <1>1, <1>3, UpsertedIsAppended DEF ObserverInv, MirrorInv, Rows
<1>6. Covered'
  BY <1>1, <1>2, <1>3 DEF ObserverInv, MirrorInv, Covered
<1>7. (kind = "postgres" /\ ~crossed => HeightsKept)'
  <2> SUFFICES ASSUME kind = "postgres", ~crossed PROVE HeightsKept'
    BY <1>3
  <2>1. HeightsKept /\ h \in Upserting
    BY <1>1 DEF ObserverInv, MirrorInv, Upserting
  <2>2. \A k \in Upserting : k = h
    BY <2>1 DEF HeightsKept
  <2>3. Upserting' = {} /\ Replaying' = {}
    BY <1>2, <1>3, <2>1, <2>2 DEF Upserting, Replaying, HeightsKept
  <2>4. Tops(index, h) /\ lastHeight = h
    BY <1>1, <2>1 DEF HeightsKept
  <2>5. index \in SUBSET Nat
    BY UpsertedIsAppended, HeightTypes DEF MirrorTyped
  <2>6. Highest(index) = h
    BY <2>4, <2>5, HighestIs
  <2> QED BY <1>3, <2>3, <2>4, <2>6 DEF HeightsKept
<1>8. MirrorInv'
  BY <1>5, <1>6, <1>7 DEF MirrorInv
<1>9. \A k \in AllHeights : MirrorMoves(at[k], at'[k])
  BY <1>1, <1>2 DEF MirrorMoves, Past
<1> QED BY <1>2, <1>3, <1>4, <1>8, <1>9, MirrorStep, UpsertedIsAppended

LEMMA UpsertFailsKeeps ==
    ASSUME ObserverInv, NEW h \in AllHeights, UpsertFails(h) PROVE ObserverInv'
<1>1. at[h] \in {"index", "summary", "meta"} /\ Goes(h, "out") /\ "out" \in Place /\ ObserverTypeOK
  BY DEF UpsertFails, Place, ObserverInv
<1>2. /\ at' \in [AllHeights -> Place] /\ at'[h] = "out"
      /\ \A k \in AllHeights : k # h => at'[k] = at[k]
  BY <1>1, GoesThere
<1>3. /\ UNCHANGED <<top, log, consumer, sent, unheard, clouded>>
      /\ UNCHANGED <<kind, index, lastHeight, maxHeight, replay, replays>>
      /\ missing' = IF at[h] = "index" THEN missing \cup {h} ELSE missing
      /\ crossed' = TRUE
  BY DEF UpsertFails, tables
<1>4. MirrorTyped'
  BY <1>3, UpsertedIsAppended DEF MirrorTyped
<1>5. Rows' /\ (maxHeight <= top)'
  BY <1>3 DEF ObserverInv, MirrorInv, Rows
<1>6. Covered'
  BY <1>1, <1>2, <1>3 DEF ObserverInv, MirrorInv, Covered
<1>7. MirrorInv'
  BY <1>3, <1>5, <1>6 DEF MirrorInv
<1>8. cuts' \in 0..MaxCuts
  BY UpsertedIsAppended, HeightTypes DEF UpsertFails, Cut
<1>9. \A k \in AllHeights : MirrorMoves(at[k], at'[k])
  BY <1>1, <1>2 DEF MirrorMoves, Past
<1> QED BY <1>2, <1>3, <1>4, <1>7, <1>8, <1>9, MirrorStep

-----------------------------------------------------------------------------
\* The row of one replay changes.
ReplayTo(r, row) ==
    /\ replay' \in [Replay -> ReplayRow]
    /\ replay'[r] = row
    /\ \A p \in Replay : p # r => replay'[p] = replay[p]

LEMMA RowChanges ==
    ASSUME MirrorTyped, NEW r \in Replay, NEW row \in ReplayRow,
           replay' = [replay EXCEPT ![r] = row]
    PROVE  /\ ReplayTo(r, row)
           /\ row.at = "idle" => Replaying' = Replaying \ {r}
           /\ row.at # "idle" => Replaying' = Replaying \cup {r}
<1>1. ReplayTo(r, row)
  BY DEF MirrorTyped, ReplayTo
<1> QED BY <1>1 DEF ReplayTo, Replaying

\* What a step of a replay has to show.
LEMMA ReplayStep ==
    ASSUME ObserverInv, MirrorTyped', Rows', Covered',
           (maxHeight <= top)', (kind = "postgres" /\ ~crossed => HeightsKept)',
           UNCHANGED <<top, at, log, consumer, sent, unheard, clouded>>, cuts' \in 0..MaxCuts
    PROVE  ObserverInv'
<1>1. MirrorInv'
  BY DEF MirrorInv
<1>2. at' \in [AllHeights -> Place] /\ \A h \in AllHeights : MirrorMoves(at[h], at'[h])
  BY UpsertedIsAppended DEF MirrorMoves
<1> QED BY <1>1, <1>2, MirrorStep

LEMMA StartReplayKeeps ==
    ASSUME ObserverInv, NEW r \in Replay, StartReplay(r) PROVE ObserverInv'
<1>1. /\ replay[r].at = "idle" /\ replays < MaxReplays /\ replays' = replays + 1
      /\ crossed' = (crossed \/ Upserting # {} \/ Replaying # {})
      /\ UNCHANGED <<top, at, log, consumer, sent, unheard, clouded>>
      /\ UNCHANGED <<kind, missing, cuts>>
  BY DEF StartReplay
<1>2. /\ kind = "memory" =>
             /\ replay' = [replay EXCEPT ![r] = [at |-> "clear", todo |-> 1..top]]
             /\ UNCHANGED <<index, lastHeight, maxHeight>>
      /\ kind # "memory" =>
             /\ replay' = [replay EXCEPT ![r].at = "list"]
             /\ index' = {} /\ lastHeight' = 0 /\ maxHeight' = maxHeight
  BY DEF StartReplay, tables
<1>3. MirrorTyped
  BY UpsertedIsAppended
<1>4. PICK row : row = IF kind = "memory" THEN [at |-> "clear", todo |-> 1..top]
                       ELSE [at |-> "list", todo |-> replay[r].todo]
  OBVIOUS
<1>5. replay[r] \in ReplayRow /\ replay[r].todo \subseteq AllHeights
  BY <1>3 DEF MirrorTyped, ReplayRow
<1>6. 1..top \subseteq AllHeights
  BY UpsertedIsAppended, HeightTypes
<1>7. row \in ReplayRow
  BY <1>4, <1>5, <1>6 DEF ReplayRow
<1>8. replay' = [replay EXCEPT ![r] = row]
  BY <1>2, <1>3, <1>4, <1>5 DEF MirrorTyped, ReplayRow
<1>9. /\ ReplayTo(r, row)
      /\ row.at # "idle" => Replaying' = Replaying \cup {r}
  BY <1>3, <1>7, <1>8, RowChanges
<1>10. MirrorTyped'
  <2>1. crossed' \in BOOLEAN
    BY <1>1
  <2>2. replays' \in 0..MaxReplays
    BY <1>1, <1>3, HeightTypes DEF MirrorTyped
  <2>3. 0 \in 0..MaxTop
    BY HeightTypes
  <2> QED BY <1>1, <1>2, <1>3, <1>9, <2>1, <2>2, <2>3 DEF MirrorTyped, ReplayTo
<1>11. Rows'
  <2>1. \A p \in Replay :
            /\ \A h \in replay[p].todo : h <= top
            /\ replay[p].at \in {"index", "summary", "meta"} => replay[p].todo # {}
            /\ kind = "postgres" => replay[p].at # "clear"
    BY DEF ObserverInv, MirrorInv, Rows
  <2>2. \A h \in row.todo : h <= top
    BY <1>4, <2>1, UpsertedIsAppended
  <2>3. row.at \in {"clear", "list"} /\ (kind = "postgres" => row.at # "clear")
    BY <1>4
  <2> QED BY <1>1, <1>9, <2>1, <2>2, <2>3 DEF Rows, ReplayTo
<1>12. Covered'
  <2> SUFFICES ASSUME NEW k \in AllHeights, at[k] \in {"summary", "meta", "out", "done"}
               PROVE  k \in index' \cup missing' \/ \E p \in Replay : Owes(replay'[p], top, k)
    BY <1>1 DEF Covered
  <2>1. CASE kind = "memory"
    <3>1. k \in index \cup missing \/ \E p \in Replay : Owes(replay[p], top, k)
      BY DEF ObserverInv, MirrorInv, Covered
    <3>2. ~Owes(replay[r], top, k)
      BY <1>1 DEF Owes
    <3> QED BY <1>1, <1>2, <1>9, <2>1, <3>1, <3>2 DEF ReplayTo
  <2>2. CASE kind # "memory"
    <3>1. k \in 1..top
      BY UpsertedIsAppended
    <3>2. Owes(replay'[r], top, k)
      BY <1>4, <1>9, <2>2, <3>1 DEF Owes, ReplayTo
    <3> QED BY <3>2
  <2> QED BY <2>1, <2>2
<1>13. (maxHeight <= top)'
  BY <1>1, <1>2, UpsertedIsAppended
<1>14. (kind = "postgres" /\ ~crossed => HeightsKept)'
  <2> SUFFICES ASSUME kind = "postgres", ~crossed' PROVE HeightsKept'
    BY <1>1
  <2>1. Upserting = {} /\ Replaying = {}
    BY <1>1
  <2>2. row.at = "list" /\ index' = {} /\ lastHeight' = 0
    BY <1>2, <1>4
  <2>3. Upserting' = {} /\ Replaying' = {r}
    BY <1>1, <1>9, <2>1, <2>2 DEF Upserting
  <2>4. replay'[r].at = "list"
    BY <1>9, <2>2 DEF ReplayTo
  <2> QED BY <2>2, <2>3, <2>4 DEF HeightsKept
<1>15. cuts' \in 0..MaxCuts
  BY <1>1, UpsertedIsAppended
<1> QED BY <1>1, <1>10, <1>11, <1>12, <1>13, <1>14, <1>15, ReplayStep

\* The facts of a replay under way, as its steps use them.
LEMMA RowFacts ==
    ASSUME ObserverInv, NEW r \in Replay
    PROVE  /\ MirrorTyped /\ replay[r] \in ReplayRow /\ replay[r].todo \subseteq 1..top
           /\ replay[r].todo \in SUBSET Nat
           /\ replay[r].at \in {"index", "summary", "meta"} => replay[r].todo # {}
           /\ kind = "postgres" => replay[r].at # "clear"
           /\ index \in SUBSET Nat
           /\ \A k \in AllHeights : at[k] \in {"summary", "meta", "out", "done"} =>
                 k \in index \cup missing \/ \E p \in Replay : Owes(replay[p], top, k)
           /\ kind = "postgres" /\ ~crossed /\ replay[r].at # "idle" =>
                 HeightsKept /\ Replaying = {r} /\ Upserting = {}
<1>1. MirrorTyped /\ replay[r] \in ReplayRow
  BY UpsertedIsAppended DEF MirrorTyped
<1>2. replay[r].todo \subseteq AllHeights /\ index \subseteq AllHeights
  BY <1>1 DEF ReplayRow, MirrorTyped
<1>3. \A h \in replay[r].todo : h <= top
  BY DEF ObserverInv, MirrorInv, Rows
<1>4. replay[r].todo \subseteq 1..top /\ replay[r].todo \in SUBSET Nat /\ index \in SUBSET Nat
  BY <1>2, <1>3, HeightTypes, UpsertedIsAppended
<1>5. /\ replay[r].at \in {"index", "summary", "meta"} => replay[r].todo # {}
      /\ kind = "postgres" => replay[r].at # "clear"
  BY DEF ObserverInv, MirrorInv, Rows
<1>6. \A k \in AllHeights : at[k] \in {"summary", "meta", "out", "done"} =>
          k \in index \cup missing \/ \E p \in Replay : Owes(replay[p], top, k)
  BY DEF ObserverInv, MirrorInv, Covered
<1>7. ASSUME kind = "postgres", ~crossed, replay[r].at # "idle"
      PROVE  HeightsKept /\ Replaying = {r} /\ Upserting = {}
  <2>1. HeightsKept
    BY <1>7 DEF ObserverInv, MirrorInv
  <2>2. r \in Replaying
    BY <1>7 DEF Replaying
  <2> QED BY <2>1, <2>2 DEF HeightsKept
<1> QED BY <1>1, <1>4, <1>5, <1>6, <1>7

LEMMA ListJournalKeeps ==
    ASSUME ObserverInv, NEW r \in Replay, ListJournal(r) PROVE ObserverInv'
<1>1. /\ replay[r].at = "list"
      /\ UNCHANGED <<top, at, log, consumer, sent, unheard, clouded>>
      /\ UNCHANGED <<kind, index, lastHeight, maxHeight, replays, missing, crossed, cuts>>
  BY DEF ListJournal, tables
<1>2. PICK row : row = IF top = 0 THEN NoReplay ELSE [at |-> "index", todo |-> 1..top]
  OBVIOUS
<1>3. replay' = [replay EXCEPT ![r] = row]
  BY <1>2 DEF ListJournal
<1>4. top \in Nat /\ 1..top \subseteq AllHeights /\ maxHeight \in Nat /\ maxHeight <= top
  BY UpsertedIsAppended, HeightTypes
<1>5. row \in ReplayRow
  BY <1>2, <1>4 DEF ReplayRow, NoReplay
<1>6. /\ ReplayTo(r, row)
      /\ row.at = "idle" => Replaying' = Replaying \ {r}
      /\ row.at # "idle" => Replaying' = Replaying \cup {r}
  BY <1>3, <1>5, RowFacts, RowChanges
<1>7. MirrorTyped'
  BY <1>1, <1>6, UpsertedIsAppended DEF MirrorTyped, ReplayTo
<1>8. Rows'
  <2>1. /\ \A h \in row.todo : h <= top
        /\ row.at \in {"index", "summary", "meta"} => row.todo # {}
        /\ row.at # "clear"
    BY <1>2, <1>4 DEF NoReplay
  <2> QED BY <1>1, <1>6, <2>1 DEF Rows, ReplayTo, ObserverInv, MirrorInv
<1>9. Covered'
  <2> SUFFICES ASSUME NEW k \in AllHeights, at[k] \in {"summary", "meta", "out", "done"}
               PROVE  k \in index \cup missing \/ \E p \in Replay : Owes(replay'[p], top, k)
    BY <1>1 DEF Covered
  <2>1. k \in 1..top
    BY UpsertedIsAppended
  <2>2. row = [at |-> "index", todo |-> 1..top]
    BY <1>2, <1>4, <2>1
  <2>3. Owes(replay'[r], top, k)
    BY <1>6, <2>1, <2>2 DEF Owes, ReplayTo
  <2> QED BY <2>3
<1>10. (kind = "postgres" /\ ~crossed => HeightsKept)'
  <2> SUFFICES ASSUME kind = "postgres", ~crossed PROVE HeightsKept'
    BY <1>1
  <2>1. HeightsKept /\ Replaying = {r} /\ Upserting = {}
    BY <1>1, RowFacts
  <2>2. index = {} /\ lastHeight = 0
    BY <1>1, <2>1 DEF HeightsKept
  <2>3. Upserting' = {}
    BY <1>1, <2>1 DEF Upserting
  <2>4. CASE top = 0
    <3>1. Replaying' = {}
      BY <1>2, <1>6, <2>1, <2>4 DEF NoReplay
    <3>2. maxHeight = 0
      BY <1>4, <2>4
    <3>3. Highest({}) = 0
      BY DEF Highest
    <3> QED BY <1>1, <2>2, <2>3, <3>1, <3>2, <3>3 DEF HeightsKept
  <2>5. CASE top # 0
    <3>1. replay'[r].at = "index" /\ Replaying' = {r}
      BY <1>2, <1>6, <2>1, <2>5 DEF ReplayTo
    <3> QED BY <1>1, <2>2, <2>3, <3>1 DEF HeightsKept
  <2> QED BY <2>4, <2>5
<1>11. cuts' \in 0..MaxCuts /\ (maxHeight <= top)'
  BY <1>1, <1>4, UpsertedIsAppended
<1> QED BY <1>1, <1>7, <1>8, <1>9, <1>10, <1>11, ReplayStep

LEMMA ClearMemoryKeeps ==
    ASSUME ObserverInv, NEW r \in Replay, ClearMemory(r) PROVE ObserverInv'
<1>1. /\ replay[r].at = "clear" /\ index' = {} /\ missing' = missing \cup (index \ replay[r].todo)
      /\ UNCHANGED <<top, at, log, consumer, sent, unheard, clouded>>
      /\ UNCHANGED <<kind, lastHeight, maxHeight, replays, crossed, cuts>>
  BY DEF ClearMemory
<1>2. PICK row : row = IF replay[r].todo = {} THEN NoReplay
                       ELSE [at |-> "index", todo |-> replay[r].todo]
  OBVIOUS
<1>3. MirrorTyped /\ replay[r].todo \subseteq AllHeights
  BY RowFacts DEF ReplayRow
<1>4. replay' = [replay EXCEPT ![r] = row]
  BY <1>2, <1>3 DEF ClearMemory, MirrorTyped
<1>5. row \in ReplayRow
  BY <1>2, <1>3 DEF ReplayRow, NoReplay
<1>6. ReplayTo(r, row)
  BY <1>3, <1>4, <1>5, RowChanges
<1>7. MirrorTyped'
  BY <1>1, <1>3, <1>6 DEF MirrorTyped, ReplayTo
<1>8. Rows'
  <2>1. /\ \A h \in row.todo : h <= top
        /\ row.at \in {"index", "summary", "meta"} => row.todo # {}
        /\ row.at # "clear"
    BY <1>2 DEF NoReplay, ObserverInv, MirrorInv, Rows
  <2> QED BY <1>1, <1>6, <2>1 DEF Rows, ReplayTo, ObserverInv, MirrorInv
<1>9. Covered'
  <2> SUFFICES ASSUME NEW k \in AllHeights, at[k] \in {"summary", "meta", "out", "done"}
               PROVE  k \in missing' \/ \E p \in Replay : Owes(replay'[p], top, k)
    BY <1>1 DEF Covered
  <2>1. k \in index \cup missing \/ \E p \in Replay : Owes(replay[p], top, k)
    BY RowFacts
  <2>2. CASE k \in replay[r].todo
    <3>1. row = [at |-> "index", todo |-> replay[r].todo]
      BY <1>2, <2>2
    <3> QED BY <1>6, <2>2, <3>1 DEF Owes, ReplayTo
  <2>3. CASE k \notin replay[r].todo
    <3>1. ~Owes(replay[r], top, k)
      BY <1>1, <2>3 DEF Owes
    <3> QED BY <1>1, <1>6, <2>1, <2>3, <3>1 DEF ReplayTo
  <2> QED BY <2>2, <2>3
<1>10. (kind = "postgres" /\ ~crossed => HeightsKept)'
  BY <1>1, RowFacts
<1>11. cuts' \in 0..MaxCuts /\ (maxHeight <= top)'
  BY <1>1, UpsertedIsAppended
<1> QED BY <1>1, <1>7, <1>8, <1>9, <1>10, <1>11, ReplayStep

\* The next record of a replay, and the row that is left after it.
After(r) ==
    LET rest == replay[r].todo \ {NextOf(r)} IN
    IF rest = {} THEN NoReplay ELSE [at |-> "index", todo |-> rest]

LEMMA NextFacts ==
    ASSUME ObserverInv, NEW r \in Replay, replay[r].at \in {"index", "summary", "meta"}
    PROVE  /\ NextOf(r) \in replay[r].todo /\ NextOf(r) \in 1..top /\ NextOf(r) \in AllHeights
           /\ \A h \in replay[r].todo \ {NextOf(r)} : NextOf(r) < h
           /\ After(r) \in ReplayRow
           /\ \A h \in After(r).todo : h <= top
           /\ After(r).at \in {"index", "summary", "meta"} => After(r).todo # {}
           /\ After(r).at # "clear"
           /\ \A h : h \in replay[r].todo \ {NextOf(r)} => Owes(After(r), top, h)
           /\ NextOf(r) \in Nat /\ NextOf(r) <= MaxTop
<1>1. PICK n : n = NextOf(r)
  OBVIOUS
<1>2. replay[r].todo \subseteq 1..top /\ replay[r].todo \in SUBSET Nat /\ replay[r].todo # {}
  BY RowFacts
<1>3. n \in replay[r].todo /\ \A g \in replay[r].todo : n <= g
  BY <1>1, <1>2, LowestIs DEF NextOf
<1>4. n \in Nat /\ \A h \in replay[r].todo \ {n} : n < h
  BY <1>2, <1>3
<1>5. top \in Nat /\ top <= MaxTop /\ AllHeights = 1..MaxTop /\ MaxTop \in Nat
  BY UpsertedIsAppended, HeightTypes
<1>6. n \in 1..top /\ n \in AllHeights /\ n <= MaxTop
  BY <1>2, <1>3, <1>5
<1>7. replay[r].todo \subseteq AllHeights /\ \A h \in replay[r].todo : h <= top
  BY <1>2, <1>5
<1>8. After(r) = IF replay[r].todo \ {n} = {} THEN NoReplay
                 ELSE [at |-> "index", todo |-> replay[r].todo \ {n}]
  BY <1>1 DEF After
<1>9. After(r) \in ReplayRow
  BY <1>7, <1>8 DEF ReplayRow, NoReplay
<1>10. /\ \A h \in After(r).todo : h <= top
       /\ After(r).at \in {"index", "summary", "meta"} => After(r).todo # {}
       /\ After(r).at # "clear"
  BY <1>7, <1>8 DEF NoReplay
<1>11. \A h : h \in replay[r].todo \ {n} => Owes(After(r), top, h)
  BY <1>8 DEF Owes
<1> QED BY <1>1, <1>3, <1>4, <1>6, <1>9, <1>10, <1>11

\* The last record of a replay is the top of the tables, or the next is above them.
LEMMA AfterHeights ==
    ASSUME ObserverInv, NEW r \in Replay, replay[r].at = "meta", kind = "postgres", ~crossed,
           ReplayTo(r, After(r)),
           After(r).at = "idle" => Replaying' = Replaying \ {r},
           After(r).at # "idle" => Replaying' = Replaying \cup {r},
           maxHeight' = NextOf(r), UNCHANGED <<at, index, lastHeight>>
    PROVE  HeightsKept'
<1>1. HeightsKept /\ Replaying = {r} /\ Upserting = {} /\ index \in SUBSET Nat
  BY RowFacts
<1>2. PICK n : n = NextOf(r)
  OBVIOUS
<1>3. Tops(index, n) /\ lastHeight = n
  BY <1>1, <1>2 DEF HeightsKept
<1>4. n \in Nat /\ \A h \in replay[r].todo \ {n} : n < h
  BY <1>2, NextFacts
<1>5. Upserting' = {}
  BY <1>1 DEF Upserting
<1>6. CASE replay[r].todo \ {n} = {}
  <2>1. After(r) = NoReplay
    BY <1>2, <1>6 DEF After
  <2>2. Replaying' = {}
    BY <1>1, <2>1 DEF NoReplay
  <2>3. Highest(index) = n
    BY <1>1, <1>3, HighestIs
  <2> QED BY <1>2, <1>3, <1>5, <2>2, <2>3 DEF HeightsKept
<1>7. CASE replay[r].todo \ {n} # {}
  <2>1. After(r) = [at |-> "index", todo |-> replay[r].todo \ {n}]
    BY <1>2, <1>7 DEF After
  <2>2. Replaying' = {r} /\ replay'[r].at = "index" /\ replay'[r].todo = replay[r].todo \ {n}
    BY <1>1, <2>1 DEF ReplayTo
  <2>3. ASSUME NEW g \in index, NEW h \in replay[r].todo \ {n} PROVE g < h
    <3>1. g \in Nat /\ h \in Nat
      BY <1>1, RowFacts
    <3>2. g <= n /\ n < h
      BY <1>3, <1>4 DEF Tops
    <3> QED BY <1>4, <3>1, <3>2
  <2> QED BY <1>5, <2>2, <2>3 DEF HeightsKept
<1> QED BY <1>6, <1>7

LEMMA ReplayIndexKeeps ==
    ASSUME ObserverInv, NEW r \in Replay, ReplayIndex(r) PROVE ObserverInv'
<1>1. PICK n : n = NextOf(r)
  OBVIOUS
<1>2. /\ replay[r].at = "index" /\ index' = index \cup {n} /\ missing' = missing \ {n}
      /\ UNCHANGED <<top, at, log, consumer, sent, unheard, clouded>>
      /\ UNCHANGED <<kind, lastHeight, maxHeight, replays, crossed, cuts>>
  BY <1>1 DEF ReplayIndex, Enter
<1>3. PICK row : row = IF kind = "memory" THEN After(r)
                       ELSE [at |-> "summary", todo |-> replay[r].todo]
  OBVIOUS
<1>4. MirrorTyped /\ replay[r] \in ReplayRow /\ replay[r].todo \subseteq 1..top
  BY RowFacts
<1>5. replay' = [replay EXCEPT ![r] = row]
  <2>1. CASE kind = "memory"
    BY <1>3, <2>1 DEF ReplayIndex, Proceed, After
  <2>2. CASE kind # "memory"
    BY <1>3, <1>4, <2>2 DEF ReplayIndex, MirrorTyped, ReplayRow
  <2> QED BY <2>1, <2>2
<1>6. /\ n \in replay[r].todo /\ n \in AllHeights
      /\ \A h \in replay[r].todo \ {n} : n < h
      /\ \A h : h \in replay[r].todo \ {n} => Owes(After(r), top, h)
  BY <1>1, <1>2, NextFacts
<1>7. row \in ReplayRow
  BY <1>2, <1>3, <1>4, NextFacts DEF ReplayRow
<1>8. /\ ReplayTo(r, row)
      /\ row.at # "idle" => Replaying' = Replaying \cup {r}
  BY <1>4, <1>5, <1>7, RowChanges
<1>9. MirrorTyped'
  BY <1>2, <1>4, <1>6, <1>8 DEF MirrorTyped, ReplayTo
<1>10. Rows'
  <2>1. /\ \A h \in row.todo : h <= top
        /\ row.at \in {"index", "summary", "meta"} => row.todo # {}
        /\ row.at # "clear"
    <3>1. CASE kind = "memory"
      BY <1>2, <1>3, <3>1, NextFacts
    <3>2. CASE kind # "memory"
      BY <1>3, <1>6, <3>2 DEF ObserverInv, MirrorInv, Rows
    <3> QED BY <3>1, <3>2
  <2> QED BY <1>2, <1>8, <2>1 DEF Rows, ReplayTo, ObserverInv, MirrorInv
<1>11. \A h : h \in replay[r].todo \ {n} => Owes(row, top, h)
  <2>1. CASE kind = "memory"
    BY <1>3, <1>6, <2>1
  <2>2. CASE kind # "memory"
    BY <1>1, <1>3, <2>2 DEF Owes, NextOf
  <2> QED BY <2>1, <2>2
<1>12. Covered'
  <2> SUFFICES ASSUME NEW k \in AllHeights, at[k] \in {"summary", "meta", "out", "done"}
               PROVE  k \in index' \cup missing' \/ \E p \in Replay : Owes(replay'[p], top, k)
    BY <1>2 DEF Covered
  <2>1. k \in index \cup missing \/ \E p \in Replay : Owes(replay[p], top, k)
    BY RowFacts
  <2>2. CASE k = n
    BY <1>2, <2>2
  <2>3. CASE k # n
    <3>1. Owes(replay[r], top, k) => Owes(replay'[r], top, k)
      BY <1>2, <1>8, <1>11, <2>3 DEF Owes, ReplayTo
    <3> QED BY <1>2, <1>8, <2>1, <2>3, <3>1 DEF ReplayTo
  <2> QED BY <2>2, <2>3
<1>13. (kind = "postgres" /\ ~crossed => HeightsKept)'
  <2> SUFFICES ASSUME kind = "postgres", ~crossed PROVE HeightsKept'
    BY <1>2
  <2>1. HeightsKept /\ Replaying = {r} /\ Upserting = {} /\ index \in SUBSET Nat
    BY <1>2, RowFacts
  <2>2. row = [at |-> "summary", todo |-> replay[r].todo]
    BY <1>3
  <2>3. Upserting' = {} /\ Replaying' = {r} /\ replay'[r].at = "summary"
    BY <1>2, <1>8, <2>1, <2>2 DEF Upserting, ReplayTo
  <2>4. NextOf(r)' = n
    BY <1>1, <1>8, <2>2 DEF NextOf, ReplayTo
  <2>5. \A g \in index : g < n
    BY <1>2, <1>6, <2>1 DEF HeightsKept
  <2>6. n \in Nat
    BY <1>6, HeightTypes
  <2>7. ASSUME NEW g \in index' PROVE g <= n
    <3>1. g = n \/ g \in index
      BY <1>2
    <3>2. n <= n
      BY <2>6
    <3>3. g \in index => g \in Nat /\ g < n
      BY <2>1, <2>5
    <3> QED BY <2>6, <3>1, <3>2, <3>3
  <2>8. Tops(index', n)
    BY <1>2, <2>7 DEF Tops
  <2> QED BY <2>3, <2>4, <2>8 DEF HeightsKept
<1>14. cuts' \in 0..MaxCuts /\ (maxHeight <= top)'
  BY <1>2, UpsertedIsAppended
<1> QED BY <1>2, <1>9, <1>10, <1>12, <1>13, <1>14, ReplayStep

LEMMA ReplaySummaryKeeps ==
    ASSUME ObserverInv, NEW r \in Replay, ReplaySummary(r) PROVE ObserverInv'
<1>1. PICK n : n = NextOf(r)
  OBVIOUS
<1>2. /\ replay[r].at = "summary" /\ lastHeight' = n
      /\ UNCHANGED <<top, at, log, consumer, sent, unheard, clouded>>
      /\ UNCHANGED <<kind, index, maxHeight, replays, missing, crossed, cuts>>
  BY <1>1 DEF ReplaySummary
<1>3. PICK row : row = [at |-> "meta", todo |-> replay[r].todo]
  OBVIOUS
<1>4. MirrorTyped /\ replay[r] \in ReplayRow
  BY RowFacts
<1>5. replay' = [replay EXCEPT ![r] = row]
  <2>1. replay' = [replay EXCEPT ![r].at = "meta"]
    BY DEF ReplaySummary
  <2>2. [replay[r] EXCEPT !.at = "meta"] = row
    BY <1>3, <1>4 DEF ReplayRow
  <2> QED BY <1>4, <2>1, <2>2 DEF MirrorTyped
<1>6. row \in ReplayRow
  BY <1>3, <1>4 DEF ReplayRow
<1>7. ReplayTo(r, row) /\ (row.at # "idle" => Replaying' = Replaying \cup {r})
  BY <1>4, <1>5, <1>6, RowChanges
<1>8. MirrorTyped'
  <2>1. n \in 0..MaxTop
    BY <1>1, <1>2, NextFacts, HeightTypes
  <2> QED BY <1>2, <1>4, <1>7, <2>1 DEF MirrorTyped, ReplayTo
<1>9. Rows'
  <2>1. /\ \A h \in row.todo : h <= top
        /\ row.todo # {} /\ row.at # "clear"
    BY <1>2, <1>3 DEF ObserverInv, MirrorInv, Rows
  <2> QED BY <1>2, <1>7, <2>1 DEF Rows, ReplayTo, ObserverInv, MirrorInv
<1>10. Covered'
  <2>1. \A k : Owes(replay[r], top, k) => Owes(replay'[r], top, k)
    BY <1>2, <1>3, <1>7 DEF Owes, ReplayTo
  <2> QED BY <1>2, <1>7, <2>1 DEF Covered, ReplayTo, ObserverInv, MirrorInv
<1>11. (kind = "postgres" /\ ~crossed => HeightsKept)'
  <2> SUFFICES ASSUME kind = "postgres", ~crossed PROVE HeightsKept'
    BY <1>2
  <2>1. HeightsKept /\ Replaying = {r} /\ Upserting = {}
    BY <1>2, RowFacts
  <2>2. Upserting' = {} /\ Replaying' = {r} /\ replay'[r].at = "meta"
    BY <1>2, <1>3, <1>7, <2>1 DEF Upserting, ReplayTo
  <2>3. NextOf(r)' = n
    BY <1>1, <1>3, <1>7 DEF NextOf, ReplayTo
  <2>4. Tops(index, n)
    BY <1>1, <1>2, <2>1 DEF HeightsKept
  <2> QED BY <1>2, <2>2, <2>3, <2>4 DEF HeightsKept
<1>12. cuts' \in 0..MaxCuts /\ (maxHeight <= top)'
  BY <1>2, UpsertedIsAppended
<1> QED BY <1>2, <1>8, <1>9, <1>10, <1>11, <1>12, ReplayStep

LEMMA ReplayMaxHeightKeeps ==
    ASSUME ObserverInv, NEW r \in Replay, ReplayMaxHeight(r) PROVE ObserverInv'
<1>1. PICK n : n = NextOf(r)
  OBVIOUS
<1>2. /\ replay[r].at = "meta" /\ maxHeight' = n
      /\ UNCHANGED <<top, at, log, consumer, sent, unheard, clouded>>
      /\ UNCHANGED <<kind, index, lastHeight, replays, missing, crossed, cuts>>
  BY <1>1 DEF ReplayMaxHeight
<1>3. MirrorTyped
  BY RowFacts
<1>4. replay' = [replay EXCEPT ![r] = After(r)]
  BY DEF ReplayMaxHeight, Proceed, After
<1>5. After(r) \in ReplayRow
  BY <1>2, NextFacts
<1>6. /\ ReplayTo(r, After(r))
      /\ After(r).at = "idle" => Replaying' = Replaying \ {r}
      /\ After(r).at # "idle" => Replaying' = Replaying \cup {r}
  BY <1>3, <1>4, <1>5, RowChanges
<1>7. MirrorTyped'
  <2>1. n \in 0..MaxTop
    BY <1>1, <1>2, NextFacts, HeightTypes
  <2> QED BY <1>2, <1>3, <1>6, <2>1 DEF MirrorTyped, ReplayTo
<1>8. Rows'
  <2>1. /\ \A h \in After(r).todo : h <= top
        /\ After(r).at \in {"index", "summary", "meta"} => After(r).todo # {}
        /\ After(r).at # "clear"
    BY <1>2, NextFacts
  <2> QED BY <1>2, <1>6, <2>1 DEF Rows, ReplayTo, ObserverInv, MirrorInv
<1>9. Covered'
  <2>1. ASSUME NEW k, Owes(replay[r], top, k) PROVE Owes(replay'[r], top, k)
    <3>1. k \in replay[r].todo \ {NextOf(r)}
      BY <1>2, <2>1 DEF Owes, NextOf
    <3> QED BY <1>2, <1>6, <3>1, NextFacts DEF ReplayTo
  <2> QED BY <1>2, <1>6, <2>1 DEF Covered, ReplayTo, ObserverInv, MirrorInv
<1>10. (kind = "postgres" /\ ~crossed => HeightsKept)'
  BY <1>1, <1>2, <1>6, AfterHeights
<1>11. cuts' \in 0..MaxCuts /\ (maxHeight <= top)'
  <2>1. n <= top
    BY <1>1, <1>2, NextFacts
  <2> QED BY <1>2, <2>1, UpsertedIsAppended
<1> QED BY <1>2, <1>7, <1>8, <1>9, <1>10, <1>11, ReplayStep

LEMMA ReplayFailsKeeps ==
    ASSUME ObserverInv, NEW r \in Replay, ReplayFails(r) PROVE ObserverInv'
<1>1. /\ missing' = missing \cup (1..top \ index) /\ crossed' = TRUE
      /\ UNCHANGED <<top, at, log, consumer, sent, unheard, clouded>>
      /\ UNCHANGED <<kind, index, lastHeight, maxHeight, replays>>
      /\ replay' = [replay EXCEPT ![r] = NoReplay]
  BY DEF ReplayFails, tables
<1>2. MirrorTyped /\ NoReplay \in ReplayRow
  BY RowFacts DEF ReplayRow, NoReplay
<1>3. ReplayTo(r, NoReplay)
  BY <1>1, <1>2, RowChanges
<1>4. 1..top \subseteq AllHeights
  BY UpsertedIsAppended, HeightTypes
<1>5. MirrorTyped'
  BY <1>1, <1>2, <1>3, <1>4 DEF MirrorTyped, ReplayTo
<1>6. Rows'
  BY <1>1, <1>3 DEF Rows, ReplayTo, ObserverInv, MirrorInv, NoReplay
<1>7. Covered'
  BY <1>1, UpsertedIsAppended DEF Covered
<1>8. cuts' \in 0..MaxCuts /\ (maxHeight <= top)'
  BY <1>1, UpsertedIsAppended, HeightTypes DEF ReplayFails, Cut
<1> QED BY <1>1, <1>5, <1>6, <1>7, <1>8, ReplayStep

\* The log is read back from its lines: their numbers go up to the highest of them.
LEMMA ReadBack ==
    ASSUME NEW es, NEW fs, NEW n, Numbered(es, fs, n), NEW m, m = Highest(Seqs(fs))
    PROVE  /\ Numbered(fs, fs, m) /\ m <= n
           /\ \A c, g : Follows(es, n, c, g) /\ c <= m /\ Ascending(fs) => Follows(fs, m, c, g)
<1>1. es \in Seq(Event) /\ fs \in Seq(Event) /\ n \in Nat
  BY DEF Numbered
<1>2. \A i \in DOMAIN fs : fs[i] \in Event /\ fs[i].seq \in Nat
  BY <1>1, EventTypes
<1>3. \A i \in DOMAIN fs : \E j \in DOMAIN es : fs[i] = es[j]
  BY DEF Numbered
<1>4. \A i \in DOMAIN fs : fs[i].seq <= n
  BY <1>3 DEF Numbered
<1>5. PICK T : T = Seqs(fs)
  OBVIOUS
<1>6. T \in SUBSET Nat /\ \A x \in T : x <= n
  BY <1>2, <1>4, <1>5 DEF Seqs
<1>7. m \in Nat /\ m <= n /\ \A x \in T : x <= m
  <2>1. CASE T = {}
    BY <1>1, <1>5, <2>1 DEF Highest
  <2>2. CASE T # {}
    <3>1. Tops(T, Highest(T)) /\ Highest(T) \in T
      BY <1>1, <1>6, <2>2, HighestExists
    <3> QED BY <1>5, <1>6, <3>1 DEF Tops
  <2> QED BY <2>1, <2>2
<1>8. \A i \in DOMAIN fs : fs[i].seq <= m
  BY <1>5, <1>7 DEF Seqs
<1>9. \A i, j \in DOMAIN fs : fs[i] = fs[j] => i = j
  BY DEF Numbered
<1>10. \A i, j \in DOMAIN fs : fs[i].seq = fs[j].seq => i = j
  <2> SUFFICES ASSUME NEW i \in DOMAIN fs, NEW j \in DOMAIN fs, fs[i].seq = fs[j].seq
               PROVE  i = j
    OBVIOUS
  <2>1. PICK k \in DOMAIN es, l \in DOMAIN es : fs[i] = es[k] /\ fs[j] = es[l]
    BY <1>3
  <2>2. k = l
    BY <2>1 DEF Numbered
  <2> QED BY <1>9, <2>1, <2>2
<1>11. \A i, j \in DOMAIN fs : fs[i].height = fs[j].height /\ fs[i].type = fs[j].type => i = j
  <2> SUFFICES ASSUME NEW i \in DOMAIN fs, NEW j \in DOMAIN fs,
                      fs[i].height = fs[j].height, fs[i].type = fs[j].type
               PROVE  i = j
    OBVIOUS
  <2>1. PICK k \in DOMAIN es, l \in DOMAIN es : fs[i] = es[k] /\ fs[j] = es[l]
    BY <1>3
  <2>2. k = l
    BY <2>1 DEF Numbered
  <2> QED BY <1>9, <2>1, <2>2
<1>12. Numbered(fs, fs, m)
  BY <1>1, <1>7, <1>8, <1>9, <1>10, <1>11 DEF Numbered
<1>13. ASSUME NEW c, NEW g, Follows(es, n, c, g), c <= m, Ascending(fs) PROVE Follows(fs, m, c, g)
  <2>1. \A i \in DOMAIN fs : fs[i].seq <= c => fs[i] \in g
    BY <1>3, <1>13 DEF Follows
  <2> QED BY <1>13, <2>1 DEF Follows
<1> QED BY <1>7, <1>12, <1>13

LEMMA CrashAndReloadKeeps == ASSUME ObserverInv, CrashAndReload PROVE ObserverInv'
<1> DEFINE Pending == {h \in 1..top : at[h] \in {"stored", "record", "tip"}}
<1>1. /\ at' = [h \in AllHeights |-> IF h <= top THEN "done" ELSE "none"]
      /\ events' = eventFile /\ eventFile' = eventFile
      /\ seq' = Highest(Seqs(eventFile))
      /\ UNCHANGED <<top, cursor, got, sent>>
      /\ UNCHANGED <<kind, lastHeight, maxHeight, replays>>
      /\ crossed' = TRUE /\ replay' = [r \in Replay |-> NoReplay]
      /\ unheard' = unheard \cup Pending
  BY DEF CrashAndReload, consumer
<1>2. clouded' = (clouded \/ cursor > seq' \/ ~Ascending(eventFile))
  BY DEF CrashAndReload
<1>3. /\ kind = "memory" => index' = {}
      /\ kind # "memory" => index' = index
      /\ missing' = IF kind = "memory" \/ Replaying # {} THEN 1..top
                    ELSE missing \cup (1..top \ index)
  BY DEF CrashAndReload
<1>4. /\ Numbered(events, eventFile, seq)
      /\ \A k \in AllHeights : Written(events, eventFile, unheard, k, at[k])
      /\ \A k \in AllHeights : at[k] = "none" <=> k > top
      /\ \A k \in sent : HoldsBoth(eventFile, k)
      /\ seq <= Cardinality(Begun(at)) + Cardinality(Doubled(at))
      /\ clouded \/ Follows(events, seq, cursor, got)
      /\ seq \in Nat /\ cursor \in Nat /\ MaxTop \in Nat /\ ObserverTypeOK
  BY HeightTypes DEF ObserverInv, LogInv, LogSound
<1>5. /\ top \in Nat /\ top <= MaxTop /\ 1..top \subseteq AllHeights /\ AllHeights = 1..MaxTop
      /\ MirrorTyped /\ maxHeight <= top
  BY UpsertedIsAppended, HeightTypes
<1>6. /\ Numbered(events', eventFile', seq') /\ seq' <= seq
      /\ \A c, g : Follows(events, seq, c, g) /\ c <= seq' /\ Ascending(eventFile)
             => Follows(events', seq', c, g)
  BY <1>1, <1>4, ReadBack
<1>7. seq' \in Nat
  BY <1>6 DEF Numbered
<1>8. at' \in [AllHeights -> Place]
      /\ \A h \in AllHeights : /\ h <= top => at'[h] = "done"
                               /\ ~(h <= top) => at'[h] = "none"
  BY <1>1 DEF Place
<1>9. LogTyped'
  <2>1. LogTyped
    BY <1>4, TypeParts
  <2>2. seq' \in 0..(2 * MaxTop)
    <3>1. seq \in 0..(2 * MaxTop)
      BY <2>1 DEF LogTyped
    <3> QED BY <1>4, <1>6, <1>7, <3>1
  <2>3. cuts' \in 0..MaxCuts
    BY UpsertedIsAppended, HeightTypes DEF CrashAndReload, Cut
  <2>4. Pending \subseteq AllHeights
    BY <1>5
  <2>5. unheard' \subseteq AllHeights
    BY <1>1, <2>1, <2>4 DEF LogTyped
  <2>6. clouded' \in BOOLEAN
    BY <1>2, <2>1 DEF LogTyped
  <2> QED BY <1>1, <1>8, <2>1, <2>2, <2>3, <2>5, <2>6 DEF LogTyped
<1>10. (\A k \in AllHeights : Written(events, eventFile, unheard, k, at[k]))'
  <2> SUFFICES ASSUME NEW k \in AllHeights PROVE Written(eventFile, eventFile, unheard', k, at'[k])
    BY <1>1
  <2>1. CASE k <= top
    <3>1. at[k] # "none" /\ k \in 1..top
      BY <1>4, <1>5, <2>1
    <3>2. at[k] \in Place
      BY <1>4, HeightTypes
    <3>3. at[k] \in {"stored", "record", "tip"} => k \in unheard'
      BY <1>1, <3>1
    <3>4. at[k] \in Past => k \in unheard \/ HoldsBoth(eventFile, k)
      BY <1>4 DEF Written
    <3>5. k \in unheard' \/ HoldsBoth(eventFile, k)
      BY <1>1, <3>1, <3>2, <3>3, <3>4 DEF Place, Past
    <3> QED BY <1>8, <2>1, <3>5 DEF Written, Past
  <2>2. CASE ~(k <= top)
    <3>1. at[k] = "none"
      BY <1>4, <1>5, <2>2
    <3>2. HoldsNone(events, k)
      BY <1>4, <3>1 DEF Written
    <3>3. HoldsNone(eventFile, k)
      BY <1>4, <3>2, LinesInMemory DEF HoldsNone
    <3> QED BY <1>8, <2>2, <3>3 DEF Written, Past
  <2> QED BY <2>1, <2>2
<1>11. (\A k \in AllHeights : at[k] = "none" <=> k > top)'
  BY <1>1, <1>5, <1>8
<1>12. (\A k \in sent : HoldsBoth(eventFile, k))'
  BY <1>1, <1>4
<1>13. (seq <= Cardinality(Begun(at)) + Cardinality(Doubled(at)))'
  <2>1. at \in [AllHeights -> Place]
    BY <1>4, HeightTypes
  <2>2. /\ Begun(at) \subseteq Begun(at') /\ Doubled(at) \subseteq Doubled(at')
        /\ Begun(at') \in SUBSET AllHeights /\ Doubled(at') \in SUBSET AllHeights
    BY <1>4, <1>5, <1>8 DEF Begun, Doubled
  <2>3. PICK b \in Nat, d \in Nat, b2 \in Nat, d2 \in Nat :
            /\ b = Cardinality(Begun(at)) /\ d = Cardinality(Doubled(at))
            /\ b2 = Cardinality(Begun(at')) /\ d2 = Cardinality(Doubled(at'))
    <3>1. Begun(at) \in SUBSET AllHeights /\ Doubled(at) \in SUBSET AllHeights
      BY DEF Begun, Doubled
    <3> QED BY <2>2, <3>1, Room
  <2>4. b <= b2 /\ d <= d2
    <3>1. IsFiniteSet(Begun(at')) /\ IsFiniteSet(Doubled(at'))
      BY <2>2, Room
    <3> QED BY <2>2, <2>3, <3>1, FS_Subset
  <2>5. seq <= b + d
    BY <1>4, <2>3
  <2>6. seq' <= b2 + d2
    BY <1>4, <1>6, <1>7, <2>4, <2>5
  <2> QED BY <2>3, <2>6
<1>14. (clouded \/ Follows(events, seq, cursor, got))'
  <2> SUFFICES ASSUME ~clouded' PROVE Follows(events', seq', cursor, got)
    BY <1>1
  <2>1. ~clouded /\ ~(cursor > seq') /\ Ascending(eventFile)
    BY <1>2
  <2>2. cursor <= seq'
    BY <1>4, <1>7, <2>1
  <2> QED BY <1>4, <1>6, <2>1, <2>2
<1>15. LogInv'
  BY <1>6, <1>10, <1>11, <1>12, <1>13, <1>14 DEF LogInv, LogSound
<1>16. NoReplay \in ReplayRow
  BY DEF NoReplay, ReplayRow
<1>17. MirrorTyped'
  BY <1>1, <1>3, <1>5, <1>16 DEF MirrorTyped
<1>18. Rows'
  BY <1>1 DEF Rows, NoReplay
<1>19. Covered'
  <2> SUFFICES ASSUME NEW k \in AllHeights, at'[k] \in {"summary", "meta", "out", "done"}
               PROVE  k \in index' \cup missing'
    BY DEF Covered
  <2>1. k \in 1..top
    BY <1>5, <1>8
  <2> QED BY <1>3, <2>1
<1>20. (maxHeight <= top)'
  BY <1>1, <1>5
<1>21. MirrorInv'
  BY <1>1, <1>18, <1>19, <1>20 DEF MirrorInv
<1> QED BY <1>9, <1>15, <1>17, <1>21, TypeParts DEF ObserverInv

LEMMA ObserverStutters == ASSUME ObserverInv, UNCHANGED observerVars PROVE ObserverInv'
<1>1. UNCHANGED <<top, at, log, consumer, mirror, sent, cuts, unheard, clouded>>
  BY DEF observerVars
<1>2. LogTyped'
  BY <1>1, TypeParts DEF ObserverInv, LogTyped, log, consumer
<1>3. LogInv'
  <2>1. LogAlone
    BY <1>1, HeightTypes DEF ObserverInv, LogAlone, MirrorMoves
  <2> QED BY <2>1, LogQuiet DEF ObserverInv
<1>4. top <= top' /\ \A h \in AllHeights : LogMoves(at[h], at'[h])
  BY <1>1, HeightTypes DEF ObserverInv, LogMoves
<1> QED BY <1>1, <1>2, <1>3, <1>4, LogStep

LEMMA ObserverSteps == ObserverInv /\ [ObserverNext]_observerVars => ObserverInv'
<1> SUFFICES ASSUME ObserverInv, [ObserverNext]_observerVars PROVE ObserverInv' OBVIOUS
<1>1. CASE AppendRecord
  BY <1>1, AppendRecordKeeps
<1>2. ASSUME NEW h \in AllHeights,
             CallBack(h) \/ WriteRecordEvent(h) \/ WriteTipEvent(h) \/ EventFails(h)
      PROVE  ObserverInv'
  BY <1>2, CallBackKeeps, WriteRecordEventKeeps, WriteTipEventKeeps, EventFailsKeeps
<1>3. ASSUME NEW h \in AllHeights,
             Index(h) \/ Summarise(h) \/ RecordMaxHeight(h) \/ UpsertFails(h) \/ Notify(h)
      PROVE  ObserverInv'
  BY <1>3, IndexKeeps, SummariseKeeps, RecordMaxHeightKeeps, UpsertFailsKeeps, NotifyKeeps
<1>4. CASE Poll
  BY <1>4, PollKeeps
<1>5. ASSUME NEW r \in Replay, StartReplay(r) \/ ListJournal(r) \/ ClearMemory(r)
      PROVE  ObserverInv'
  BY <1>5, StartReplayKeeps, ListJournalKeeps, ClearMemoryKeeps
<1>6. ASSUME NEW r \in Replay,
             ReplayIndex(r) \/ ReplaySummary(r) \/ ReplayMaxHeight(r) \/ ReplayFails(r)
      PROVE  ObserverInv'
  BY <1>6, ReplayIndexKeeps, ReplaySummaryKeeps, ReplayMaxHeightKeeps, ReplayFailsKeeps
<1>7. CASE CrashAndReload
  BY <1>7, CrashAndReloadKeeps
<1>8. CASE UNCHANGED observerVars
  BY <1>8, ObserverStutters
<1> QED BY <1>1, <1>2, <1>3, <1>4, <1>5, <1>6, <1>7, <1>8 DEF ObserverNext

\* The event log and the index mirror, for any number of records, callbacks and replays, any page
\* size, failing steps and crashes: a record's events are both on the log or the record is named,
\* numbers are not shared, a consumer misses nothing up to its cursor, a notified record has its
\* events on file, the mirror has or names every record, and its heights are those of its top.
THEOREM ObserverSpecKeepsObserversFollowing == ObserverSpec => []ObserversFollow
<1>1. ObserverSpec => []ObserverInv
  BY ObserverInitInv, ObserverSteps, PTL DEF ObserverSpec
<1> QED BY <1>1, ObserverImplies, PTL
-----------------------------------------------------------------------------
(***************************************************************************)
(* The journal in files (module FileJournal). FileInv has a named part for *)
(* each thing that could go wrong: FilesSound for what is in memory and    *)
(* not on file, TopSound for the tip, ClientsSound for the client ids,     *)
(* ReplicaSound for the second node, and for each call and each catch-up   *)
(* under way what it still relies on (WriteSound, PutSound, PullSound).    *)
(* Filled is the reason heights stay unique and the second node has no     *)
(* gap. MovesInv is about a call that leaves the records in memory alone,  *)
(* PullMovesInv about a catch-up that only moves on.                       *)
(***************************************************************************)

CallRow == [at : {"idle", "read", "put", "line", "tip", "tipText", "clients", "clientsText"},
            client : Client, seen : TipPointer,
            rec : FileRecord \cup {EmptyRecord}, text : [Client -> 0..MaxRecords]]

PullRow == [at : {"idle", "list", "check", "append"}, prev : TipPointer, segment : SUBSET FileRecord]

\* Everything but what the calls and the catch-ups hold is of its type.
StoresTyped ==
    /\ byHeight \subseteq FileRecord /\ journalFile \subseteq FileRecord /\ replica \subseteq FileRecord
    /\ byClientId \in [Client -> 0..MaxRecords]
    /\ memoryTip \in TipPointer /\ tipFile \in TipPointer /\ replicaTip \in TipPointer
    /\ clientsFile \in [ids : [Client -> 0..MaxRecords], torn : BOOLEAN]
    /\ loaded \in BOOLEAN
    /\ made \in 0..MaxRecords /\ faults \in 0..MaxFaults
    /\ lost \subseteq 1..MaxRecords /\ told \subseteq 1..MaxRecords
    /\ stale \in BOOLEAN /\ forgot \in BOOLEAN /\ contested \subseteq Client

WritingAt == {"line", "tip", "tipText", "clients", "clientsText"}
OnFile == WritingAt \ {"line"}

\* One record of an id, one of a height.
IdsUnique(R) == \A r, s \in R : r.id = s.id => r = s
HeightsUnique(R) == \A r, s \in R : r.height = s.height => r = s

RecordsUnique ==
    /\ IdsUnique(byHeight \cup replica)
    /\ HeightsUnique(byHeight) /\ HeightsUnique(replica)
    /\ \A r \in byHeight \cup replica : r.id <= made /\ r.height <= made

\* A record in memory is on file, lost, or about to be written; its chain breaks at losses only.
FilesSound ==
    /\ journalFile \subseteq byHeight
    /\ told \subseteq Ids(journalFile)
    /\ \A r \in byHeight : \/ r \in journalFile
                           \/ r.id \in lost
                           \/ \E c \in Writer : call[c].at = "line" /\ call[c].rec = r
    /\ \A r \in byHeight : r.prev \in {Genesis} \cup Ids(byHeight) \cup lost

\* Files that could not be read are the end of it.
StopsUnread == ~loaded => (\A c \in Writer : call[c] = NoCall) /\ (\A p \in Puller : pull[p] = NoPull)

\* A tip names the genesis record, a record there is, or one that is lost.
TipSound(t, R, gone, n) == t.id \in {Genesis} \cup Ids(R) \cup gone /\ t.height <= n

TipsSound ==
    /\ loaded => TipSound(memoryTip, byHeight, lost, made)
    /\ tipFile = Torn \/ TipSound(tipFile, byHeight, lost, made)

WriteSound(row, R, J, gone, n) ==
    /\ row.at \in {"put", "tipText"} => TipSound(row.seen, R, gone, n)
    /\ row.at \in WritingAt => row.rec \in R
    /\ row.at \in OnFile => row.rec \in J

IsTop(t, R) ==
    \/ R = {} /\ t = Bottom
    \/ \E r \in R : t = [height |-> r.height, id |-> r.id] /\ \A s \in R : s.height <= r.height

\* Every height from one above m to n has a record.
Filled(R, m, n) == \A h \in 1..n : h > m => \E r \in R : r.height = h

PutSound(row, R, t) == row.at = "put" => row.seen.height <= t.height /\ Filled(R, row.seen.height, t.height)

TopSound ==
    loaded /\ ~stale => IsTop(memoryTip, byHeight) /\ \A c \in Writer : PutSound(call[c], byHeight, memoryTip)

Asks(row, k) == row.at \in {"read", "put"} /\ row.client = k

ClientsSound ==
    ~forgot =>
        /\ \A r \in byHeight : \E s \in byHeight : s.id = byClientId[r.client] /\ s.client = r.client
        /\ \A r, s \in byHeight : r.client = s.client /\ r.client \notin contested => r = s
        /\ \A c \in Writer, k \in Client : Asks(call[c], k) /\ k \notin contested =>
              /\ \A r \in byHeight : r.client # k
              /\ \A d \in Writer : Asks(call[d], k) => d = c

\* A chain from the genesis record, without a gap.
Linked(R) ==
    \A r \in R :
        /\ r.prev = Genesis => r.height = 1
        /\ r.prev # Genesis => \E s \in R : s.id = r.prev /\ s.height = r.height - 1
        /\ Filled(R, 0, r.height)

ReplicaSound ==
    /\ Linked(replica) /\ IsTop(replicaTip, replica)
    /\ Ids(replica) \subseteq Ids(byHeight) \cup lost

PullSound(row, own, R) ==
    row.at # "idle" =>
        /\ row.prev = Bottom \/ \E r \in own : row.prev = [height |-> r.height, id |-> r.id]
        /\ \A r \in own : r.height > row.prev.height => r \in R
        /\ row.segment \subseteq R /\ \A r \in row.segment : r.height > row.prev.height
        /\ row.at \in {"check", "append"} => row.segment # {}
        /\ row.at = "append" => /\ LowestOf(row.segment).prev = row.prev.id
                                /\ LowestOf(row.segment).height = row.prev.height + 1

FileInv ==
    /\ FileTypeOK /\ RecordsUnique /\ FilesSound /\ StopsUnread /\ TipsSound /\ TopSound /\ ClientsSound
    /\ ReplicaSound
    /\ \A c \in Writer : WriteSound(call[c], byHeight, journalFile, lost, made)
    /\ \A p \in Puller : PullSound(pull[p], replica, byHeight)
-----------------------------------------------------------------------------
LEMMA FileTypes ==
    /\ MaxRecords \in Nat /\ MaxFaults \in Nat /\ Client # {}
    /\ (CHOOSE k \in Client : TRUE) \in Client
    /\ Bottom \in TipPointer /\ Torn \in TipPointer /\ Bottom.height = 0 /\ Bottom.id = Genesis
    /\ NoIds \in [Client -> 0..MaxRecords]
    /\ NoCall \in CallRow /\ NoCall.at = "idle"
    /\ NoPull \in PullRow /\ NoPull.at = "idle" /\ NoPull.segment = {}
<1>1. MaxRecords \in Nat /\ MaxFaults \in Nat /\ Client # {}
  BY FileJournalAssumption
<1>2. (CHOOSE k \in Client : TRUE) \in Client
  BY <1>1
<1>3. Bottom \in TipPointer /\ Torn \in TipPointer /\ Bottom.height = 0 /\ Bottom.id = Genesis
  BY <1>1 DEF Bottom, Torn, TipPointer, Genesis
<1>4. NoIds \in [Client -> 0..MaxRecords]
  BY <1>1 DEF NoIds, Genesis
<1>5. PICK k : k = CHOOSE x \in Client : TRUE
  OBVIOUS
<1>6. NoCall = [at |-> "idle", client |-> k, seen |-> Bottom, rec |-> EmptyRecord, text |-> NoIds]
  BY <1>5 DEF NoCall
<1>7. NoCall \in CallRow /\ NoCall.at = "idle"
  BY <1>2, <1>3, <1>4, <1>5, <1>6 DEF CallRow
<1>8. NoPull \in PullRow /\ NoPull.at = "idle" /\ NoPull.segment = {}
  BY <1>3 DEF NoPull, PullRow
<1> QED BY <1>1, <1>2, <1>3, <1>4, <1>7, <1>8

LEMMA FileTypeParts ==
    /\ FileTypeOK <=> StoresTyped /\ call \in [Writer -> CallRow] /\ pull \in [Puller -> PullRow]
    /\ FileTypeOK' <=> StoresTyped' /\ call' \in [Writer -> CallRow] /\ pull' \in [Puller -> PullRow]
<1>1. FileTypeOK <=> StoresTyped /\ call \in [Writer -> CallRow] /\ pull \in [Puller -> PullRow]
  BY DEF FileTypeOK, StoresTyped, CallRow, PullRow
<1>2. FileTypeOK' <=> StoresTyped' /\ call' \in [Writer -> CallRow] /\ pull' \in [Puller -> PullRow]
  BY DEF FileTypeOK, StoresTyped, CallRow, PullRow
<1> QED BY <1>1, <1>2

LEMMA RecordFacts ==
    ASSUME NEW r \in FileRecord
    PROVE  /\ r.id \in 1..MaxRecords /\ r.id \in Nat /\ r.id >= 1
           /\ r.height \in 1..MaxRecords /\ r.height \in Nat /\ r.height >= 1
           /\ r.prev \in Nat /\ r.client \in Client
           /\ [height |-> r.height, id |-> r.id] \in TipPointer
<1>1. MaxRecords \in Nat
  BY FileTypes
<1>2. /\ r.id \in 1..MaxRecords /\ r.height \in 1..MaxRecords /\ r.prev \in 0..MaxRecords
      /\ r.client \in Client
  BY DEF FileRecord
<1> QED BY <1>1, <1>2 DEF TipPointer

LEMMA TipFacts ==
    ASSUME NEW t \in TipPointer
    PROVE  t.height \in Nat /\ t.id \in Nat /\ t.height <= MaxRecords /\ t.id <= MaxRecords
BY FileTypes DEF TipPointer

LEMMA CallRowFacts ==
    ASSUME NEW row \in CallRow
    PROVE  /\ row.at \in {"idle", "read", "put", "line", "tip", "tipText", "clients", "clientsText"}
           /\ row.client \in Client /\ row.seen \in TipPointer
           /\ row.rec \in FileRecord \cup {EmptyRecord} /\ row.text \in [Client -> 0..MaxRecords]
BY DEF CallRow

LEMMA PullRowFacts ==
    ASSUME NEW row \in PullRow
    PROVE  /\ row.at \in {"idle", "list", "check", "append"}
           /\ row.prev \in TipPointer /\ row.segment \subseteq FileRecord
BY DEF PullRow

\* Records have a lowest and a highest one.
LEMMA LowestRecord ==
    ASSUME NEW R \in SUBSET FileRecord, R # {}
    PROVE  LowestOf(R) \in R /\ \A s \in R : LowestOf(R).height <= s.height
<1> DEFINE T == {r.height : r \in R}
<1>1. T \subseteq Nat /\ T # {}
  <2>1. \A r \in R : r.height \in Nat
    BY RecordFacts
  <2> QED BY <2>1
<1>2. PICK n \in T : \A m \in T : n <= m
  BY <1>1, LeastNatural
<1>3. PICK r \in R : r.height = n
  BY <1>2
<1>4. \A s \in R : r.height <= s.height
  BY <1>2, <1>3
<1> QED BY <1>4 DEF LowestOf

LEMMA HighestRecord ==
    ASSUME NEW R \in SUBSET FileRecord, R # {}
    PROVE  \E r \in R : \A s \in R : s.height <= r.height
<1> DEFINE T == {MaxRecords - r.height : r \in R}
<1>1. ASSUME NEW r \in R PROVE r.height \in Nat /\ r.height <= MaxRecords /\ MaxRecords \in Nat
  <2>1. MaxRecords \in Nat /\ r.height \in 1..MaxRecords
    BY RecordFacts, FileTypes
  <2> QED BY <2>1
<1>2. T \subseteq Nat /\ T # {}
  <2>1. \A r \in R : MaxRecords - r.height \in Nat
    BY <1>1
  <2> QED BY <2>1
<1>3. PICK n \in T : \A m \in T : n <= m
  BY <1>2, LeastNatural
<1>4. PICK r \in R : MaxRecords - r.height = n
  BY <1>3
<1>5. ASSUME NEW s \in R PROVE s.height <= r.height
  <2>1. MaxRecords - r.height <= MaxRecords - s.height
    BY <1>3, <1>4
  <2> QED BY <1>1, <2>1
<1> QED BY <1>5

LEMMA TopIs ==
    ASSUME NEW R \in SUBSET FileRecord, HeightsUnique(R)
    PROVE  \A t : IsTop(t, R) <=> t = Top(R)
<1>1. CASE R = {}
  BY <1>1 DEF IsTop, Top
<1>2. CASE R # {}
  <2>1. PICK r \in R : \A s \in R : s.height <= r.height
    BY <1>2, HighestRecord
  <2>2. PICK q : q = CHOOSE x \in R : \A y \in R : y.height <= x.height
    OBVIOUS
  <2>3. q \in R /\ \A s \in R : s.height <= q.height
    BY <2>1, <2>2
  <2>4. Top(R) = [height |-> q.height, id |-> q.id]
    BY <1>2, <2>2 DEF Top
  <2>5. \A x \in R : (\A y \in R : y.height <= x.height) => x = q
    <3> SUFFICES ASSUME NEW x \in R, \A y \in R : y.height <= x.height PROVE x = q
      OBVIOUS
    <3>1. x.height <= q.height /\ q.height <= x.height /\ x.height \in Nat /\ q.height \in Nat
      BY <2>3, RecordFacts
    <3>2. x.height = q.height
      BY <3>1
    <3> QED BY <2>3, <3>2 DEF HeightsUnique
  <2> QED BY <1>2, <2>3, <2>4, <2>5 DEF IsTop
<1> QED BY <1>1, <1>2

LEMMA FileInvImplies ==
    FileInv => /\ FileTypeOK /\ BrokenOnlyByLoss /\ OneRecordPerHeight /\ ToldIsOnFile /\ TipIsTop
               /\ ClientHasOneRecord /\ ReplicaIsChain /\ ReplicaIsPrefix
<1> SUFFICES ASSUME FileInv
    PROVE  /\ FileTypeOK /\ BrokenOnlyByLoss /\ OneRecordPerHeight /\ ToldIsOnFile /\ TipIsTop
           /\ ClientHasOneRecord /\ ReplicaIsChain /\ ReplicaIsPrefix
  OBVIOUS
<1>1. StoresTyped
  BY FileTypeParts DEF FileInv
<1>2. BrokenOnlyByLoss /\ ToldIsOnFile
  BY DEF FileInv, FilesSound, BrokenOnlyByLoss, ToldIsOnFile
<1>3. OneRecordPerHeight
  BY DEF FileInv, FilesSound, RecordsUnique, HeightsUnique, OneRecordPerHeight
<1>4. TipIsTop
  BY <1>1, TopIs DEF FileInv, TopSound, RecordsUnique, TipIsTop, StoresTyped
<1>5. ClientHasOneRecord
  BY DEF FileInv, ClientsSound, ClientHasOneRecord
<1>6. ReplicaIsPrefix
  BY DEF FileInv, ReplicaSound, ReplicaIsPrefix
<1>7. ReplicaIsChain
  <2>1. \A r \in replica : r.prev \in {Genesis} \cup Ids(replica)
    BY DEF FileInv, ReplicaSound, Linked, Ids
  <2>2. ASSUME NEW r \in replica, r.prev # Genesis PROVE Of(r.prev, replica).height = r.height - 1
    <3>1. PICK s \in replica : s.id = r.prev /\ s.height = r.height - 1
      BY <2>2 DEF FileInv, ReplicaSound, Linked
    <3>2. \A q \in replica : q.id = r.prev => q = s
      BY <3>1 DEF FileInv, RecordsUnique, IdsUnique
    <3>3. Of(r.prev, replica) = s
      BY <3>1, <3>2 DEF Of
    <3> QED BY <3>1, <3>3
  <2>3. replicaTip = Top(replica)
    BY <1>1, TopIs DEF FileInv, ReplicaSound, RecordsUnique, StoresTyped
  <2> QED BY <2>1, <2>2, <2>3 DEF ReplicaIsChain
<1> QED BY <1>2, <1>3, <1>4, <1>5, <1>6, <1>7 DEF FileInv

LEMMA FileInitInv == FileInit => FileInv
<1> SUFFICES ASSUME FileInit PROVE FileInv OBVIOUS
<1>1. \A c \in Writer : call[c] = NoCall /\ call[c].at = "idle"
  BY FileTypes DEF FileInit
<1>2. \A p \in Puller : pull[p] = NoPull /\ pull[p].at = "idle"
  BY FileTypes DEF FileInit
<1>3. FileTypeOK
  <2>1. call \in [Writer -> CallRow] /\ pull \in [Puller -> PullRow]
    BY FileTypes DEF FileInit
  <2>2. 0 \in 0..MaxRecords /\ 0 \in 0..MaxFaults
    BY FileTypes
  <2>3. StoresTyped
    BY <2>2, FileTypes DEF FileInit, StoresTyped
  <2> QED BY <2>1, <2>3, FileTypeParts
<1>4. RecordsUnique /\ FilesSound /\ StopsUnread
  BY DEF FileInit, RecordsUnique, IdsUnique, HeightsUnique, FilesSound, StopsUnread, Ids
<1>5. TipsSound
  <2>1. memoryTip = Bottom /\ tipFile = Bottom /\ made = 0
    BY DEF FileInit
  <2>2. Bottom.height <= 0
    BY FileTypes
  <2>3. TipSound(memoryTip, byHeight, lost, made) /\ TipSound(tipFile, byHeight, lost, made)
    BY <2>1, <2>2, FileTypes DEF TipSound
  <2> QED BY <2>3 DEF TipsSound
<1>6. TopSound
  BY <1>1 DEF FileInit, TopSound, IsTop, PutSound
<1>7. ClientsSound
  BY <1>1 DEF FileInit, ClientsSound, Asks
<1>8. ReplicaSound
  BY DEF FileInit, ReplicaSound, Linked, IsTop, Ids
<1>9. \A c \in Writer : WriteSound(call[c], byHeight, journalFile, lost, made)
  BY <1>1 DEF WriteSound, WritingAt, OnFile
<1>10. \A p \in Puller : PullSound(pull[p], replica, byHeight)
  BY <1>2 DEF PullSound
<1> QED BY <1>3, <1>4, <1>5, <1>6, <1>7, <1>8, <1>9, <1>10 DEF FileInv
-----------------------------------------------------------------------------
LEMMA TipSoundGrows ==
    ASSUME NEW t, NEW R, NEW R2, NEW gone, NEW gone2, NEW n \in Nat, NEW n2 \in Nat, t.height \in Nat,
           TipSound(t, R, gone, n), R \subseteq R2, gone \subseteq gone2, n <= n2
    PROVE  TipSound(t, R2, gone2, n2)
BY DEF TipSound, Ids

LEMMA WriteSoundGrows ==
    ASSUME NEW row \in CallRow, NEW R, NEW R2, NEW J, NEW J2, NEW gone, NEW gone2,
           NEW n \in Nat, NEW n2 \in Nat,
           WriteSound(row, R, J, gone, n), R \subseteq R2, J \subseteq J2, gone \subseteq gone2, n <= n2
    PROVE  WriteSound(row, R2, J2, gone2, n2)
<1>1. row.seen.height \in Nat
  BY CallRowFacts, TipFacts
<1>2. row.at \in {"put", "tipText"} => TipSound(row.seen, R2, gone2, n2)
  BY <1>1, TipSoundGrows DEF WriteSound
<1> QED BY <1>2 DEF WriteSound

\* A call moves on while the records in memory stay as they are: row is what it is now.
Moves(c, row) ==
    /\ call' = [call EXCEPT ![c] = row]
    /\ UNCHANGED <<byHeight, byClientId, memoryTip, loaded, replica, replicaTip, pull, made, stale, forgot>>
    /\ journalFile \subseteq journalFile' /\ journalFile' \subseteq byHeight
    /\ lost \subseteq lost' /\ contested \subseteq contested'
    /\ told' \subseteq Ids(journalFile')
    /\ tipFile' = Torn \/ TipSound(tipFile', byHeight, lost', made)

LEMMA MovesInv ==
    ASSUME FileInv, NEW c \in Writer, NEW row \in CallRow, Moves(c, row), loaded, StoresTyped',
           WriteSound(row, byHeight, journalFile', lost', made),
           row.at = "put" => row.seen = memoryTip,
           call[c].at = "line" => \/ row.at = "line" /\ row.rec = call[c].rec
                                  \/ call[c].rec \in journalFile' \/ call[c].rec.id \in lost',
           \A k \in Client : Asks(row, k) /\ k \notin contested' /\ ~forgot =>
               \/ Asks(call[c], k)
               \/ /\ \A r \in byHeight : r.client # k
                  /\ \A d \in Writer : ~Asks(call[d], k)
    PROVE  FileInv'
<1>1. StoresTyped /\ call \in [Writer -> CallRow] /\ pull \in [Puller -> PullRow]
  BY FileTypeParts DEF FileInv
<1>2. /\ UNCHANGED <<byHeight, byClientId, memoryTip, loaded, replica, replicaTip, pull, made, stale, forgot>>
      /\ journalFile \subseteq journalFile' /\ journalFile' \subseteq byHeight
      /\ lost \subseteq lost' /\ contested \subseteq contested'
      /\ told' \subseteq Ids(journalFile')
      /\ tipFile' = Torn \/ TipSound(tipFile', byHeight, lost', made)
  BY DEF Moves
<1>3. call' \in [Writer -> CallRow] /\ call'[c] = row /\ \A d \in Writer : d # c => call'[d] = call[d]
  BY <1>1 DEF Moves
<1>4. FileTypeOK'
  BY <1>1, <1>2, <1>3, FileTypeParts
<1>5. RecordsUnique'
  BY <1>2 DEF FileInv, RecordsUnique
<1>6. FilesSound'
  <2>1. \A r \in byHeight : r.prev \in {Genesis} \cup Ids(byHeight) \cup lost'
    BY <1>2 DEF FileInv, FilesSound
  <2>2. ASSUME NEW r \in byHeight
        PROVE  \/ r \in journalFile'
               \/ r.id \in lost'
               \/ \E d \in Writer : call'[d].at = "line" /\ call'[d].rec = r
    <3>1. CASE r \in journalFile \/ r.id \in lost
      BY <1>2, <3>1
    <3>2. CASE \E d \in Writer : call[d].at = "line" /\ call[d].rec = r
      <4>1. PICK d \in Writer : call[d].at = "line" /\ call[d].rec = r
        BY <3>2
      <4>2. CASE d = c
        BY <1>3, <4>1, <4>2
      <4>3. CASE d # c
        BY <1>3, <4>1, <4>3
      <4> QED BY <4>2, <4>3
    <3> QED BY <3>1, <3>2 DEF FileInv, FilesSound
  <2> QED BY <1>2, <2>1, <2>2 DEF FilesSound
<1>7. StopsUnread'
  BY <1>2 DEF StopsUnread
<1>8. TipsSound'
  <2>1. made \in Nat /\ memoryTip.height \in Nat
    BY <1>1, TipFacts, FileTypes DEF StoresTyped
  <2>2. TipSound(memoryTip, byHeight, lost', made)
    BY <1>2, <2>1, TipSoundGrows DEF FileInv, TipsSound
  <2> QED BY <1>2, <2>2 DEF TipsSound
<1>9. TopSound'
  <2> SUFFICES ASSUME ~stale
      PROVE IsTop(memoryTip, byHeight) /\ \A d \in Writer : PutSound(call'[d], byHeight, memoryTip)
    BY <1>2 DEF TopSound
  <2>1. IsTop(memoryTip, byHeight) /\ \A d \in Writer : PutSound(call[d], byHeight, memoryTip)
    BY DEF FileInv, TopSound
  <2>2. PutSound(row, byHeight, memoryTip)
    <3>1. memoryTip.height \in Nat
      BY <1>1, TipFacts DEF StoresTyped
    <3>2. memoryTip.height <= memoryTip.height /\ Filled(byHeight, memoryTip.height, memoryTip.height)
      BY <3>1 DEF Filled
    <3> QED BY <3>2 DEF PutSound
  <2> QED BY <1>3, <2>1, <2>2
<1>10. ClientsSound'
  <2> SUFFICES ASSUME ~forgot
      PROVE  /\ \A r \in byHeight : \E s \in byHeight : s.id = byClientId[r.client] /\ s.client = r.client
             /\ \A r, s \in byHeight : r.client = s.client /\ r.client \notin contested' => r = s
             /\ \A d \in Writer, k \in Client : Asks(call'[d], k) /\ k \notin contested' =>
                   /\ \A r \in byHeight : r.client # k
                   /\ \A e \in Writer : Asks(call'[e], k) => e = d
    BY <1>2 DEF ClientsSound
  <2>1. /\ \A r \in byHeight : \E s \in byHeight : s.id = byClientId[r.client] /\ s.client = r.client
        /\ \A r, s \in byHeight : r.client = s.client /\ r.client \notin contested' => r = s
    BY <1>2 DEF FileInv, ClientsSound
  <2>2. \A d \in Writer, k \in Client : Asks(call[d], k) /\ k \notin contested' =>
                   /\ \A r \in byHeight : r.client # k
                   /\ \A e \in Writer : Asks(call[e], k) => e = d
    BY <1>2 DEF FileInv, ClientsSound
  <2>3. ASSUME NEW d \in Writer, NEW k \in Client, Asks(call'[d], k), k \notin contested'
        PROVE  /\ \A r \in byHeight : r.client # k
               /\ \A e \in Writer : Asks(call'[e], k) => e = d
    <3>1. CASE \A e \in Writer : Asks(call'[e], k) => Asks(call[e], k)
      BY <2>2, <2>3, <3>1
    <3>2. CASE ~(\A e \in Writer : Asks(call'[e], k) => Asks(call[e], k))
      <4>1. Asks(row, k) /\ ~Asks(call[c], k)
        BY <1>3, <3>2
      <4>2. (\A r \in byHeight : r.client # k) /\ (\A e \in Writer : ~Asks(call[e], k))
        BY <2>3, <4>1
      <4>3. \A e \in Writer : Asks(call'[e], k) => e = c
        BY <1>3, <4>2
      <4> QED BY <2>3, <4>2, <4>3
    <3> QED BY <3>1, <3>2
  <2> QED BY <2>1, <2>3
<1>11. ReplicaSound'
  BY <1>2 DEF FileInv, ReplicaSound
<1>12. \A d \in Writer : WriteSound(call'[d], byHeight, journalFile', lost', made)
  <2> SUFFICES ASSUME NEW d \in Writer, d # c PROVE WriteSound(call'[d], byHeight, journalFile', lost', made)
    BY <1>3
  <2>1. call'[d] = call[d] /\ call[d] \in CallRow /\ made \in Nat /\ made <= made
    BY <1>1, <1>3, FileTypes DEF StoresTyped
  <2>2. WriteSound(call[d], byHeight, journalFile, lost, made)
    BY DEF FileInv
  <2>3. WriteSound(call[d], byHeight, journalFile', lost', made)
    BY <1>2, <2>1, <2>2, WriteSoundGrows
  <2> QED BY <2>1, <2>3
<1>13. \A p \in Puller : PullSound(pull'[p], replica, byHeight)
  BY <1>2 DEF FileInv
<1>14. /\ (\A d \in Writer : WriteSound(call[d], byHeight, journalFile, lost, made))'
       /\ (\A p \in Puller : PullSound(pull[p], replica, byHeight))'
  BY <1>2, <1>12, <1>13
<1> QED BY <1>4, <1>5, <1>6, <1>7, <1>8, <1>9, <1>10, <1>11, <1>14 DEF FileInv

LEMMA BusyIsLoaded ==
    ASSUME FileInv
    PROVE  /\ \A c \in Writer : call[c].at # "idle" => loaded
           /\ \A p \in Puller : pull[p].at # "idle" => loaded
BY FileTypes DEF FileInv, StopsUnread

\* What a call that moves keeps, and its row.
LEMMA CallIs ==
    ASSUME FileInv, NEW c \in Writer
    PROVE  /\ StoresTyped /\ call[c] \in CallRow /\ made \in Nat
           /\ WriteSound(call[c], byHeight, journalFile, lost, made)
           /\ journalFile \subseteq byHeight /\ byHeight \subseteq FileRecord
           /\ told \subseteq Ids(journalFile)
           /\ tipFile = Torn \/ TipSound(tipFile, byHeight, lost, made)
           /\ loaded => TipSound(memoryTip, byHeight, lost, made)
<1>1. StoresTyped /\ call[c] \in CallRow
  BY FileTypeParts DEF FileInv
<1>2. made \in Nat
  BY <1>1, FileTypes DEF StoresTyped
<1> QED BY <1>1, <1>2 DEF FileInv, FilesSound, TipsSound, StoresTyped

LEMMA AppendFactInv ==
    ASSUME FileInv, NEW c \in Writer, NEW k \in Client, AppendFact(c, k)
    PROVE  FileInv'
<1>1. /\ StoresTyped /\ call[c] \in CallRow /\ call[c].at = "idle" /\ loaded
      /\ WriteSound(call[c], byHeight, journalFile, lost, made)
      /\ call \in [Writer -> CallRow]
  BY CallIs, FileTypeParts DEF AppendFact, FileInv
<1>2. /\ UNCHANGED <<byHeight, byClientId, memoryTip, journalFile, tipFile, clientsFile, loaded,
                     replica, replicaTip, pull, made, faults, lost, stale, forgot>>
  BY DEF AppendFact, memory, files, copy
<1>3. PICK known : known = {r \in byHeight : r.id = byClientId[k]}
  OBVIOUS
<1>4. CASE /\ known # {} /\ told' = told \cup (Ids(known) \cap Ids(journalFile))
           /\ UNCHANGED <<call, contested>>
  <2>1. told' \subseteq Ids(journalFile) /\ told' \subseteq 1..MaxRecords
    <3>1. Ids(journalFile) \subseteq 1..MaxRecords
      BY <1>1, RecordFacts DEF StoresTyped, Ids
    <3> QED BY <1>1, <1>4, <3>1, CallIs DEF StoresTyped
  <2>2. StoresTyped'
    BY <1>1, <1>2, <1>4, <2>1 DEF StoresTyped
  <2>3. PICK row : row = call[c]
    OBVIOUS
  <2>4. call' = [call EXCEPT ![c] = row]
    BY <1>1, <1>4, <2>3
  <2>5. Moves(c, row)
    BY <1>2, <1>4, <2>1, <2>4, CallIs DEF Moves
  <2>6. \A j \in Client : Asks(row, j) => Asks(call[c], j)
    BY <2>3
  <2> QED BY <1>1, <1>2, <2>2, <2>3, <2>5, <2>6, MovesInv
<1>5. CASE /\ known = {}
           /\ call' = [call EXCEPT ![c] = [NoCall EXCEPT !.at = "read", !.client = k]]
           /\ contested' = IF \E d \in Writer : call[d].at \in {"read", "put"} /\ call[d].client = k
                           THEN contested \cup {k} ELSE contested
           /\ UNCHANGED told
  <2>1. contested \subseteq contested' /\ contested' \subseteq Client
    BY <1>1, <1>5 DEF StoresTyped
  <2>2. StoresTyped'
    BY <1>1, <1>2, <1>5, <2>1 DEF StoresTyped
  <2>3. PICK row : row = [NoCall EXCEPT !.at = "read", !.client = k]
    OBVIOUS
  <2>4. row \in CallRow /\ row.at = "read" /\ row.client = k
    BY <2>3, FileTypes DEF CallRow
  <2>5. Moves(c, row)
    BY <1>2, <1>5, <2>1, <2>3, CallIs DEF Moves
  <2>6. WriteSound(row, byHeight, journalFile', lost', made)
    BY <2>4 DEF WriteSound, WritingAt, OnFile
  <2>7. ASSUME NEW j \in Client, Asks(row, j), j \notin contested', ~forgot
        PROVE  /\ \A r \in byHeight : r.client # j
               /\ \A d \in Writer : ~Asks(call[d], j)
    <3>1. j = k
      BY <2>4, <2>7 DEF Asks
    <3>2. \A d \in Writer : ~Asks(call[d], j)
      BY <1>5, <2>7, <3>1 DEF Asks
    <3>3. \A r \in byHeight : r.client # j
      BY <1>3, <1>5, <2>7, <3>1 DEF FileInv, ClientsSound
    <3> QED BY <3>2, <3>3
  <2> QED BY <1>1, <2>2, <2>4, <2>5, <2>6, <2>7, MovesInv
<1> QED BY <1>3, <1>4, <1>5 DEF AppendFact

LEMMA GetTipInv == ASSUME FileInv, NEW c \in Writer, GetTip(c) PROVE FileInv'
<1>1. /\ StoresTyped /\ call[c] \in CallRow /\ call[c].at = "read" /\ loaded
      /\ call' = [call EXCEPT ![c] = [call[c] EXCEPT !.at = "put", !.seen = memoryTip]]
      /\ UNCHANGED <<byHeight, byClientId, memoryTip, journalFile, tipFile, clientsFile, loaded,
                     replica, replicaTip, pull, made, faults, lost, stale, forgot, contested, told>>
  BY CallIs, BusyIsLoaded DEF GetTip, memory, files, copy, ghosts
<1>2. PICK old : old = call[c]
  OBVIOUS
<1>3. PICK row : row = [old EXCEPT !.at = "put", !.seen = memoryTip]
  OBVIOUS
<1>4. row \in CallRow /\ row.at = "put" /\ row.client = old.client /\ row.seen = memoryTip
  BY <1>1, <1>2, <1>3 DEF CallRow, StoresTyped
<1>5. StoresTyped'
  BY <1>1 DEF StoresTyped
<1>6. Moves(c, row)
  BY <1>1, <1>2, <1>3, CallIs DEF Moves
<1>7. WriteSound(row, byHeight, journalFile', lost', made)
  BY <1>1, <1>4, CallIs DEF WriteSound, WritingAt, OnFile
<1>8. \A k \in Client : Asks(row, k) => Asks(call[c], k)
  BY <1>1, <1>2, <1>4 DEF Asks
<1> QED BY <1>1, <1>4, <1>5, <1>6, <1>7, <1>8, MovesInv

LEMMA WriteLineInv == ASSUME FileInv, NEW c \in Writer, WriteLine(c) PROVE FileInv'
<1>1. /\ StoresTyped /\ call[c] \in CallRow /\ call[c].at = "line" /\ loaded
      /\ call[c].rec \in byHeight /\ made \in Nat
      /\ call' = [call EXCEPT ![c].at = "tip"]
      /\ journalFile' = journalFile \cup {call[c].rec}
      /\ UNCHANGED <<byHeight, byClientId, memoryTip, tipFile, clientsFile, loaded,
                     replica, replicaTip, pull, made, faults, lost, stale, forgot, contested, told>>
  BY CallIs, BusyIsLoaded DEF WriteLine, MovesTo, memory, copy, ghosts, WriteSound, WritingAt
<1>2. PICK old : old = call[c]
  OBVIOUS
<1>3. PICK row : row = [old EXCEPT !.at = "tip"]
  OBVIOUS
<1>4. row \in CallRow /\ row.at = "tip" /\ row.client = old.client /\ row.rec = old.rec
  BY <1>1, <1>2, <1>3 DEF CallRow
<1>5. StoresTyped'
  BY <1>1 DEF StoresTyped
<1>6. Moves(c, row)
  <2>1. told \subseteq Ids(journalFile')
    BY <1>1, CallIs DEF Ids
  <2>2. journalFile' \subseteq byHeight
    BY <1>1, CallIs
  <2>3. call' = [call EXCEPT ![c] = row]
    BY <1>1, <1>2, <1>3
  <2> QED BY <1>1, <2>1, <2>2, <2>3, CallIs DEF Moves
<1>7. WriteSound(row, byHeight, journalFile', lost', made)
  BY <1>1, <1>2, <1>4 DEF WriteSound, WritingAt, OnFile
<1>8. \A k \in Client : ~Asks(row, k)
  BY <1>4 DEF Asks
<1> QED BY <1>1, <1>4, <1>5, <1>6, <1>7, <1>8, MovesInv

LEMMA EmptyTipInv == ASSUME FileInv, NEW c \in Writer, EmptyTip(c) PROVE FileInv'
<1>1. /\ StoresTyped /\ call[c] \in CallRow /\ call[c].at = "tip" /\ loaded
      /\ call[c].rec \in byHeight /\ call[c].rec \in journalFile
      /\ call' = [call EXCEPT ![c] = [call[c] EXCEPT !.at = "tipText", !.seen = memoryTip]]
      /\ tipFile' = Torn
      /\ UNCHANGED <<byHeight, byClientId, memoryTip, journalFile, clientsFile, loaded,
                     replica, replicaTip, pull, made, faults, lost, stale, forgot, contested, told>>
  BY CallIs, BusyIsLoaded DEF EmptyTip, memory, copy, ghosts, WriteSound, WritingAt, OnFile
<1>2. PICK old : old = call[c]
  OBVIOUS
<1>3. PICK row : row = [old EXCEPT !.at = "tipText", !.seen = memoryTip]
  OBVIOUS
<1>4. row \in CallRow /\ row.at = "tipText" /\ row.rec = old.rec /\ row.seen = memoryTip
  BY <1>1, <1>2, <1>3 DEF CallRow, StoresTyped
<1>5. StoresTyped'
  BY <1>1, FileTypes DEF StoresTyped
<1>6. Moves(c, row)
  BY <1>1, <1>2, <1>3, CallIs DEF Moves
<1>7. WriteSound(row, byHeight, journalFile', lost', made)
  BY <1>1, <1>2, <1>4, CallIs DEF WriteSound, WritingAt, OnFile
<1>8. \A k \in Client : ~Asks(row, k)
  BY <1>4 DEF Asks
<1> QED BY <1>1, <1>4, <1>5, <1>6, <1>7, <1>8, MovesInv

LEMMA WriteTipInv == ASSUME FileInv, NEW c \in Writer, WriteTip(c) PROVE FileInv'
<1>1. /\ StoresTyped /\ call[c] \in CallRow /\ call[c].at = "tipText" /\ loaded
      /\ call[c].rec \in byHeight /\ call[c].rec \in journalFile
      /\ TipSound(call[c].seen, byHeight, lost, made)
      /\ call' = [call EXCEPT ![c].at = "clients"]
      /\ tipFile' = call[c].seen
      /\ UNCHANGED <<byHeight, byClientId, memoryTip, journalFile, clientsFile, loaded,
                     replica, replicaTip, pull, made, faults, lost, stale, forgot, contested, told>>
  BY CallIs, BusyIsLoaded DEF WriteTip, MovesTo, memory, copy, ghosts, WriteSound, WritingAt, OnFile
<1>2. PICK old : old = call[c]
  OBVIOUS
<1>3. PICK row : row = [old EXCEPT !.at = "clients"]
  OBVIOUS
<1>4. row \in CallRow /\ row.at = "clients" /\ row.rec = old.rec
  BY <1>1, <1>2, <1>3 DEF CallRow
<1>5. StoresTyped'
  BY <1>1, CallRowFacts DEF StoresTyped
<1>6. Moves(c, row)
  BY <1>1, <1>2, <1>3, CallIs DEF Moves
<1>7. WriteSound(row, byHeight, journalFile', lost', made)
  BY <1>1, <1>2, <1>4 DEF WriteSound, WritingAt, OnFile
<1>8. \A k \in Client : ~Asks(row, k)
  BY <1>4 DEF Asks
<1> QED BY <1>1, <1>4, <1>5, <1>6, <1>7, <1>8, MovesInv

LEMMA EmptyClientsInv == ASSUME FileInv, NEW c \in Writer, EmptyClients(c) PROVE FileInv'
<1>1. /\ StoresTyped /\ call[c] \in CallRow /\ call[c].at = "clients" /\ loaded
      /\ call[c].rec \in byHeight /\ call[c].rec \in journalFile
      /\ call' = [call EXCEPT ![c] = [call[c] EXCEPT !.at = "clientsText", !.text = byClientId]]
      /\ clientsFile' = Tear
      /\ UNCHANGED <<byHeight, byClientId, memoryTip, journalFile, tipFile, loaded,
                     replica, replicaTip, pull, made, faults, lost, stale, forgot, contested, told>>
  BY CallIs, BusyIsLoaded DEF EmptyClients, memory, copy, ghosts, WriteSound, WritingAt, OnFile
<1>2. PICK old : old = call[c]
  OBVIOUS
<1>3. PICK row : row = [old EXCEPT !.at = "clientsText", !.text = byClientId]
  OBVIOUS
<1>4. row \in CallRow /\ row.at = "clientsText" /\ row.rec = old.rec
  BY <1>1, <1>2, <1>3 DEF CallRow, StoresTyped
<1>5. StoresTyped'
  <2>1. Tear \in [ids : [Client -> 0..MaxRecords], torn : BOOLEAN]
    BY FileTypes DEF Tear
  <2> QED BY <1>1, <2>1 DEF StoresTyped
<1>6. Moves(c, row)
  BY <1>1, <1>2, <1>3, CallIs DEF Moves
<1>7. WriteSound(row, byHeight, journalFile', lost', made)
  BY <1>1, <1>2, <1>4 DEF WriteSound, WritingAt, OnFile
<1>8. \A k \in Client : ~Asks(row, k)
  BY <1>4 DEF Asks
<1> QED BY <1>1, <1>4, <1>5, <1>6, <1>7, <1>8, MovesInv

LEMMA WriteClientsInv == ASSUME FileInv, NEW c \in Writer, WriteClients(c) PROVE FileInv'
<1>1. /\ StoresTyped /\ call[c] \in CallRow /\ call[c].at = "clientsText" /\ loaded
      /\ call[c].rec \in byHeight /\ call[c].rec \in journalFile
      /\ call' = [call EXCEPT ![c] = NoCall]
      /\ clientsFile' = [ids |-> call[c].text, torn |-> FALSE]
      /\ told' = told \cup {call[c].rec.id}
      /\ UNCHANGED <<byHeight, byClientId, memoryTip, journalFile, tipFile, loaded,
                     replica, replicaTip, pull, made, faults, lost, stale, forgot, contested>>
  BY CallIs, BusyIsLoaded DEF WriteClients, Ends, memory, copy, WriteSound, WritingAt, OnFile
<1>2. StoresTyped'
  <2>1. clientsFile' \in [ids : [Client -> 0..MaxRecords], torn : BOOLEAN]
    BY <1>1, CallRowFacts
  <2>2. told' \subseteq 1..MaxRecords
    BY <1>1, RecordFacts DEF StoresTyped
  <2> QED BY <1>1, <2>1, <2>2 DEF StoresTyped
<1>3. Moves(c, NoCall)
  <2>1. told' \subseteq Ids(journalFile)
    BY <1>1, CallIs DEF Ids
  <2> QED BY <1>1, <2>1, CallIs DEF Moves
<1>4. WriteSound(NoCall, byHeight, journalFile', lost', made)
  BY FileTypes DEF WriteSound, WritingAt, OnFile
<1>5. \A k \in Client : ~Asks(NoCall, k)
  BY FileTypes DEF Asks
<1> QED BY <1>1, <1>2, <1>3, <1>4, <1>5, FileTypes, MovesInv

LEMMA WriteFailsInv == ASSUME FileInv, NEW c \in Writer, WriteFails(c) PROVE FileInv'
<1>1. /\ StoresTyped /\ call[c] \in CallRow /\ call[c].at \in {"line", "tip", "clients"} /\ loaded
      /\ call[c].rec \in byHeight
      /\ call' = [call EXCEPT ![c] = NoCall]
      /\ lost' = IF call[c].at = "line" THEN lost \cup {call[c].rec.id} ELSE lost
      /\ faults < MaxFaults /\ faults' = faults + 1
      /\ UNCHANGED <<byHeight, byClientId, memoryTip, journalFile, tipFile, clientsFile, loaded,
                     replica, replicaTip, pull, made, stale, forgot, contested, told>>
  BY CallIs, BusyIsLoaded DEF WriteFails, FileFault, Ends, memory, files, copy, WriteSound, WritingAt
<1>2. StoresTyped'
  <2>1. faults' \in 0..MaxFaults
    BY <1>1, FileTypes DEF StoresTyped
  <2>2. lost' \subseteq 1..MaxRecords
    BY <1>1, RecordFacts DEF StoresTyped
  <2> QED BY <1>1, <2>1, <2>2 DEF StoresTyped
<1>3. lost \subseteq lost' /\ (call[c].at = "line" => call[c].rec.id \in lost')
  BY <1>1
<1>4. Moves(c, NoCall)
  <2>1. tipFile = Torn \/ TipSound(tipFile, byHeight, lost', made)
    <3>1. tipFile.height \in Nat /\ made \in Nat /\ made <= made
      BY <1>1, CallIs, TipFacts DEF StoresTyped
    <3> QED BY <1>3, <3>1, CallIs, TipSoundGrows
  <2> QED BY <1>1, <1>3, <2>1, CallIs DEF Moves
<1>5. WriteSound(NoCall, byHeight, journalFile', lost', made)
  BY FileTypes DEF WriteSound, WritingAt, OnFile
<1>6. \A k \in Client : ~Asks(NoCall, k)
  BY FileTypes DEF Asks
<1> QED BY <1>1, <1>2, <1>3, <1>4, <1>5, <1>6, FileTypes, MovesInv

LEMMA PutRefusedInv ==
    ASSUME FileInv, NEW c \in Writer, call[c].at = "put", Ends(c), UNCHANGED <<memory, made>>,
           UNCHANGED <<files, loaded, copy, faults, ghosts>>
    PROVE  FileInv'
<1>1. /\ StoresTyped /\ call[c] \in CallRow /\ loaded /\ made \in Nat
      /\ call' = [call EXCEPT ![c] = NoCall]
      /\ UNCHANGED <<byHeight, byClientId, memoryTip, journalFile, tipFile, clientsFile, loaded,
                     replica, replicaTip, pull, made, faults, lost, stale, forgot, contested, told>>
  BY CallIs, BusyIsLoaded DEF Ends, memory, files, copy, ghosts
<1>2. StoresTyped'
  BY <1>1 DEF StoresTyped
<1>3. Moves(c, NoCall)
  BY <1>1, CallIs DEF Moves
<1>4. WriteSound(NoCall, byHeight, journalFile', lost', made)
  BY FileTypes DEF WriteSound, WritingAt, OnFile
<1>5. \A k \in Client : ~Asks(NoCall, k)
  BY FileTypes DEF Asks
<1> QED BY <1>1, <1>2, <1>3, <1>4, <1>5, FileTypes, MovesInv

\* A record enters the maps in memory, at a height that is free.
LEMMA PutAcceptedInv ==
    ASSUME FileInv, NEW c \in Writer, NEW h, NEW r, h = call[c].seen.height + 1,
           r = [id |-> made + 1, height |-> h, prev |-> call[c].seen.id, client |-> call[c].client],
           call[c].at = "put", AtHeight(h, byHeight) = {}, made < MaxRecords, made' = made + 1,
           byHeight' = byHeight \cup {r}, byClientId' = [byClientId EXCEPT ![r.client] = r.id],
           memoryTip' = [height |-> h, id |-> r.id],
           call' = [call EXCEPT ![c] = [@ EXCEPT !.at = "line", !.rec = r]],
           UNCHANGED <<files, loaded, copy, faults, ghosts>>
    PROVE  FileInv'
<1>1. /\ StoresTyped /\ call[c] \in CallRow /\ made \in Nat
      /\ WriteSound(call[c], byHeight, journalFile, lost, made)
      /\ call \in [Writer -> CallRow] /\ pull \in [Puller -> PullRow] /\ loaded
  BY CallIs, FileTypeParts, BusyIsLoaded DEF FileInv
<1>2. /\ UNCHANGED <<journalFile, tipFile, clientsFile, loaded, replica, replicaTip, pull, faults, lost,
                     stale, forgot, contested, told>>
  BY DEF files, copy, ghosts
<1>3. PICK old : old = call[c]
  OBVIOUS
<1>4. PICK row : row = [old EXCEPT !.at = "line", !.rec = r]
  OBVIOUS
<1>5. /\ old.seen \in TipPointer /\ old.client \in Client /\ TipSound(old.seen, byHeight, lost, made)
      /\ old.seen.height \in Nat /\ old.seen.id \in Nat /\ old.seen.id <= MaxRecords
  BY <1>1, <1>3, CallRowFacts, TipFacts DEF WriteSound
<1>6. /\ r.id = made + 1 /\ r.height = h /\ r.prev = old.seen.id /\ r.client = old.client
      /\ h = old.seen.height + 1 /\ h \in Nat /\ h <= made + 1 /\ h >= 1 /\ MaxRecords \in Nat
  BY <1>1, <1>3, <1>5, FileTypes DEF TipSound
<1>7. r \in FileRecord
  <2>1. made + 1 \in 1..MaxRecords /\ h \in 1..MaxRecords /\ old.seen.id \in 0..MaxRecords
    BY <1>1, <1>5, <1>6
  <2> QED BY <1>3, <1>5, <2>1 DEF FileRecord
<1>8. row \in CallRow /\ row.at = "line" /\ row.rec = r
  BY <1>1, <1>3, <1>4, <1>7 DEF CallRow
<1>9. call' \in [Writer -> CallRow] /\ call'[c] = row /\ \A d \in Writer : d # c => call'[d] = call[d]
  BY <1>1, <1>3, <1>4, <1>8
<1>10. FileTypeOK'
  <2>1. byClientId' \in [Client -> 0..MaxRecords]
    BY <1>1, <1>6, <1>5 DEF StoresTyped
  <2>2. memoryTip' \in TipPointer
    BY <1>6, <1>7, RecordFacts
  <2>3. made' \in 0..MaxRecords
    BY <1>1, <1>6
  <2>4. byHeight' \subseteq FileRecord
    BY <1>1, <1>7 DEF StoresTyped
  <2>5. StoresTyped'
    BY <1>1, <1>2, <2>1, <2>2, <2>3, <2>4 DEF StoresTyped
  <2> QED BY <1>1, <1>2, <1>9, <2>5, FileTypeParts
<1>11. \A s \in byHeight \cup replica : s \in FileRecord /\ s.id <= made /\ s.height <= made /\ s.id \in Nat /\ s.height \in Nat
  BY <1>1, RecordFacts DEF FileInv, RecordsUnique, StoresTyped
<1>12. \A s \in byHeight : s.height # h
  BY DEF AtHeight
<1>13. RecordsUnique'
  <2>1. IdsUnique(byHeight' \cup replica)
    <3>1. \A s \in byHeight \cup replica : s.id # r.id
      BY <1>1, <1>6, <1>11
    <3>2. IdsUnique(byHeight \cup replica)
      BY DEF FileInv, RecordsUnique
    <3> QED BY <3>1, <3>2 DEF IdsUnique
  <2>2. HeightsUnique(byHeight')
    BY <1>6, <1>12 DEF FileInv, RecordsUnique, HeightsUnique
  <2>3. \A s \in byHeight' \cup replica : s.id <= made + 1 /\ s.height <= made + 1
    <3> SUFFICES ASSUME NEW s \in byHeight' \cup replica PROVE s.id <= made + 1 /\ s.height <= made + 1
      OBVIOUS
    <3>1. CASE s = r
      BY <1>1, <1>6, <3>1
    <3>2. CASE s \in byHeight \cup replica
      BY <1>1, <1>11, <3>2
    <3> QED BY <3>1, <3>2
  <2>4. HeightsUnique(replica)
    BY DEF FileInv, RecordsUnique
  <2> QED BY <1>2, <2>1, <2>2, <2>3, <2>4 DEF RecordsUnique
<1>14. FilesSound'
  <2>1. journalFile \subseteq byHeight' /\ told \subseteq Ids(journalFile)
    BY DEF FileInv, FilesSound
  <2>2. ASSUME NEW s \in byHeight'
        PROVE  \/ s \in journalFile
               \/ s.id \in lost
               \/ \E d \in Writer : call'[d].at = "line" /\ call'[d].rec = s
    <3>1. CASE s = r
      BY <1>8, <1>9, <3>1
    <3>2. CASE s \in journalFile \/ s.id \in lost
      BY <3>2
    <3>3. CASE \E d \in Writer : call[d].at = "line" /\ call[d].rec = s
      BY <1>9, <3>3
    <3> QED BY <2>2, <3>1, <3>2, <3>3 DEF FileInv, FilesSound
  <2>3. \A s \in byHeight' : s.prev \in {Genesis} \cup Ids(byHeight') \cup lost
    <3>1. Ids(byHeight) \subseteq Ids(byHeight')
      BY DEF Ids
    <3>2. r.prev \in {Genesis} \cup Ids(byHeight) \cup lost
      BY <1>5, <1>6 DEF TipSound
    <3>3. \A s \in byHeight : s.prev \in {Genesis} \cup Ids(byHeight) \cup lost
      BY DEF FileInv, FilesSound
    <3> QED BY <3>1, <3>2, <3>3
  <2> QED BY <1>2, <2>1, <2>2, <2>3 DEF FilesSound
<1>15. StopsUnread'
  BY <1>1, <1>2 DEF StopsUnread
<1>16. TipsSound'
  <2>1. tipFile = Torn \/ TipSound(tipFile, byHeight', lost, made + 1)
    <3>1. tipFile.height \in Nat /\ made + 1 \in Nat /\ made <= made + 1 /\ byHeight \subseteq byHeight'
      BY <1>1, TipFacts DEF StoresTyped
    <3> QED BY <1>1, <3>1, CallIs, TipSoundGrows
  <2>2. memoryTip'.id \in Ids(byHeight') /\ memoryTip'.height = h
    BY <1>6 DEF Ids
  <2>3. TipSound(memoryTip', byHeight', lost, made + 1)
    BY <1>6, <2>2 DEF TipSound
  <2> QED BY <1>2, <2>1, <2>3 DEF TipsSound
<1>17. TopSound'
  <2> SUFFICES ASSUME ~stale
      PROVE IsTop(memoryTip', byHeight') /\ \A d \in Writer : PutSound(call'[d], byHeight', memoryTip')
    BY <1>2 DEF TopSound
  <2>1. IsTop(memoryTip, byHeight) /\ \A d \in Writer : PutSound(call[d], byHeight, memoryTip)
    BY <1>1 DEF FileInv, TopSound
  <2>2. memoryTip.height \in Nat
    BY <1>1, TipFacts DEF StoresTyped
  <2>3. old.seen.height <= memoryTip.height /\ Filled(byHeight, old.seen.height, memoryTip.height)
    BY <1>3, <2>1 DEF PutSound
  <2>4. h = memoryTip.height + 1
    <3>1. CASE old.seen.height < memoryTip.height
      <4>1. h \in 1..memoryTip.height /\ h > old.seen.height
        BY <1>5, <1>6, <2>2, <3>1
      <4> QED BY <1>12, <2>3, <4>1 DEF Filled
    <3> QED BY <1>5, <1>6, <2>2, <2>3, <3>1
  <2>5. \A s \in byHeight : s.height <= memoryTip.height /\ s.height \in Nat
    BY <1>11, <2>1 DEF IsTop
  <2>6. IsTop(memoryTip', byHeight')
    <3>1. \A s \in byHeight' : s.height <= r.height
      BY <1>6, <2>2, <2>4, <2>5
    <3> QED BY <1>6, <3>1 DEF IsTop
  <2>7. ASSUME NEW d \in Writer, call'[d].at = "put"
        PROVE  call'[d].seen.height <= h /\ Filled(byHeight', call'[d].seen.height, h)
    <3>1. call'[d] = call[d] /\ call[d] \in CallRow
      BY <1>1, <1>8, <1>9, <2>7
    <3>2. call[d].seen.height \in Nat
      BY <3>1, CallRowFacts, TipFacts
    <3>3. call[d].seen.height <= memoryTip.height /\ Filled(byHeight, call[d].seen.height, memoryTip.height)
      BY <2>1, <2>7, <3>1 DEF PutSound
    <3>4. call[d].seen.height <= h
      BY <2>2, <2>4, <3>2, <3>3
    <3>5. Filled(byHeight', call[d].seen.height, h)
      <4> SUFFICES ASSUME NEW x \in 1..h, x > call[d].seen.height PROVE \E s \in byHeight' : s.height = x
        BY DEF Filled
      <4>1. CASE x = h
        BY <1>6, <4>1
      <4>2. CASE x # h
        <5>1. x \in 1..memoryTip.height
          BY <2>2, <2>4, <4>2
        <5> QED BY <3>3, <5>1 DEF Filled
      <4> QED BY <4>1, <4>2
    <3> QED BY <3>1, <3>4, <3>5
  <2>8. memoryTip'.height = h
    OBVIOUS
  <2> QED BY <2>6, <2>7, <2>8 DEF PutSound
<1>18. ClientsSound'
  <2> SUFFICES ASSUME ~forgot
      PROVE  /\ \A q \in byHeight' : \E s \in byHeight' : s.id = byClientId'[q.client] /\ s.client = q.client
             /\ \A q, s \in byHeight' : q.client = s.client /\ q.client \notin contested => q = s
             /\ \A d \in Writer, k \in Client : Asks(call'[d], k) /\ k \notin contested =>
                   /\ \A q \in byHeight' : q.client # k
                   /\ \A e \in Writer : Asks(call'[e], k) => e = d
    BY <1>2 DEF ClientsSound
  <2>1. /\ \A q \in byHeight : \E s \in byHeight : s.id = byClientId[q.client] /\ s.client = q.client
        /\ \A q, s \in byHeight : q.client = s.client /\ q.client \notin contested => q = s
    BY DEF FileInv, ClientsSound
  <2>2. \A d \in Writer, k \in Client : Asks(call[d], k) /\ k \notin contested =>
                   /\ \A q \in byHeight : q.client # k
                   /\ \A e \in Writer : Asks(call[e], k) => e = d
    BY DEF FileInv, ClientsSound
  <2>3. Asks(call[c], r.client) /\ r.client \in Client
    BY <1>3, <1>5, <1>6 DEF Asks
  <2>4. \A q \in byHeight : q.client \in Client
    BY <1>11, RecordFacts
  <2>5. ASSUME NEW q \in byHeight' PROVE \E s \in byHeight' : s.id = byClientId'[q.client] /\ s.client = q.client
    <3>1. CASE q.client = r.client
      <4>1. byClientId'[q.client] = r.id
        BY <1>1, <2>3, <3>1 DEF StoresTyped
      <4> QED BY <3>1, <4>1
    <3>2. CASE q.client # r.client
      <4>1. q \in byHeight /\ byClientId'[q.client] = byClientId[q.client]
        BY <1>1, <2>4, <3>2 DEF StoresTyped
      <4> QED BY <2>1, <4>1
    <3> QED BY <3>1, <3>2
  <2>6. r.client \notin contested => \A q \in byHeight : q.client # r.client
    BY <2>2, <2>3
  <2>7. \A q, s \in byHeight' : q.client = s.client /\ q.client \notin contested => q = s
    BY <2>1, <2>6
  <2>8. ASSUME NEW d \in Writer, NEW k \in Client, Asks(call'[d], k), k \notin contested
        PROVE  /\ \A q \in byHeight' : q.client # k
               /\ \A e \in Writer : Asks(call'[e], k) => e = d
    <3>1. \A e \in Writer : Asks(call'[e], k) => e # c /\ Asks(call[e], k)
      BY <1>8, <1>9 DEF Asks
    <3>2. d # c /\ Asks(call[d], k)
      BY <2>8, <3>1
    <3>3. k # r.client
      BY <2>2, <2>3, <2>8, <3>2
    <3> QED BY <2>2, <2>8, <3>1, <3>2, <3>3
  <2> QED BY <2>5, <2>7, <2>8
<1>19. ReplicaSound'
  <2>1. Ids(byHeight) \subseteq Ids(byHeight')
    BY DEF Ids
  <2>2. Linked(replica) /\ IsTop(replicaTip, replica) /\ Ids(replica) \subseteq Ids(byHeight) \cup lost
    BY DEF FileInv, ReplicaSound
  <2>3. Ids(replica) \subseteq Ids(byHeight') \cup lost
    BY <2>1, <2>2
  <2> QED BY <1>2, <2>2, <2>3 DEF ReplicaSound
<1>20. \A d \in Writer : WriteSound(call'[d], byHeight', journalFile, lost, made + 1)
  <2> SUFFICES ASSUME NEW d \in Writer PROVE WriteSound(call'[d], byHeight', journalFile, lost, made + 1)
    OBVIOUS
  <2>1. CASE d = c
    BY <1>8, <1>9, <2>1 DEF WriteSound, WritingAt, OnFile
  <2>2. CASE d # c
    <3>1. call'[d] = call[d] /\ call[d] \in CallRow /\ WriteSound(call[d], byHeight, journalFile, lost, made)
      BY <1>1, <1>9, <2>2 DEF FileInv
    <3>2. made + 1 \in Nat /\ made <= made + 1 /\ byHeight \subseteq byHeight'
      BY <1>1
    <3>3. WriteSound(call[d], byHeight', journalFile, lost, made + 1)
      BY <1>1, <3>1, <3>2, WriteSoundGrows
    <3> QED BY <3>1, <3>3
  <2> QED BY <2>1, <2>2
<1>21. \A p \in Puller : PullSound(pull[p], replica, byHeight')
  BY DEF FileInv, PullSound
<1>22. /\ (\A d \in Writer : WriteSound(call[d], byHeight, journalFile, lost, made))'
       /\ (\A p \in Puller : PullSound(pull[p], replica, byHeight))'
  BY <1>2, <1>20, <1>21
<1> QED BY <1>10, <1>13, <1>14, <1>15, <1>16, <1>17, <1>18, <1>19, <1>22 DEF FileInv

LEMMA PutInv == ASSUME FileInv, NEW c \in Writer, Put(c) PROVE FileInv'
<1>1. PICK h : h = call[c].seen.height + 1
  OBVIOUS
<1>2. PICK r : r = [id |-> made + 1, height |-> h, prev |-> call[c].seen.id, client |-> call[c].client]
  OBVIOUS
<1>3. /\ call[c].at = "put"
      /\ \/ Ends(c) /\ UNCHANGED <<memory, made>>
         \/ /\ AtHeight(h, byHeight) = {} /\ made < MaxRecords
            /\ made' = made + 1
            /\ byHeight' = byHeight \cup {r}
            /\ byClientId' = [byClientId EXCEPT ![r.client] = r.id]
            /\ memoryTip' = [height |-> h, id |-> r.id]
            /\ call' = [call EXCEPT ![c] = [@ EXCEPT !.at = "line", !.rec = r]]
      /\ UNCHANGED <<files, loaded, copy, faults, ghosts>>
  BY <1>1, <1>2 DEF Put
<1>4. CASE Ends(c) /\ UNCHANGED <<memory, made>>
  BY <1>3, <1>4, PutRefusedInv
<1>5. CASE /\ AtHeight(h, byHeight) = {} /\ made < MaxRecords
           /\ made' = made + 1
           /\ byHeight' = byHeight \cup {r}
           /\ byClientId' = [byClientId EXCEPT ![r.client] = r.id]
           /\ memoryTip' = [height |-> h, id |-> r.id]
           /\ call' = [call EXCEPT ![c] = [@ EXCEPT !.at = "line", !.rec = r]]
  BY <1>1, <1>2, <1>3, <1>5, PutAcceptedInv
<1> QED BY <1>3, <1>4, <1>5

LEMMA CrashAndLoadInv == ASSUME FileInv, CrashAndLoad PROVE FileInv'
<1>1. /\ StoresTyped /\ call \in [Writer -> CallRow] /\ pull \in [Puller -> PullRow] /\ made \in Nat
  BY FileTypeParts, FileTypes DEF FileInv, StoresTyped
<1>2. /\ faults < MaxFaults /\ faults' = faults + 1 /\ lost' = lost \cup Unwritten
      /\ byHeight' = journalFile /\ byClientId' = clientsFile.ids /\ memoryTip' = tipFile
      /\ call' = [c \in Writer |-> NoCall] /\ pull' = [p \in Puller |-> NoPull]
      /\ stale' = (stale \/ tipFile # Top(journalFile))
      /\ forgot' = (forgot \/ \E r \in journalFile :
                      \A s \in journalFile : clientsFile.ids[r.client] = s.id => s.client # r.client)
      /\ loaded' = (tipFile # Torn /\ ~clientsFile.torn)
      /\ UNCHANGED <<journalFile, tipFile, clientsFile, replica, replicaTip, made, contested, told>>
  BY DEF CrashAndLoad, FileFault, files
<1>3. journalFile \subseteq byHeight /\ lost \subseteq lost'
  BY <1>2 DEF FileInv, FilesSound
<1>4. Ids(byHeight) \subseteq Ids(journalFile) \cup lost'
  <2> SUFFICES ASSUME NEW r \in byHeight PROVE r.id \in Ids(journalFile) \cup lost'
    BY DEF Ids
  <2>1. CASE r \in journalFile
    BY <2>1 DEF Ids
  <2>2. CASE r.id \in lost
    BY <1>2, <2>2
  <2>3. CASE \E c \in Writer : call[c].at = "line" /\ call[c].rec = r
    BY <1>2, <2>3 DEF Unwritten
  <2> QED BY <2>1, <2>2, <2>3 DEF FileInv, FilesSound
<1>5. Unwritten \subseteq 1..MaxRecords
  <2> SUFFICES ASSUME NEW c \in Writer, call[c].at = "line" PROVE call[c].rec.id \in 1..MaxRecords
    BY DEF Unwritten
  <2>1. call[c].rec \in byHeight /\ byHeight \subseteq FileRecord
    BY CallIs DEF WriteSound, WritingAt
  <2> QED BY <2>1, RecordFacts
<1>6. FileTypeOK'
  <2>1. faults' \in 0..MaxFaults
    BY <1>1, <1>2, FileTypes DEF StoresTyped
  <2>2. loaded' \in BOOLEAN /\ stale' \in BOOLEAN /\ forgot' \in BOOLEAN
    BY <1>2
  <2>3. lost' \subseteq 1..MaxRecords
    BY <1>1, <1>2, <1>5 DEF StoresTyped
  <2>4. StoresTyped'
    BY <1>1, <1>2, <2>1, <2>2, <2>3 DEF StoresTyped
  <2>5. call' \in [Writer -> CallRow] /\ pull' \in [Puller -> PullRow]
    BY <1>2, FileTypes
  <2> QED BY <2>4, <2>5, FileTypeParts
<1>7. \A c \in Writer : call'[c] = NoCall /\ call'[c].at = "idle"
  BY <1>2, FileTypes
<1>8. \A p \in Puller : pull'[p] = NoPull /\ pull'[p].at = "idle"
  BY <1>2, FileTypes
<1>9. HeightsUnique(journalFile)
  BY <1>3 DEF FileInv, RecordsUnique, HeightsUnique
<1>10. RecordsUnique'
  <2>1. IdsUnique(journalFile \cup replica)
    BY <1>3 DEF FileInv, RecordsUnique, IdsUnique
  <2>2. \A r \in journalFile \cup replica : r.id <= made /\ r.height <= made
    BY <1>3 DEF FileInv, RecordsUnique
  <2>3. HeightsUnique(replica)
    BY DEF FileInv, RecordsUnique
  <2> QED BY <1>2, <1>9, <2>1, <2>2, <2>3 DEF RecordsUnique
<1>11. FilesSound'
  <2>1. told \subseteq Ids(journalFile)
    BY DEF FileInv, FilesSound
  <2>2. \A r \in journalFile : r.prev \in {Genesis} \cup Ids(journalFile) \cup lost'
    BY <1>3, <1>4 DEF FileInv, FilesSound
  <2> QED BY <1>2, <2>1, <2>2 DEF FilesSound
<1>12. StopsUnread'
  BY <1>7, <1>8 DEF StopsUnread
<1>13. TipsSound'
  <2>1. tipFile = Torn \/ TipSound(tipFile, journalFile, lost', made)
    <3>1. tipFile = Torn \/ TipSound(tipFile, byHeight, lost, made)
      BY DEF FileInv, TipsSound
    <3> QED BY <1>3, <1>4, <3>1 DEF TipSound
  <2> QED BY <1>2, <2>1 DEF TipsSound
<1>14. TopSound'
  <2> SUFFICES ASSUME ~stale' PROVE IsTop(tipFile, journalFile)
    BY <1>2, <1>7 DEF TopSound, PutSound
  <2>1. tipFile = Top(journalFile)
    BY <1>2
  <2> QED BY <1>1, <1>9, <2>1, TopIs DEF StoresTyped
<1>15. ClientsSound'
  <2> SUFFICES ASSUME ~forgot'
      PROVE  /\ \A r \in journalFile : \E s \in journalFile : s.id = clientsFile.ids[r.client] /\ s.client = r.client
             /\ \A r, s \in journalFile : r.client = s.client /\ r.client \notin contested => r = s
    BY <1>2, <1>7 DEF ClientsSound, Asks
  <2>1. /\ ~forgot
        /\ \A r \in journalFile : \E s \in journalFile : clientsFile.ids[r.client] = s.id /\ s.client = r.client
    BY <1>2
  <2> QED BY <1>3, <2>1 DEF FileInv, ClientsSound
<1>16. ReplicaSound'
  <2>1. Linked(replica) /\ IsTop(replicaTip, replica) /\ Ids(replica) \subseteq Ids(journalFile) \cup lost'
    BY <1>3, <1>4 DEF FileInv, ReplicaSound
  <2> QED BY <1>2, <2>1 DEF ReplicaSound
<1>17. /\ (\A c \in Writer : WriteSound(call[c], byHeight, journalFile, lost, made))'
       /\ (\A p \in Puller : PullSound(pull[p], replica, byHeight))'
  BY <1>7, <1>8 DEF WriteSound, WritingAt, OnFile, PullSound
<1> QED BY <1>6, <1>10, <1>11, <1>12, <1>13, <1>14, <1>15, <1>16, <1>17 DEF FileInv
-----------------------------------------------------------------------------
\* A catch-up moves on and nothing else does: row is what it is now.
LEMMA PullMovesInv ==
    ASSUME FileInv, NEW p \in Puller, NEW row \in PullRow, pull' = [pull EXCEPT ![p] = row], loaded,
           UNCHANGED <<memory, files, loaded, call, replica, replicaTip, made, faults, ghosts>>,
           PullSound(row, replica, byHeight)
    PROVE  FileInv'
<1>1. StoresTyped /\ call \in [Writer -> CallRow] /\ pull \in [Puller -> PullRow]
  BY FileTypeParts DEF FileInv
<1>2. UNCHANGED <<byHeight, byClientId, memoryTip, journalFile, tipFile, clientsFile, loaded, call,
                  replica, replicaTip, made, faults, lost, stale, forgot, contested, told>>
  BY DEF memory, files, ghosts
<1>3. FileTypeOK'
  <2>1. StoresTyped'
    BY <1>1, <1>2 DEF StoresTyped
  <2> QED BY <1>1, <1>2, <2>1, FileTypeParts
<1>4. RecordsUnique' /\ FilesSound'
  BY <1>2 DEF FileInv, RecordsUnique, FilesSound
<1>5. StopsUnread' /\ TipsSound' /\ TopSound'
  BY <1>2 DEF FileInv, StopsUnread, TipsSound, TopSound
<1>6. ClientsSound' /\ ReplicaSound'
  BY <1>2 DEF FileInv, ClientsSound, ReplicaSound
<1>7. (\A c \in Writer : WriteSound(call[c], byHeight, journalFile, lost, made))'
  BY <1>2 DEF FileInv
<1>8. (\A q \in Puller : PullSound(pull[q], replica, byHeight))'
  BY <1>1, <1>2 DEF FileInv
<1> QED BY <1>3, <1>4, <1>5, <1>6, <1>7, <1>8 DEF FileInv

\* What a catch-up under way rests on.
LEMMA PullIs ==
    ASSUME FileInv, NEW p \in Puller
    PROVE  /\ StoresTyped /\ pull \in [Puller -> PullRow] /\ pull[p] \in PullRow
           /\ PullSound(pull[p], replica, byHeight)
           /\ byHeight \subseteq FileRecord /\ replica \subseteq FileRecord
           /\ HeightsUnique(byHeight) /\ HeightsUnique(replica)
           /\ Linked(replica) /\ IsTop(replicaTip, replica)
BY FileTypeParts DEF FileInv, StoresTyped, RecordsUnique, ReplicaSound

LEMMA CatchUpInv == ASSUME FileInv, NEW p \in Puller, CatchUp(p) PROVE FileInv'
<1>1. PICK row : row = [NoPull EXCEPT !.at = "list", !.prev = replicaTip]
  OBVIOUS
<1>2. pull' = [pull EXCEPT ![p] = row] /\ loaded
  BY <1>1 DEF CatchUp
<1>3. row \in PullRow /\ row.at = "list" /\ row.prev = replicaTip /\ row.segment = {}
  BY <1>1, PullIs, FileTypes DEF PullRow, StoresTyped
<1>4. \A r \in replica : ~(r.height > replicaTip.height)
  <2> SUFFICES ASSUME NEW r \in replica PROVE ~(r.height > replicaTip.height)
    OBVIOUS
  <2>1. r.height <= replicaTip.height
    BY PullIs DEF IsTop
  <2>2. r.height \in Nat /\ replicaTip.height \in Nat
    BY PullIs, RecordFacts, TipFacts DEF StoresTyped
  <2> QED BY <2>1, <2>2
<1>5. replicaTip = Bottom \/ \E r \in replica : replicaTip = [height |-> r.height, id |-> r.id]
  BY PullIs DEF IsTop
<1>6. PullSound(row, replica, byHeight)
  BY <1>3, <1>4, <1>5 DEF PullSound
<1> QED BY <1>2, <1>3, <1>6, PullMovesInv DEF CatchUp

LEMMA NoPullSound == \A own, R : PullSound(NoPull, own, R)
BY FileTypes DEF PullSound

LEMMA ListInv == ASSUME FileInv, NEW p \in Puller, List(p) PROVE FileInv'
<1>1. PICK old : old = pull[p]
  OBVIOUS
<1>2. PICK segment : segment = {r \in byHeight : r.height > old.prev.height}
  OBVIOUS
<1>3. PICK row : row = IF segment = {} THEN NoPull ELSE [old EXCEPT !.at = "check", !.segment = segment]
  OBVIOUS
<1>4. /\ pull' = [pull EXCEPT ![p] = row] /\ loaded /\ old.at = "list"
      /\ UNCHANGED <<memory, files, loaded, call, replica, replicaTip, made, faults, ghosts>>
  BY <1>1, <1>2, <1>3, BusyIsLoaded DEF List
<1>5. CASE segment = {}
  BY <1>3, <1>4, <1>5, NoPullSound, FileTypes, PullMovesInv
<1>6. CASE segment # {}
  <2>1. row \in PullRow /\ row.at = "check" /\ row.segment = segment /\ row.prev = old.prev
    BY <1>1, <1>2, <1>3, <1>6, PullIs DEF PullRow
  <2>2. PullSound(row, replica, byHeight)
    BY <1>1, <1>2, <1>4, <1>6, <2>1, PullIs DEF PullSound
  <2> QED BY <1>4, <2>1, <2>2, PullMovesInv
<1> QED BY <1>5, <1>6

\* The row of a catch-up that passes over the record r.
AfterSkip(row, r) ==
    IF row.segment \ {r} = {} THEN NoPull
    ELSE [row EXCEPT !.at = "check", !.segment = row.segment \ {r},
                     !.prev = [height |-> r.height, id |-> r.id]]

\* Of a segment whose lowest record r the node has, the rest may still be fetched.
LEMMA SkipSound ==
    ASSUME NEW row \in PullRow, NEW own, NEW R \in SUBSET FileRecord, NEW r, NEW next,
           HeightsUnique(R), PullSound(row, own, R), row.at \in {"check", "append"},
           r = LowestOf(row.segment), r \in own, own \subseteq FileRecord,
           \A q \in own : q.height > row.prev.height => q \in R,
           next = AfterSkip(row, r)
    PROVE  next \in PullRow /\ PullSound(next, own, R)
<1>1. CASE row.segment \ {r} = {}
  BY <1>1, FileTypes, NoPullSound DEF AfterSkip
<1>2. CASE row.segment \ {r} # {}
  <2>1. row.segment \in SUBSET FileRecord /\ row.segment # {} /\ row.segment \subseteq R
    BY PullRowFacts DEF PullSound
  <2>2. r \in row.segment /\ \A s \in row.segment : r.height <= s.height
    BY <2>1, LowestRecord
  <2>3. /\ r \in FileRecord /\ r.height > row.prev.height
        /\ r.height \in Nat /\ row.prev.height \in Nat
    BY <2>1, <2>2, PullRowFacts, TipFacts, RecordFacts DEF PullSound
  <2>4. [height |-> r.height, id |-> r.id] \in TipPointer
    BY <2>3, RecordFacts
  <2>5. PICK t : t = [height |-> r.height, id |-> r.id]
    OBVIOUS
  <2>6. /\ next \in PullRow /\ next.at = "check" /\ next.segment = row.segment \ {r}
        /\ next.prev = t /\ t.height = r.height
    BY <1>2, <2>1, <2>4, <2>5 DEF PullRow, AfterSkip
  <2>7. ASSUME NEW s \in row.segment \ {r} PROVE s.height > r.height
    <3>1. s.height # r.height
      BY <2>1, <2>2 DEF HeightsUnique
    <3>2. s.height \in Nat /\ r.height <= s.height
      BY <2>1, <2>2, RecordFacts
    <3> QED BY <2>3, <3>1, <3>2
  <2>8. ASSUME NEW q \in own, q.height > r.height PROVE q \in R
    <3>1. q.height \in Nat
      BY RecordFacts
    <3>2. q.height > row.prev.height
      BY <2>3, <2>8, <3>1
    <3> QED BY <3>2
  <2>9. next.prev = Bottom \/ \E q \in own : next.prev = [height |-> q.height, id |-> q.id]
    BY <2>5, <2>6
  <2>10. PullSound(next, own, R)
    BY <1>2, <2>1, <2>6, <2>7, <2>8, <2>9 DEF PullSound
  <2> QED BY <2>6, <2>10
<1> QED BY <1>1, <1>2

LEMMA CheckInv == ASSUME FileInv, NEW p \in Puller, Check(p) PROVE FileInv'
<1>1. PICK old : old = pull[p]
  OBVIOUS
<1>2. PICK r : r = LowestOf(old.segment)
  OBVIOUS
<1>3. /\ old.at = "check" /\ loaded
      /\ UNCHANGED <<memory, files, loaded, call, replica, replicaTip, made, faults, ghosts>>
      /\ \/ AtHeight(r.height, replica) # {} /\ Skip(p, r)
         \/ /\ r.prev = old.prev.id /\ r.height = old.prev.height + 1
            /\ pull' = [pull EXCEPT ![p].at = "append"]
         \/ pull' = [pull EXCEPT ![p] = NoPull]
  BY <1>1, <1>2, BusyIsLoaded DEF Check
<1>4. /\ old \in PullRow /\ PullSound(old, replica, byHeight) /\ pull \in [Puller -> PullRow]
      /\ byHeight \subseteq FileRecord /\ replica \subseteq FileRecord
      /\ HeightsUnique(byHeight)
  BY <1>1, PullIs
<1>5. /\ old.segment \in SUBSET FileRecord /\ old.segment # {} /\ old.segment \subseteq byHeight
      /\ \A q \in replica : q.height > old.prev.height => q \in byHeight
      /\ \A s \in old.segment : s.height > old.prev.height
  BY <1>3, <1>4, PullRowFacts DEF PullSound
<1>6. r \in old.segment
  BY <1>2, <1>5, LowestRecord
<1>7. CASE AtHeight(r.height, replica) # {} /\ Skip(p, r)
  <2>1. PICK q \in replica : q.height = r.height
    BY <1>7 DEF AtHeight
  <2>2. q \in byHeight
    BY <1>5, <1>6, <2>1
  <2>3. r \in replica
    BY <1>4, <1>5, <1>6, <2>1, <2>2 DEF HeightsUnique
  <2>4. PICK row : row = AfterSkip(old, r)
    OBVIOUS
  <2>5. row \in PullRow /\ PullSound(row, replica, byHeight)
    BY <1>2, <1>3, <1>4, <1>5, <2>3, <2>4, SkipSound
  <2>6. pull' = [pull EXCEPT ![p] = row]
    BY <1>1, <1>7, <2>4 DEF Skip, AfterSkip
  <2> QED BY <1>3, <2>5, <2>6, PullMovesInv
<1>8. CASE /\ r.prev = old.prev.id /\ r.height = old.prev.height + 1
           /\ pull' = [pull EXCEPT ![p].at = "append"]
  <2>1. PICK row : row = [old EXCEPT !.at = "append"]
    OBVIOUS
  <2>2. row \in PullRow /\ row.at = "append" /\ row.prev = old.prev /\ row.segment = old.segment
    BY <1>4, <2>1 DEF PullRow
  <2>3. PullSound(row, replica, byHeight)
    BY <1>2, <1>3, <1>4, <1>8, <2>2 DEF PullSound
  <2>4. pull' = [pull EXCEPT ![p] = row]
    BY <1>1, <1>4, <1>8, <2>1
  <2> QED BY <1>3, <2>2, <2>3, <2>4, PullMovesInv
<1>9. CASE pull' = [pull EXCEPT ![p] = NoPull]
  BY <1>3, <1>9, NoPullSound, FileTypes, PullMovesInv
<1> QED BY <1>3, <1>7, <1>8, <1>9

\* A record of the first node's journal enters the second node's, linked to what is there.
LEMMA AdoptNewInv ==
    ASSUME FileInv, NEW p \in Puller, NEW old, NEW r, old = pull[p], r = LowestOf(old.segment),
           old.at = "append", AtHeight(r.height, replica) = {},
           replica' = replica \cup {r}, replicaTip' = [height |-> r.height, id |-> r.id],
           Skip(p, r), UNCHANGED <<memory, files, loaded, call, made, faults, ghosts>>
    PROVE  FileInv'
<1>1. /\ old \in PullRow /\ PullSound(old, replica, byHeight) /\ pull \in [Puller -> PullRow]
      /\ byHeight \subseteq FileRecord /\ replica \subseteq FileRecord
      /\ HeightsUnique(byHeight) /\ HeightsUnique(replica) /\ Linked(replica)
      /\ StoresTyped /\ call \in [Writer -> CallRow] /\ loaded
  BY PullIs, FileTypeParts, BusyIsLoaded DEF FileInv
<1>2. UNCHANGED <<byHeight, byClientId, memoryTip, journalFile, tipFile, clientsFile, loaded, call,
                  made, faults, lost, stale, forgot, contested, told>>
  BY DEF memory, files, ghosts
<1>3. /\ old.segment \in SUBSET FileRecord /\ old.segment # {} /\ old.segment \subseteq byHeight
      /\ \A q \in replica : q.height > old.prev.height => q \in byHeight
      /\ r.prev = old.prev.id /\ r.height = old.prev.height + 1
      /\ old.prev = Bottom \/ \E q \in replica : old.prev = [height |-> q.height, id |-> q.id]
  BY <1>1, PullRowFacts DEF PullSound
<1>4. r \in old.segment /\ r \in byHeight /\ r \in FileRecord
  BY <1>3, LowestRecord
<1>5. /\ r.height \in Nat /\ r.height >= 1 /\ old.prev.height \in Nat
      /\ [height |-> r.height, id |-> r.id] \in TipPointer
  BY <1>1, <1>4, RecordFacts, PullRowFacts, TipFacts
<1>6. \A s \in replica : s.height # r.height /\ s.height \in Nat /\ s.id >= 1 /\ s.id \in Nat
  BY <1>1, RecordFacts DEF AtHeight
<1>7. \A s \in replica : s.height <= r.height
  <2> SUFFICES ASSUME NEW s \in replica, s.height > r.height PROVE FALSE
    BY <1>5, <1>6
  <2>1. r.height \in 1..s.height /\ r.height > 0
    BY <1>5, <1>6
  <2>2. \E q \in replica : q.height = r.height
    BY <1>1, <2>1 DEF Linked, Filled
  <2> QED BY <1>6, <2>2
<1>8. PICK row : row = AfterSkip(old, r)
  OBVIOUS
<1>9. pull' = [pull EXCEPT ![p] = row]
  BY <1>8 DEF Skip, AfterSkip
<1>10. PICK own : own = replica \cup {r}
  OBVIOUS
<1>11. PullSound(old, own, byHeight)
  BY <1>1, <1>4, <1>10 DEF PullSound
<1>12. row \in PullRow /\ PullSound(row, own, byHeight)
  <2>1. own \subseteq FileRecord /\ r \in own
    BY <1>1, <1>4, <1>10
  <2>2. \A q \in own : q.height > old.prev.height => q \in byHeight
    BY <1>3, <1>4, <1>10
  <2> QED BY <1>1, <1>8, <1>11, <2>1, <2>2, SkipSound
<1>13. FileTypeOK'
  <2>1. StoresTyped'
    BY <1>1, <1>2, <1>4, <1>5 DEF StoresTyped
  <2> QED BY <1>1, <1>2, <1>9, <1>12, <2>1, FileTypeParts
<1>14. RecordsUnique'
  <2>1. byHeight \cup own = byHeight \cup replica
    BY <1>4, <1>10
  <2>2. HeightsUnique(own)
    BY <1>1, <1>6, <1>10 DEF HeightsUnique
  <2>3. /\ IdsUnique(byHeight \cup own) /\ HeightsUnique(byHeight)
        /\ \A s \in byHeight \cup own : s.id <= made /\ s.height <= made
    BY <2>1 DEF FileInv, RecordsUnique
  <2> QED BY <1>2, <1>10, <2>2, <2>3 DEF RecordsUnique
<1>15. FilesSound' /\ StopsUnread' /\ TipsSound' /\ TopSound' /\ ClientsSound'
  <2>1. FilesSound' /\ TipsSound'
    BY <1>2 DEF FileInv, FilesSound, TipsSound
  <2>2. StopsUnread'
    BY <1>1, <1>2 DEF StopsUnread
  <2>3. TopSound' /\ ClientsSound'
    BY <1>2 DEF FileInv, TopSound, ClientsSound
  <2> QED BY <2>1, <2>2, <2>3
<1>16. Linked(own)
  <2> SUFFICES ASSUME NEW s \in own
      PROVE  /\ s.prev = Genesis => s.height = 1
             /\ s.prev # Genesis => \E q \in own : q.id = s.prev /\ q.height = s.height - 1
             /\ Filled(own, 0, s.height)
    BY DEF Linked
  <2>1. CASE s \in replica
    BY <1>1, <1>10, <2>1 DEF Linked, Filled
  <2>2. CASE s = r /\ old.prev = Bottom
    <3>1. r.prev = Genesis /\ r.height = 1
      BY <1>3, <2>2, FileTypes
    <3>2. Filled(own, 0, 1)
      BY <1>10, <3>1 DEF Filled
    <3> QED BY <2>2, <3>1, <3>2
  <2>3. CASE s = r /\ \E q \in replica : old.prev = [height |-> q.height, id |-> q.id]
    <3>1. PICK q \in replica : old.prev = [height |-> q.height, id |-> q.id]
      BY <2>3
    <3>2. /\ r.prev = q.id /\ r.height = q.height + 1 /\ q.height \in Nat /\ r.height - 1 = q.height
          /\ q.id # Genesis /\ q \in own
      BY <1>3, <1>5, <1>6, <1>10, <3>1 DEF Genesis
    <3>3. Filled(replica, 0, q.height)
      BY <1>1 DEF Linked
    <3>4. Filled(own, 0, r.height)
      <4> SUFFICES ASSUME NEW x \in 1..r.height, x > 0 PROVE \E v \in own : v.height = x
        BY DEF Filled
      <4>1. CASE x = r.height
        BY <1>10, <4>1
      <4>2. CASE x # r.height
        <5>1. x \in 1..q.height
          BY <3>2, <4>2
        <5> QED BY <1>10, <3>3, <5>1 DEF Filled
      <4> QED BY <4>1, <4>2
    <3> QED BY <2>3, <3>2, <3>4
  <2> QED BY <1>3, <1>10, <2>1, <2>2, <2>3
<1>17. ReplicaSound'
  <2>1. IsTop([height |-> r.height, id |-> r.id], own)
    BY <1>5, <1>7, <1>10 DEF IsTop
  <2>2. Ids(own) \subseteq Ids(byHeight) \cup lost
    BY <1>4, <1>10 DEF FileInv, ReplicaSound, Ids
  <2> QED BY <1>2, <1>10, <1>16, <2>1, <2>2 DEF ReplicaSound
<1>18. \A q \in Puller : PullSound(pull'[q], own, byHeight)
  <2> SUFFICES ASSUME NEW q \in Puller, q # p PROVE PullSound(pull'[q], own, byHeight)
    BY <1>1, <1>9, <1>12
  <2>1. pull'[q] = pull[q] /\ PullSound(pull[q], replica, byHeight)
    BY <1>1, <1>9 DEF FileInv
  <2> QED BY <1>4, <1>10, <2>1 DEF PullSound
<1>19. /\ (\A c \in Writer : WriteSound(call[c], byHeight, journalFile, lost, made))'
       /\ (\A q \in Puller : PullSound(pull[q], replica, byHeight))'
  BY <1>2, <1>10, <1>18 DEF FileInv
<1> QED BY <1>13, <1>14, <1>15, <1>17, <1>19 DEF FileInv

LEMMA AdoptInv == ASSUME FileInv, NEW p \in Puller, Adopt(p) PROVE FileInv'
<1>1. PICK old : old = pull[p]
  OBVIOUS
<1>2. PICK r : r = LowestOf(old.segment)
  OBVIOUS
<1>3. /\ old.at = "append" /\ loaded
      /\ UNCHANGED <<memory, files, loaded, call, made, faults, ghosts>>
      /\ \/ pull' = [pull EXCEPT ![p] = NoPull] /\ UNCHANGED <<replica, replicaTip>>
         \/ /\ AtHeight(r.height, replica) = {}
            /\ replica' = replica \cup {r}
            /\ replicaTip' = [height |-> r.height, id |-> r.id]
            /\ Skip(p, r)
  BY <1>1, <1>2, BusyIsLoaded DEF Adopt
<1>4. CASE pull' = [pull EXCEPT ![p] = NoPull] /\ UNCHANGED <<replica, replicaTip>>
  BY <1>3, <1>4, NoPullSound, FileTypes, PullMovesInv
<1>5. CASE /\ AtHeight(r.height, replica) = {}
           /\ replica' = replica \cup {r}
           /\ replicaTip' = [height |-> r.height, id |-> r.id]
           /\ Skip(p, r)
  BY <1>1, <1>2, <1>3, <1>5, AdoptNewInv
<1> QED BY <1>3, <1>4, <1>5
-----------------------------------------------------------------------------
LEMMA FileRestInv == ASSUME FileInv, UNCHANGED fileVars PROVE FileInv'
<1>1. UNCHANGED <<byHeight, byClientId, memoryTip, journalFile, tipFile, clientsFile, loaded, call,
                  replica, replicaTip, pull, made, faults, lost, stale, forgot, contested, told>>
  BY DEF fileVars, memory, files, copy, ghosts
<1>2. FileTypeOK' /\ RecordsUnique' /\ FilesSound'
  BY <1>1 DEF FileInv, FileTypeOK, RecordsUnique, FilesSound
<1>3. StopsUnread' /\ TipsSound' /\ TopSound'
  BY <1>1 DEF FileInv, StopsUnread, TipsSound, TopSound
<1>4. ClientsSound' /\ ReplicaSound'
  BY <1>1 DEF FileInv, ClientsSound, ReplicaSound
<1>5. /\ (\A c \in Writer : WriteSound(call[c], byHeight, journalFile, lost, made))'
      /\ (\A q \in Puller : PullSound(pull[q], replica, byHeight))'
  BY <1>1 DEF FileInv
<1> QED BY <1>2, <1>3, <1>4, <1>5 DEF FileInv

LEMMA FileStep == ASSUME FileInv, [FileNext]_fileVars PROVE FileInv'
<1>1. CASE \E c \in Writer, k \in Client : AppendFact(c, k)
  BY <1>1, AppendFactInv
<1>2. CASE \E c \in Writer : GetTip(c) \/ Put(c) \/ WriteLine(c)
  BY <1>2, GetTipInv, PutInv, WriteLineInv
<1>3. CASE \E c \in Writer : EmptyTip(c) \/ WriteTip(c)
  BY <1>3, EmptyTipInv, WriteTipInv
<1>4. CASE \E c \in Writer : EmptyClients(c) \/ WriteClients(c) \/ WriteFails(c)
  BY <1>4, EmptyClientsInv, WriteClientsInv, WriteFailsInv
<1>5. CASE CrashAndLoad
  BY <1>5, CrashAndLoadInv
<1>6. CASE \E p \in Puller : CatchUp(p) \/ List(p) \/ Check(p) \/ Adopt(p)
  BY <1>6, CatchUpInv, ListInv, CheckInv, AdoptInv
<1>7. CASE UNCHANGED fileVars
  BY <1>7, FileRestInv
<1> QED BY <1>1, <1>2, <1>3, <1>4, <1>5, <1>6, <1>7 DEF FileNext

\* The journal in files keeps what it was told through overlapping appends, failed writes,
\* crashes between any two writes and catch-ups of a second node (FileJournalStore,
\* JournalReplicator): the whole of FilesKeepJournal, for any numbers of them.
THEOREM FileSpecKeepsFiles == FileSpec => []FilesKeepJournal
<1>1. FileInit => FileInv
  BY FileInitInv
<1>2. FileInv /\ [FileNext]_fileVars => FileInv'
  BY FileStep
<1>3. FileInv => FilesKeepJournal
  BY FileInvImplies DEF FilesKeepJournal
<1> QED BY <1>1, <1>2, <1>3, PTL DEF FileSpec
=============================================================================
