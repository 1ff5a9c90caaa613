--------------------------- MODULE NodeChainProofs ---------------------------
(***************************************************************************)
(* Proofs about NodeChain for any callers, keys and bounds.                *)
(*                                                                         *)
(* IInv (module NodeChain) is inductive.  Every step except the write of a *)
(* record leaves the store and the locals of the other calls alone; what   *)
(* such a step of caller c does is summed up by Quiet(c), and one lemma    *)
(* shows that a quiet step preserves IInv.  The write is done by itself.   *)
(*                                                                         *)
(* Three parts follow: the registry of the nodes that serve the chain, the *)
(* advice asked for on the way to an emission, and the questions a single  *)
(* call answers: whom it trusts, and what it lets whom read.  An answer is *)
(* proved for every question, where a run asks a sample; an answer that is *)
(* computed in rounds is known by one lemma on what the rounds are.        *)
(***************************************************************************)
EXTENDS NodeChain, MCParts, FiniteSetTheorems, TLAPS

\* The locals of every call but c's are unchanged.
OthersUnchanged(c) ==
    \A d \in Caller \ {c} :
        /\ pc'[d] = pc[d] /\ req'[d] = req[d] /\ found'[d] = found[d]
        /\ seenTip'[d] = seenTip[d] /\ chainOk'[d] = chainOk[d]
        /\ calls'[d] = calls[d]

\* How a quiet step may change what KeyInv says of c.
KeyStep(c) ==
    /\ raced \subseteq raced'
    /\ Appending(c)' =>
         \/ Appending(c) /\ req'[c] = req[c] /\ (Unused(c)' => Unused(c))
         \/ req'[c].key \in Key =>
              /\ \A d \in Caller \ {c} :
                   Appending(d) /\ req[d].key = req'[c].key => req'[c].key \in raced'
              /\ Unused(c)' => byClientId[req'[c].key] = NoRecord

\* At most one record is acknowledged, and it is in the journal.
AcksOne ==
    \/ acked' = acked
    \/ \E rec \in Record : acked' = acked \cup {rec} /\ byHeight[rec.height] = rec

Quiet(c) ==
    /\ UNCHANGED storeVars
    /\ OthersUnchanged(c)
    /\ TypeOK'
    /\ KeyStep(c)
    /\ AcksOne
    /\ ~failClosed'
    /\ CallInv(c)'

-----------------------------------------------------------------------------
\* What a call builds from a tip it has read is a record.
LEMMA NewRecordType ==
    ASSUME TypeOK, NEW c \in Caller, calls[c] \in 1..MaxCalls,
           seenTip[c].height < MaxHeight
    PROVE  /\ NewRecord(c) \in Record
           /\ NewRecord(c).height = seenTip[c].height + 1
           /\ NewRecord(c).prev = seenTip[c].hash
           /\ NewRecord(c).id = <<c, calls[c]>>
           /\ NewRecord(c).type = req[c].type
           /\ NewRecord(c).key = req[c].key
           /\ seenTip[c].height + 1 \in Height
<1>1. /\ seenTip[c].height \in Height \cup {-1}
      /\ seenTip[c].hash \in Hash
  BY DEF TypeOK, ServiceTypeOK, Tip
<1>2. /\ req[c].type \in RecordType
      /\ req[c].key \in Key \cup {NoKey}
  BY ServiceAssumption
  DEF TypeOK, ServiceTypeOK, Request, FactRequest, GenesisRequest, RecordType
<1>3. <<c, calls[c]>> \in RecordId
  BY DEF RecordId
<1>4. seenTip[c].height + 1 \in Height
  BY <1>1, ServiceAssumption DEF Height
<1> QED BY <1>1, <1>2, <1>3, <1>4 DEF NewRecord, Record

\* A step that leaves the store alone preserves the invariant.
LEMMA QuietStep ==
    ASSUME IInv, NEW c \in Caller, Quiet(c)
    PROVE  IInv'
<1> USE DEF IInv
<1>1. TypeOK' /\ NoFalseAlarm'
  BY DEF Quiet, NoFalseAlarm
<1>2. ChainUnbroken'
  BY DEF Quiet, ChainUnbroken, ChainOk, storeVars
<1>3. AckedIsJournalled'
  BY DEF Quiet, AcksOne, AckedIsJournalled, storeVars
<1>4. ASSUME NEW d \in Caller PROVE CallInv(d)'
  <2>1. CASE d = c
    BY <2>1 DEF Quiet
  <2>2. CASE d # c
    <3>1. CallInv(d) OBVIOUS
    <3>2. /\ pc'[d] = pc[d] /\ req'[d] = req[d] /\ found'[d] = found[d]
          /\ seenTip'[d] = seenTip[d] /\ chainOk'[d] = chainOk[d]
          /\ calls'[d] = calls[d] /\ byHeight' = byHeight /\ tip' = tip
      BY <2>2 DEF Quiet, OthersUnchanged, storeVars
    <3>3. NewRecord(d)' = NewRecord(d)
      BY <3>2 DEF NewRecord
    <3> QED BY <3>1, <3>2, <3>3 DEF CallInv, KnownTip
  <2> QED BY <2>1, <2>2
<1>5. IndexInv'
  BY DEF Quiet, IndexInv, storeVars
<1>6. KeyInv'
  <2> SUFFICES ASSUME NEW k \in Key, k \notin raced'
               PROVE  /\ \A d, e \in Caller :
                           Appending(d)' /\ Appending(e)'
                           /\ req'[d].key = k /\ req'[e].key = k => d = e
                      /\ \A d \in Caller : Unused(d)' /\ req'[d].key = k =>
                           \A h \in Height : byHeight'[h] # NoRecord
                                             => byHeight'[h].key # k
    BY DEF KeyInv
  <2>1. k \notin raced
    BY DEF Quiet, KeyStep
  <2>2. \A d \in Caller \ {c} : /\ Appending(d)' <=> Appending(d)
                                /\ Unused(d)' <=> Unused(d)
                                /\ req'[d] = req[d]
    BY DEF Quiet, OthersUnchanged, Appending, Unused
  <2>3. ASSUME NEW d \in Caller \ {c}, Appending(d), req[d].key = k,
               Appending(c)', req'[c].key = k
        PROVE  FALSE
    <3>1. CASE Appending(c) /\ req'[c] = req[c]
      BY <2>1, <2>3, <3>1 DEF KeyInv
    <3>2. CASE \A e \in Caller \ {c} :
                 Appending(e) /\ req[e].key = req'[c].key => req'[c].key \in raced'
      BY <2>3, <3>2
    <3> QED BY <2>3, <3>1, <3>2 DEF Quiet, KeyStep
  <2>4. \A d, e \in Caller : Appending(d)' /\ Appending(e)'
           /\ req'[d].key = k /\ req'[e].key = k => d = e
    BY <2>1, <2>2, <2>3 DEF KeyInv
  <2>5. ASSUME NEW d \in Caller, Unused(d)', req'[d].key = k,
               NEW h \in Height, byHeight'[h] # NoRecord
        PROVE  byHeight'[h].key # k
    <3>1. byHeight' = byHeight
      BY DEF Quiet, storeVars
    <3>2. CASE d # c
      BY <2>1, <2>2, <2>5, <3>1, <3>2 DEF KeyInv
    <3>3. CASE d = c
      <4>1. Appending(c)'
        BY <2>5, <3>3 DEF Unused, Appending
      <4>2. CASE Appending(c) /\ req'[c] = req[c] /\ (Unused(c)' => Unused(c))
        BY <2>1, <2>5, <3>1, <3>3, <4>2 DEF KeyInv
      <4>3. CASE req'[c].key \in Key /\ Unused(c)' => byClientId[req'[c].key] = NoRecord
        <5>1. byClientId[k] = NoRecord
          BY <2>5, <3>3, <4>3
        <5>2. k # NoKey
          BY ServiceAssumption
        <5> QED BY <2>5, <3>1, <5>1, <5>2 DEF IndexInv
      <4> QED BY <4>1, <4>2, <4>3 DEF Quiet, KeyStep
    <3> QED BY <3>2, <3>3
  <2> QED BY <2>4, <2>5
<1>7. KeyOnceUnlessRaced'
  BY DEF Quiet, KeyStep, KeyOnceUnlessRaced, storeVars
<1> QED BY <1>1, <1>2, <1>3, <1>4, <1>5, <1>6, <1>7

-----------------------------------------------------------------------------
\* Ending a call, whatever its result, is a quiet step if nothing but
\* journalled records is acknowledged.
LEMMA FinishIsQuiet ==
    ASSUME IInv, NEW c \in Caller, NEW result \in Outcome, Finish(c, result),
           UNCHANGED <<appendCount, failClosed, observed, raced, storeVars>>,
           calls' = calls \/ StartCall(c),
           AcksOne
    PROVE  Quiet(c)
<1> USE DEF IInv
<1>1. ServiceTypeOK /\ ServiceTypeOK'
  BY ServiceAssumption, SMTT(30)
  DEF TypeOK, ServiceTypeOK, Finish, StartCall, Tip, NoTip, Hash, Request, AcksOne
<1>2. TypeOK'
  BY <1>1, SMTT(30) DEF TypeOK, Await, Finish, storeVars
<1>3. OthersUnchanged(c)
  BY <1>1 DEF OthersUnchanged, Finish, StartCall, ServiceTypeOK, TypeOK
<1>4. pc'[c] = "idle" /\ seenTip'[c] = NoTip /\ found'[c] = NoRecord /\ chainOk'[c]
  BY <1>1 DEF Finish, TypeOK, ServiceTypeOK
<1>5. CallInv(c)'
  BY <1>4 DEF CallInv, KnownTip
<1>6. KeyStep(c)
  BY <1>4 DEF KeyStep, Appending
<1> QED BY <1>2, <1>3, <1>5, <1>6 DEF Quiet, NoFalseAlarm

\* append up to its first await is quiet, from append itself or ensureGenesis.
LEMMA BeginAppendIsQuiet ==
    ASSUME IInv, NEW c \in Caller, NEW r \in Request,
           BeginAppend(c, r, Lookup(r.key), tip), ~Appending(c),
           calls' = calls \/ StartCall(c), calls'[c] \in 1..MaxCalls,
           UNCHANGED storeVars
    PROVE  Quiet(c)
<1> USE DEF IInv
<1>0. /\ r.key \in Key \cup {NoKey}
      /\ found \in [Caller -> Record \cup {NoRecord}]
      /\ seenTip \in [Caller -> Tip] /\ pc \in [Caller -> Await]
      /\ req \in [Caller -> Request]
      /\ calls \in [Caller -> 0..MaxCalls] /\ tip \in Tip
      /\ byClientId \in [Key -> Record \cup {NoRecord}]
  BY ServiceAssumption
  DEF TypeOK, ServiceTypeOK, Request, FactRequest, GenesisRequest
<1>1. CASE RefuseAppend(c, r)
  <2> DEFINE result == IF failClosed THEN "READ_ONLY" ELSE "SCHEMA"
  <2>1. result \in Outcome
    BY DEF Outcome
  <2>2. Finish(c, result)
    BY <1>1 DEF RefuseAppend
  <2>3. UNCHANGED <<appendCount, failClosed, observed, raced, storeVars>>
    BY <1>1 DEF RefuseAppend
  <2>4. AcksOne
    BY <1>1 DEF RefuseAppend, AcksOne
  <2>5. IInv OBVIOUS
  <2> HIDE DEF result, IInv
  <2> QED BY <2>1, <2>2, <2>3, <2>4, <2>5, FinishIsQuiet
<1>2. CASE LookUpKey(c, r, Lookup(r.key))
  <2>1. Lookup(r.key) = byClientId[r.key] /\ r.key \in Key
    BY <1>0, <1>2 DEF Lookup, LookUpKey
  <2>2. TypeOK'
    BY <1>0, <1>2, <2>1, SMTT(30)
    DEF TypeOK, ServiceTypeOK, LookUpKey, Suspend, StartCall, Await, storeVars
  <2>3. OthersUnchanged(c)
    BY <1>0, <1>2 DEF OthersUnchanged, LookUpKey, Suspend, StartCall
  <2>4. /\ pc'[c] = "lookup" /\ found'[c] = byClientId[r.key] /\ req'[c] = r
        /\ seenTip' = seenTip /\ chainOk' = chainOk
    BY <1>0, <1>2, <2>1 DEF LookUpKey, Suspend
  <2>5. CallInv(c)'
    BY <1>0, <2>1, <2>4 DEF CallInv, KnownTip, IndexInv, storeVars
  <2>6. KeyStep(c)
    BY <1>0, <1>2, <2>4 DEF KeyStep, LookUpKey, Unused, InFlight, Appending
  <2> QED BY <1>2, <2>2, <2>3, <2>5, <2>6 DEF Quiet, LookUpKey, NoFalseAlarm, AcksOne
<1>3. CASE ReadTipUnkeyed(c, r, tip)
  <2>2. TypeOK'
    BY <1>0, <1>3, SMTT(30)
    DEF TypeOK, ServiceTypeOK, ReadTipUnkeyed, Suspend, StartCall, Await, storeVars
  <2>3. OthersUnchanged(c)
    BY <1>0, <1>3 DEF OthersUnchanged, ReadTipUnkeyed, Suspend, StartCall
  <2>4. /\ pc'[c] = "tip" /\ found' = found /\ req'[c] = r
        /\ seenTip'[c] = tip /\ chainOk' = chainOk
    BY <1>0, <1>3 DEF ReadTipUnkeyed, Suspend
  <2>5. CallInv(c)'
    BY <1>0, <2>4, ServiceAssumption
    DEF CallInv, KnownTip, ChainUnbroken, storeVars, Tip, NoTip, Height
  <2>6. KeyStep(c)
    BY <1>0, <1>3, <2>4, ServiceAssumption
    DEF KeyStep, ReadTipUnkeyed, Unused, Appending
  <2> QED BY <1>3, <2>2, <2>3, <2>5, <2>6 DEF Quiet, ReadTipUnkeyed, NoFalseAlarm, AcksOne
<1> QED BY <1>1, <1>2, <1>3 DEF BeginAppend

\* The typing of the locals and counters, in the form the lemmas below use it.
LEMMA Typing ==
    ASSUME TypeOK
    PROVE  /\ pc \in [Caller -> Await] /\ req \in [Caller -> Request]
           /\ found \in [Caller -> Record \cup {NoRecord}]
           /\ seenTip \in [Caller -> Tip] /\ chainOk \in [Caller -> BOOLEAN]
           /\ calls \in [Caller -> 0..MaxCalls]
           /\ tip \in Tip /\ byHeight \in [Height -> Record \cup {NoRecord}]
           /\ byClientId \in [Key -> Record \cup {NoRecord}]
           /\ acked \subseteq Record /\ observed \subseteq Record
BY DEF TypeOK, ServiceTypeOK

LEMMA EnsureGenesisIsQuiet ==
    ASSUME IInv, NEW c \in Caller, CallEnsureGenesis(c)
    PROVE  Quiet(c)
<1> USE DEF IInv, CallEnsureGenesis, EnsureGenesis, Suspend, StartCall
<1>0. TypeOK OBVIOUS
<1>1. TypeOK'
  BY <1>0, Typing, ServiceAssumption, SMTT(30)
  DEF TypeOK, ServiceTypeOK, Await, storeVars
<1>2. OthersUnchanged(c)
  BY <1>0, Typing DEF OthersUnchanged
<1>3. /\ pc'[c] = "ensure" /\ seenTip'[c] = tip /\ found' = found
      /\ chainOk' = chainOk /\ calls'[c] \in 1..MaxCalls
  BY <1>0, Typing, ServiceAssumption
<1>4. CallInv(c)'
  BY <1>0, <1>3, Typing, ServiceAssumption
  DEF CallInv, KnownTip, ChainUnbroken, storeVars, Tip, Height
<1>5. KeyStep(c)
  BY <1>3 DEF KeyStep, Appending
<1> QED BY <1>1, <1>2, <1>4, <1>5 DEF Quiet, NoFalseAlarm, AcksOne

\* The steps between the reads and after the write.
LEMMA ServiceStepIsQuiet ==
    ASSUME IInv, NEW c \in Caller, ServiceStep(c, tip, byHeight),
           UNCHANGED storeVars
    PROVE  Quiet(c)
<1>0. TypeOK /\ CallInv(c) /\ ChainOk(byHeight) /\ ~failClosed
  BY DEF IInv, ChainUnbroken, NoFalseAlarm
<1>1. CASE ReturnExisting(c)
  <2>1. found[c] \in Record /\ byHeight[found[c].height] = found[c]
    BY <1>0, <1>1, Typing DEF ReturnExisting, CallInv
  <2>2. AcksOne
    BY <1>1, <2>1 DEF ReturnExisting, AcksOne
  <2>3. Finish(c, "ok") /\ "ok" \in Outcome
    BY <1>1 DEF ReturnExisting, Outcome
  <2>4. UNCHANGED <<appendCount, failClosed, observed, raced, storeVars>>
        /\ calls' = calls
    BY <1>1 DEF ReturnExisting
  <2> QED BY <2>2, <2>3, <2>4, FinishIsQuiet
<1>2. CASE ReadTip(c, tip)
  <2>1. TypeOK'
    BY <1>0, <1>2, Typing, SMTT(30)
    DEF ReadTip, Suspend, TypeOK, ServiceTypeOK, Await, storeVars
  <2>2. OthersUnchanged(c)
    BY <1>0, <1>2, Typing DEF ReadTip, Suspend, OthersUnchanged
  <2>3. /\ pc[c] = "lookup" /\ found[c] = NoRecord /\ pc'[c] = "tip"
        /\ seenTip'[c] = tip /\ found' = found /\ req' = req /\ raced' = raced
        /\ chainOk' = chainOk /\ calls' = calls
    BY <1>0, <1>2, Typing DEF ReadTip, Suspend
  <2>4. CallInv(c)'
    BY <1>0, <2>3, Typing, ServiceAssumption
    DEF IInv, CallInv, KnownTip, ChainUnbroken, storeVars, Tip, Height
  <2>5. KeyStep(c)
    BY <2>3 DEF KeyStep, Appending, Unused
  <2> QED BY <1>0, <1>2, <2>1, <2>2, <2>4, <2>5 DEF Quiet, ReadTip, AcksOne
<1>3. CASE RefuseWrite(c)
  <2> DEFINE result == IF req[c].type = "fact" /\ seenTip[c] = NoTip
                       THEN "NO_GENESIS"
                       ELSE IF req[c].type = "genesis" /\ seenTip[c] # NoTip
                            THEN "ALREADY_GENESIS" ELSE "BAD_SIGNATURE"
  <2>1. Finish(c, result) /\ result \in Outcome
    BY <1>3 DEF RefuseWrite, Outcome
  <2>2. AcksOne
    BY <1>3 DEF RefuseWrite, AcksOne
  <2>3. UNCHANGED <<appendCount, failClosed, observed, raced, storeVars>>
        /\ calls' = calls
    BY <1>3 DEF RefuseWrite
  <2> HIDE DEF result
  <2> QED BY <2>1, <2>2, <2>3, FinishIsQuiet
<1>4. CASE CountAndVerify(c, byHeight)
  <2>1. TypeOK'
    BY <1>0, <1>4, Typing, ServiceAssumption, SMTT(30)
    DEF CountAndVerify, VerifyDue, Suspend, TypeOK, ServiceTypeOK, Await, storeVars
  <2>2. OthersUnchanged(c)
    BY <1>0, <1>4, Typing DEF CountAndVerify, Suspend, OthersUnchanged
  <2>3. /\ pc[c] = "stored" /\ pc'[c] = "verify" /\ chainOk'[c]
        /\ seenTip' = seenTip /\ found' = found /\ req' = req /\ raced' = raced
        /\ calls' = calls
    BY <1>0, <1>4, Typing DEF CountAndVerify, Suspend
  <2>4. CallInv(c)'
    BY <1>0, <2>3 DEF CallInv, KnownTip, storeVars, NewRecord
  <2>5. KeyStep(c)
    BY <2>3 DEF KeyStep, Appending, Unused
  <2> QED BY <1>0, <1>4, <2>1, <2>2, <2>4, <2>5 DEF Quiet, CountAndVerify, AcksOne
<1>5. CASE CountAndObserve(c) \/ Observe(c)
  <2>1. NewRecord(c) \in Record
    BY <1>0, <1>5, NewRecordType
    DEF CallInv, CountAndObserve, Observe
  <2>2. TypeOK'
    BY <1>0, <1>5, <2>1, Typing, ServiceAssumption, SMTT(30)
    DEF CountAndObserve, VerifyDue, Observe, Suspend, TypeOK, ServiceTypeOK, Await, storeVars
  <2>3. OthersUnchanged(c)
    BY <1>0, <1>5, Typing DEF CountAndObserve, Observe, Suspend, OthersUnchanged
  <2>4. /\ pc[c] \in {"stored", "verify"} /\ pc'[c] = "observe"
        /\ chainOk' = chainOk /\ seenTip' = seenTip /\ found' = found
        /\ req' = req /\ raced' = raced /\ calls' = calls
        /\ acked' = acked /\ failClosed' = failClosed
    BY <1>0, <1>5, Typing DEF CountAndObserve, Observe, Suspend
  <2>5. CallInv(c)'
    BY <1>0, <2>4 DEF CallInv, KnownTip, storeVars, NewRecord
  <2>6. KeyStep(c)
    BY <2>4 DEF KeyStep, Appending, Unused
  <2> QED BY <1>0, <2>2, <2>3, <2>4, <2>5, <2>6 DEF Quiet, AcksOne
<1>6. CASE FailClosed(c)
  BY <1>0, <1>6 DEF FailClosed, CallInv
<1>7. CASE Acknowledge(c)
  <2>1. /\ NewRecord(c) \in Record
        /\ byHeight[NewRecord(c).height] = NewRecord(c)
    BY <1>0, <1>7, NewRecordType DEF CallInv, Acknowledge
  <2>2. AcksOne
    BY <1>7, <2>1 DEF Acknowledge, AcksOne
  <2>3. Finish(c, "ok") /\ "ok" \in Outcome
    BY <1>7 DEF Acknowledge, Outcome
  <2>4. UNCHANGED <<appendCount, failClosed, observed, raced, storeVars>>
        /\ calls' = calls
    BY <1>7 DEF Acknowledge
  <2> QED BY <2>2, <2>3, <2>4, FinishIsQuiet
<1> QED BY <1>1, <1>2, <1>3, <1>4, <1>5, <1>6, <1>7 DEF ServiceStep

LEMMA ResumeIsQuiet ==
    ASSUME IInv, NEW c \in Caller, Resume(c)
    PROVE  Quiet(c)
<1>0. TypeOK /\ CallInv(c) /\ UNCHANGED storeVars
  BY DEF IInv, Resume
<1>1. CASE ReturnGenesis(c, byHeight[0])
  <2>1. calls' = calls
        /\ UNCHANGED <<appendCount, failClosed, observed, raced, storeVars>>
    BY <1>0, <1>1 DEF ReturnGenesis
  <2>2. CASE byHeight[0] # NoRecord /\ byHeight[0].type = "genesis"
    <3>1. byHeight[0] \in Record /\ byHeight[byHeight[0].height] = byHeight[0]
      BY <1>0, <2>2, Typing, ServiceAssumption
      DEF Height, IInv, ChainUnbroken, ChainOk
    <3>2. AcksOne
      BY <1>1, <2>2, <3>1 DEF ReturnGenesis, AcksOne
    <3>3. Finish(c, "ok") /\ "ok" \in Outcome
      BY <1>1, <2>2 DEF ReturnGenesis, Outcome
    <3> QED BY <2>1, <3>2, <3>3, FinishIsQuiet
  <2>3. CASE ~(byHeight[0] # NoRecord /\ byHeight[0].type = "genesis")
    <3>1. /\ AcksOne
          /\ Finish(c, "ALREADY_GENESIS") /\ "ALREADY_GENESIS" \in Outcome
      BY <1>1, <2>3 DEF ReturnGenesis, Outcome, AcksOne
    <3> QED BY <2>1, <3>1, FinishIsQuiet
  <2> QED BY <2>2, <2>3
<1>2. CASE AppendGenesis(c, Lookup(GenesisKey), tip)
  <2>1. BeginAppend(c, GenesisRequest, Lookup(GenesisRequest.key), tip)
    BY <1>2 DEF AppendGenesis, GenesisRequest
  <2>2. GenesisRequest \in Request
    BY DEF Request
  <2>3. ~Appending(c) /\ calls' = calls /\ calls'[c] \in 1..MaxCalls
    BY <1>0, <1>2 DEF AppendGenesis, Appending, CallInv
  <2> QED BY <1>0, <2>1, <2>2, <2>3, BeginAppendIsQuiet
<1>3. CASE ServiceStep(c, tip, byHeight)
  BY <1>0, <1>3, ServiceStepIsQuiet
<1> QED BY <1>1, <1>2, <1>3 DEF Resume

LEMMA CallAppendIsQuiet ==
    ASSUME IInv, NEW c \in Caller, NEW r \in FactRequest, CallAppend(c, r)
    PROVE  Quiet(c)
<1>0. TypeOK BY DEF IInv
<1>1. BeginAppend(c, r, Lookup(r.key), tip) /\ r \in Request
  BY DEF CallAppend, Request
<1>2. ~Appending(c) /\ UNCHANGED storeVars /\ StartCall(c)
  BY DEF CallAppend, Appending
<1>3. calls'[c] \in 1..MaxCalls
  BY <1>0, <1>2, Typing, ServiceAssumption DEF StartCall
<1> QED BY <1>1, <1>2, <1>3, BeginAppendIsQuiet

LEMMA PersistRefusedIsQuiet ==
    ASSUME IInv, NEW c \in Caller, PersistRefused(c)
    PROVE  Quiet(c)
<1>1. /\ Finish(c, "STORAGE") /\ "STORAGE" \in Outcome /\ calls' = calls
      /\ UNCHANGED <<appendCount, failClosed, observed, raced, storeVars>>
      /\ AcksOne
  BY DEF PersistRefused, Outcome, AcksOne
<1> QED BY <1>1, FinishIsQuiet

-----------------------------------------------------------------------------
\* A height that was free when the tip was read and is free when the record is
\* written is the next height, and the tip read is still the tip: this is why
\* the single check of memory.store.ts:38 keeps the chain whole.
LEMMA FreeHeightIsNext ==
    ASSUME IInv, NEW c \in Caller, seenTip[c].height < MaxHeight,
           byHeight[seenTip[c].height + 1] = NoRecord
    PROVE  seenTip[c] = tip
<1>1. /\ seenTip[c] \in Tip /\ tip \in Tip /\ KnownTip(seenTip[c])
      /\ ChainUnbroken
  BY Typing DEF IInv, CallInv
<1>2. seenTip[c].height + 1 \in Height
  BY <1>1, ServiceAssumption DEF Tip, Height
<1>3. ~(seenTip[c].height + 1 <= tip.height)
  BY <1>1, <1>2 DEF ChainUnbroken
<1>4. seenTip[c].height = tip.height
  BY <1>1, <1>3, ServiceAssumption DEF KnownTip, NoTip, Tip, Height
<1>5. seenTip[c].hash = tip.hash
  BY <1>1, <1>4, ServiceAssumption DEF KnownTip, NoTip, Tip, ChainUnbroken, Height
<1> QED BY <1>1, <1>4, <1>5 DEF Tip

\* The write of a record preserves the invariant.
LEMMA PersistStep ==
    ASSUME IInv, NEW c \in Caller, Persist(c)
    PROVE  IInv'
<1> DEFINE rec == NewRecord(c)
           top == tip.height + 1
<1>0. TypeOK /\ CallInv(c) /\ ChainUnbroken /\ seenTip[c] = tip
  BY FreeHeightIsNext DEF IInv, Persist, HeightFree
<1>1. /\ rec \in Record /\ rec.height = top /\ rec.prev = tip.hash
      /\ rec.id = <<c, calls[c]>> /\ rec.type = req[c].type
      /\ rec.key = req[c].key /\ top \in Height
  BY <1>0, NewRecordType DEF CallInv, Persist
<1>2. rec # NoRecord
  BY <1>1, NoRecordAssumption
<1>3. /\ byHeight' = [byHeight EXCEPT ![top] = rec]
      /\ byHeight[top] = NoRecord
      /\ tip' = [height |-> top, hash |-> rec.id]
      /\ byClientId' = IF rec.key = NoKey THEN byClientId
                       ELSE [byClientId EXCEPT ![rec.key] = rec]
      /\ pc[c] = "tip" /\ pc' = [pc EXCEPT ![c] = "stored"]
      /\ ~Unwritable(c)
      /\ UNCHANGED <<req, found, seenTip, chainOk, calls, outcome, appendCount,
                     failClosed, acked, observed, raced>>
  BY <1>0, <1>1 DEF Persist, HeightFree, Suspend
<1>4. tip.height \in Int /\ top \in Nat /\ MaxHeight \in Nat
  BY <1>0, <1>1, Typing, ServiceAssumption DEF Tip, Height
<1> HIDE DEF rec, top
<1>5. \A h \in Height : byHeight'[h] = IF h = top THEN rec ELSE byHeight[h]
  BY <1>0, <1>3, Typing
<1>6. \A h \in Height : byHeight[h] # NoRecord => h # top
  BY <1>3
<1>7. TypeOK'
  <2>1. rec.key \in Key \cup {NoKey} /\ rec.id \in Hash
    BY <1>1 DEF Record, RecordId, Hash
  <2>2. tip' \in Tip
    BY <1>1, <1>3, <2>1 DEF Tip
  <2>3. byHeight' \in [Height -> Record \cup {NoRecord}]
    BY <1>0, <1>1, <1>3, Typing
  <2>4. byClientId' \in [Key -> Record \cup {NoRecord}]
    BY <1>0, <1>1, <1>3, <2>1, Typing
  <2>5. pc' \in [Caller -> Await]
    BY <1>0, <1>3, Typing DEF Await
  <2> QED BY <1>0, <1>3, <2>2, <2>3, <2>4, <2>5 DEF TypeOK, ServiceTypeOK
<1>8. ChainUnbroken'
  <2>1. \A h \in Height : byHeight'[h] # NoRecord <=> h <= tip'.height
    BY <1>0, <1>2, <1>3, <1>4, <1>5 DEF ChainUnbroken, Height, top
  <2>2. ChainOk(byHeight)'
    <3> SUFFICES ASSUME NEW h \in Height, byHeight'[h] # NoRecord
                 PROVE  /\ byHeight'[h].height = h
                        /\ IF h = 0 THEN byHeight'[h].prev = GenesisPrev
                           ELSE /\ byHeight'[h - 1] # NoRecord
                                /\ byHeight'[h].prev = byHeight'[h - 1].id
      BY DEF ChainOk
    <3>1. CASE h # top
      <4>1. byHeight'[h] = byHeight[h]
        BY <1>5, <3>1
      <4>2. h = 0 \/ h - 1 \in Height
        BY ServiceAssumption DEF Height
      <4>3. h # 0 => byHeight'[h - 1] = byHeight[h - 1]
        BY <1>0, <1>3, <1>4, <1>5, <3>1, <4>1, <4>2 DEF ChainUnbroken, ChainOk
      <4> QED BY <1>0, <4>1, <4>3 DEF ChainUnbroken, ChainOk
    <3>2. CASE h = top /\ h = 0
      <4>1. tip = NoTip
        BY <1>0, <1>4, <3>2 DEF ChainUnbroken, top
      <4> QED BY <1>1, <1>5, <3>2, <4>1 DEF NoTip
    <3>3. CASE h = top /\ h # 0
      <4>1. tip.height \in Height /\ h - 1 = tip.height /\ tip.height # top
        BY <1>1, <1>4, <3>3 DEF Height, top
      <4>2. byHeight'[h - 1] = byHeight[tip.height]
        BY <1>5, <4>1
      <4>3. byHeight[tip.height] # NoRecord /\ tip.hash = byHeight[tip.height].id
        BY <1>0, <1>4, <4>1 DEF ChainUnbroken, Height
      <4> QED BY <1>1, <1>5, <3>3, <4>2, <4>3
    <3> QED BY <3>1, <3>2, <3>3
  <2>3. \A h \in 0..tip'.height : byHeight'[h].type = "genesis" <=> h = 0
    <3>1. req[c].type = "genesis" <=> tip = NoTip
      BY <1>0, <1>3 DEF Unwritable
    <3>2. tip = NoTip <=> top = 0
      BY <1>0, <1>4 DEF ChainUnbroken, NoTip, top
    <3>3. \A h \in 0..tip.height : h \in Height /\ h # top
      BY <1>1, <1>4 DEF Height, top
    <3> QED BY <1>0, <1>1, <1>3, <1>4, <1>5, <3>1, <3>2, <3>3
            DEF ChainUnbroken, top
  <2>4. tip'.height # -1 /\ tip'.hash = byHeight'[tip'.height].id
    BY <1>1, <1>3, <1>4, <1>5
  <2> QED BY <2>1, <2>2, <2>3, <2>4 DEF ChainUnbroken
\* Records already in the journal, and everything that names one, stay.
<1>9. \A x \in Record : byHeight[x.height] = x => byHeight'[x.height] = x
  BY <1>3, <1>5, NoRecordAssumption DEF Record
<1>10. AckedIsJournalled'
  BY <1>0, <1>3, <1>9, Typing DEF IInv, AckedIsJournalled
<1>11. NoFalseAlarm'
  BY <1>3 DEF IInv, NoFalseAlarm
<1>12. ASSUME NEW d \in Caller PROVE CallInv(d)'
  <2>1. CallInv(d)
    BY DEF IInv
  <2>2. NewRecord(d)' = NewRecord(d)
    BY <1>3 DEF NewRecord
  <2>3. KnownTip(seenTip[d])'
    <3>1. CASE seenTip[d] = NoTip
      BY <1>3, <3>1 DEF KnownTip
    <3>2. CASE seenTip[d].height \in 0..tip.height
               /\ seenTip[d].hash = byHeight[seenTip[d].height].id
      <4>1. seenTip[d].height \in Height /\ seenTip[d].height # top
        BY <1>1, <1>4, <3>2 DEF Height, top
      <4>2. seenTip'[d].height \in 0..tip'.height
        BY <1>3, <1>4, <3>2 DEF top
      <4> QED BY <1>3, <1>5, <3>2, <4>1, <4>2 DEF KnownTip
    <3> QED BY <2>1, <3>1, <3>2 DEF CallInv, KnownTip
  <2>4. found'[d] # NoRecord => byHeight'[found'[d].height] = found'[d]
    BY <1>0, <1>3, <1>9, <2>1, Typing DEF CallInv
  <2>5. CASE d = c
    BY <1>0, <1>1, <1>3, <1>5, <2>1, <2>2, <2>3, <2>4, <2>5, Typing
    DEF CallInv, rec, top, Persist
  <2>6. CASE d # c
    <3>1. pc'[d] = pc[d]
      BY <1>0, <1>3, <2>6, Typing
    <3>2. pc[d] \in {"stored", "verify", "observe"} =>
            /\ NewRecord(d) \in Record
            /\ NewRecord(d).height = seenTip[d].height + 1
      BY <1>0, <2>1, NewRecordType DEF CallInv
    <3> QED BY <1>3, <1>9, <2>1, <2>2, <2>3, <2>4, <3>1, <3>2 DEF CallInv
  <2> QED BY <2>5, <2>6
<1>13. IndexInv'
  <2>1. ASSUME NEW k \in Key, byClientId'[k] # NoRecord
        PROVE  byHeight'[byClientId'[k].height] = byClientId'[k]
    <3>1. CASE byClientId'[k] = rec
      BY <1>1, <1>5, <3>1
    <3>2. CASE byClientId'[k] = byClientId[k]
      BY <1>0, <1>9, <2>1, <3>2, Typing DEF IInv, IndexInv
    <3> QED BY <1>0, <1>3, <3>1, <3>2, Typing
  <2>2. ASSUME NEW h \in Height, byHeight'[h] # NoRecord, byHeight'[h].key # NoKey
        PROVE  byClientId'[byHeight'[h].key] # NoRecord
    <3>1. byHeight'[h].key \in Key
      BY <1>0, <1>1, <1>5, <2>2, Typing DEF Record
    <3>2. CASE byHeight'[h].key = rec.key
      BY <1>0, <1>2, <1>3, <2>2, <3>1, <3>2, Typing
    <3>3. CASE byHeight'[h].key # rec.key
      BY <1>0, <1>3, <1>5, <2>2, <3>1, <3>3, Typing DEF IInv, IndexInv
    <3> QED BY <3>2, <3>3
  <2> QED BY <2>1, <2>2 DEF IndexInv
<1>14. \A k \in Key \ raced : rec.key = k =>
          /\ \A h \in Height : byHeight[h] # NoRecord => byHeight[h].key # k
          /\ \A d \in Caller : Appending(d) /\ req[d].key = k => d = c
  BY <1>1, <1>3 DEF IInv, KeyInv, Unused, Appending
<1>15. KeyInv'
  <2>1. \A d \in Caller : /\ Appending(d)' <=> Appending(d)
                          /\ Unused(d)' => Unused(d) /\ d # c
    BY <1>0, <1>3, Typing DEF Appending, Unused
  <2> QED BY <1>1, <1>3, <1>5, <1>14, <2>1 DEF IInv, KeyInv, Unused, Appending
<1>16. KeyOnceUnlessRaced'
  BY <1>0, <1>1, <1>3, <1>5, <1>14, Typing DEF IInv, KeyOnceUnlessRaced, Record
<1> QED BY <1>7, <1>8, <1>10, <1>11, <1>12, <1>13, <1>15, <1>16 DEF IInv

-----------------------------------------------------------------------------
LEMMA InitInv == Init => IInv
<1> SUFFICES ASSUME Init PROVE IInv
  OBVIOUS
<1> USE DEF Init, ServiceInit
<1>1. NoTip \in Tip /\ NoTip.height = -1
  BY DEF NoTip, Tip, Hash
<1>2. TypeOK
  <2>1. GenesisRequest \in Request
    BY DEF Request
  <2>2. 0 \in 0..MaxCalls /\ 0 \in 0..(VerifyEveryN - 1)
    BY ServiceAssumption
  <2>3. "none" \in Outcome /\ "idle" \in Await
    BY DEF Outcome, Await
  <2>4. ServiceTypeOK
    BY <1>1, <2>1, <2>2, <2>3 DEF ServiceTypeOK
  <2>5. pc \in [Caller -> Await]
    BY <2>3
  <2> QED BY <1>1, <2>4, <2>5 DEF TypeOK
<1>3. \A h \in Height : byHeight[h] = NoRecord /\ ~(h <= tip.height)
  BY <1>1, ServiceAssumption DEF Height
<1>4. ChainUnbroken
  BY <1>1, <1>3 DEF ChainUnbroken, ChainOk
<1>5. AckedIsJournalled /\ NoFalseAlarm /\ KeyOnceUnlessRaced
  BY <1>3 DEF AckedIsJournalled, NoFalseAlarm, KeyOnceUnlessRaced
<1>6. \A c \in Caller : CallInv(c)
  BY DEF CallInv, KnownTip
<1>7. IndexInv /\ KeyInv
  BY <1>3 DEF IndexInv, KeyInv, Appending, Unused
<1> QED BY <1>2, <1>4, <1>5, <1>6, <1>7 DEF IInv

\* Every step is the write of a record or quiet.
LEMMA StepIsQuietOrWrite ==
    ASSUME IInv, Next
    PROVE  \E c \in Caller : Quiet(c) \/ Persist(c)
BY CallAppendIsQuiet, EnsureGenesisIsQuiet, ResumeIsQuiet, PersistRefusedIsQuiet
DEF Next

LEMMA NextInv == IInv /\ [Next]_vars => IInv'
<1> SUFFICES ASSUME IInv, [Next]_vars PROVE IInv'
  OBVIOUS
<1>1. CASE Next
  BY <1>1, StepIsQuietOrWrite, QuietStep, PersistStep
<1>2. CASE UNCHANGED vars
  BY <1>2
  DEF vars, serviceVars, callVars, storeVars, IInv, TypeOK, ServiceTypeOK,
      ChainUnbroken, ChainOk, AckedIsJournalled, NoFalseAlarm, CallInv, KnownTip,
      NewRecord, IndexInv, KeyInv, Appending, Unused, KeyOnceUnlessRaced
<1> QED BY <1>1, <1>2

\* The invariant holds for any number of callers, keys, calls and heights.
THEOREM Invariance == Spec => []IInv
<1> QED BY InitInv, NextInv, PTL DEF Spec

\* Every variable keeps its type.
THEOREM TypeCorrect == Spec => []TypeOK
<1>1. IInv => TypeOK
  BY DEF IInv
<1> QED BY Invariance, <1>1, PTL

\* However many appends read the same tip, the journal stays one chain from
\* the genesis record to the tip, without gap or fork.
THEOREM ChainAlwaysUnbroken == Spec => []ChainUnbroken
<1>1. IInv => ChainUnbroken
  BY DEF IInv
<1> QED BY Invariance, <1>1, PTL

\* What a caller was told is accepted is in the journal for good.
THEOREM AckedStaysJournalled == Spec => []AckedIsJournalled
<1>1. IInv => AckedIsJournalled
  BY DEF IInv
<1> QED BY Invariance, <1>1, PTL

\* The periodic chain verification never fails on the memory store, so the
\* kill switch is never engaged by it.
THEOREM KillSwitchNeverFires == Spec => []NoFalseAlarm
<1>1. IInv => NoFalseAlarm
  BY DEF IInv
<1> QED BY Invariance, <1>1, PTL

\* A clientRecordId is journalled twice only if two calls overlapped on it.
THEOREM KeyOnce == Spec => []KeyOnceUnlessRaced
<1>1. IInv => KeyOnceUnlessRaced
  BY DEF IInv
<1> QED BY Invariance, <1>1, PTL

-----------------------------------------------------------------------------
\* How far call c is with its record: before the write and after the answer it
\* has none to hand on.
AtRest(c) == pc[c] \notin {"stored", "verify", "observe"}

\* What a step of c does to the records it has still to hand on.
HandsOn(c) ==
    /\ acked \subseteq acked'
    /\ \A d \in Caller \ {c} : pc'[d] = pc[d] /\ NewRecord(d)' = NewRecord(d)
    /\ \/ /\ UNCHANGED <<byHeight, observed>>
          /\ AtRest(c) /\ AtRest(c)'
       \/ /\ UNCHANGED <<byHeight, observed>> /\ NewRecord(c)' = NewRecord(c)
          /\ pc[c] = "stored" /\ pc'[c] = "verify"
       \/ /\ UNCHANGED byHeight /\ observed' = observed \cup {NewRecord(c)}
          /\ pc[c] \in {"stored", "verify"} /\ pc'[c] = "observe" /\ NewRecord(c)' = NewRecord(c)
       \/ /\ UNCHANGED <<byHeight, observed>> /\ acked' = acked \cup {NewRecord(c)}
          /\ pc[c] = "observe" /\ pc'[c] = "idle"
       \/ /\ byHeight[NewRecord(c).height] = NoRecord
          /\ byHeight' = [byHeight EXCEPT ![NewRecord(c).height] = NewRecord(c)]
          /\ NewRecord(c).height \in Height
          /\ AtRest(c) /\ pc'[c] = "stored" /\ NewRecord(c)' = NewRecord(c)
          /\ UNCHANGED observed

\* A call that begins, ends or reads hands nothing on.
LEMMA RestHandsNothingOn ==
    ASSUME TypeOK, NEW c \in Caller, OthersUnchanged(c), AtRest(c), AtRest(c)',
           acked \subseteq acked', UNCHANGED <<byHeight, observed>>
    PROVE  HandsOn(c)
BY DEF HandsOn, OthersUnchanged, NewRecord

LEMMA StepHandsOn ==
    ASSUME IInv, NEW c \in Caller,
           \/ \E r \in FactRequest : CallAppend(c, r)
           \/ CallEnsureGenesis(c)
           \/ Resume(c)
           \/ Persist(c)
           \/ PersistRefused(c)
    PROVE  HandsOn(c)
<1>0. /\ TypeOK /\ CallInv(c) /\ pc \in [Caller -> Await]
  BY Typing DEF IInv
<1>1. CASE \/ \E r \in FactRequest : CallAppend(c, r)
           \/ CallEnsureGenesis(c) \/ PersistRefused(c)
  <2>1. Quiet(c)
    BY <1>1, CallAppendIsQuiet, EnsureGenesisIsQuiet, PersistRefusedIsQuiet
  <2>2. AtRest(c) /\ AtRest(c)' /\ UNCHANGED observed
    BY <1>0, <1>1 DEF AtRest, CallAppend, BeginAppend, RefuseAppend, LookUpKey, ReadTipUnkeyed,
       CallEnsureGenesis, EnsureGenesis, PersistRefused, Finish, Suspend
  <2> QED
    BY <1>0, <2>1, <2>2, RestHandsNothingOn DEF Quiet, AcksOne, storeVars
<1>2. CASE Persist(c)
  <2>1. seenTip[c] = tip
    BY <1>2, FreeHeightIsNext DEF Persist, HeightFree
  <2>2. NewRecord(c).height \in Height /\ NewRecord(c).height = seenTip[c].height + 1
    BY <1>0, <1>2, NewRecordType DEF Persist, CallInv
  <2>3. \A d \in Caller : NewRecord(d)' = NewRecord(d)
    BY <1>2 DEF Persist, NewRecord
  <2> QED
    BY <1>0, <1>2, <2>2, <2>3 DEF Persist, HeightFree, HandsOn, AtRest, Suspend
<1>3. CASE Resume(c)
  <2>1. Quiet(c) /\ UNCHANGED <<byHeight, tip>>
    BY <1>3, ResumeIsQuiet DEF Resume, storeVars
  <2>2. acked \subseteq acked' /\ OthersUnchanged(c)
    BY <2>1 DEF Quiet, AcksOne
  <2>3. \A d \in Caller \ {c} : pc'[d] = pc[d] /\ NewRecord(d)' = NewRecord(d)
    BY <2>2 DEF OthersUnchanged, NewRecord
  <2>4. CASE \/ ReturnGenesis(c, byHeight[0]) \/ AppendGenesis(c, Lookup(GenesisKey), tip)
             \/ ReturnExisting(c) \/ ReadTip(c, tip) \/ RefuseWrite(c)
    <3>1. AtRest(c) /\ AtRest(c)' /\ UNCHANGED observed
      BY <1>0, <2>4 DEF AtRest, ReturnGenesis, AppendGenesis, BeginAppend, RefuseAppend, LookUpKey,
         ReadTipUnkeyed, ReturnExisting, ReadTip, RefuseWrite, Finish, Suspend
    <3> QED
      BY <1>0, <2>1, <2>2, <3>1, RestHandsNothingOn
  <2>5. CASE CountAndVerify(c, byHeight)
    <3>1. NewRecord(c)' = NewRecord(c)
      BY <2>5 DEF CountAndVerify, NewRecord
    <3> QED
      BY <1>0, <2>1, <2>2, <2>3, <2>5, <3>1 DEF CountAndVerify, Suspend, HandsOn
  <2>6. CASE CountAndObserve(c) \/ Observe(c)
    <3>1. NewRecord(c)' = NewRecord(c)
      BY <2>6 DEF CountAndObserve, Observe, NewRecord
    <3> QED
      BY <1>0, <2>1, <2>2, <2>3, <2>6, <3>1 DEF CountAndObserve, Observe, Suspend, HandsOn
  <2>7. CASE FailClosed(c)
    BY <1>0, <2>7 DEF FailClosed, CallInv
  <2>8. CASE Acknowledge(c)
    BY <1>0, <2>1, <2>2, <2>3, <2>8 DEF Acknowledge, Finish, HandsOn
  <2> QED
    BY <1>3, <2>4, <2>5, <2>6, <2>7, <2>8 DEF Resume, ServiceStep
<1> QED
  BY <1>1, <1>2, <1>3

LEMMA ObserverInvStays ==
    ASSUME IInv, ObserverInv, NEW c \in Caller, HandsOn(c)
    PROVE  ObserverInv'
<1>0. /\ byHeight \in [Height -> Record \cup {NoRecord}] /\ observed \subseteq Record
      /\ pc[c] \in {"stored", "verify", "observe"} => byHeight[NewRecord(c).height] = NewRecord(c)
  BY Typing DEF IInv, CallInv, NewRecord
<1>1. ASSUME NEW h \in Height, byHeight'[h] # NoRecord
      PROVE  \/ byHeight'[h] \in observed'
             \/ \E d \in Caller : pc'[d] \in {"stored", "verify"} /\ byHeight'[h] = NewRecord(d)'
  <2>1. CASE byHeight'[h] = byHeight[h]
    BY <1>1, <2>1 DEF ObserverInv, HandsOn, AtRest
  <2>2. CASE byHeight'[h] # byHeight[h]
    BY <1>0, <2>2 DEF HandsOn, AtRest
  <2> QED
    BY <2>1, <2>2
<1>2. ASSUME NEW rec \in observed'
      PROVE  /\ byHeight'[rec.height] = rec
             /\ rec \in acked' \/ \E d \in Caller : pc'[d] = "observe" /\ rec = NewRecord(d)'
  <2>1. CASE rec \in observed
    <3>1. /\ rec \in Record /\ byHeight[rec.height] = rec
          /\ rec \in acked \/ \E d \in Caller : pc[d] = "observe" /\ rec = NewRecord(d)
      BY <1>0, <2>1 DEF ObserverInv
    <3>2. byHeight'[rec.height] = rec
      BY <1>0, <3>1, NoRecordAssumption DEF HandsOn, Record
    <3> QED
      BY <3>1, <3>2 DEF HandsOn, AtRest
  <2>2. CASE rec \notin observed
    BY <1>0, <1>2, <2>2 DEF HandsOn, AtRest
  <2> QED
    BY <2>1, <2>2
<1> QED
  BY <1>1, <1>2 DEF ObserverInv

\* When no call is in progress, what is journalled, what the event stream and
\* the index mirror were given and what was acknowledged are the same records.
THEOREM ObserversMissNothing == Spec => []ObserversComplete
<1>1. Init => ObserverInv
  BY ServiceAssumption DEF Init, ServiceInit, ObserverInv
<1>2. IInv /\ ObserverInv /\ [Next]_vars => ObserverInv'
  <2> SUFFICES ASSUME IInv, ObserverInv, [Next]_vars PROVE ObserverInv'
    OBVIOUS
  <2>1. CASE Next
    BY <2>1, StepHandsOn, ObserverInvStays DEF Next
  <2>2. CASE UNCHANGED vars
    BY <2>2 DEF vars, serviceVars, callVars, storeVars, ObserverInv, NewRecord
  <2> QED
    BY <2>1, <2>2
<1>3. IInv /\ ObserverInv => ObserversComplete
  <2> SUFFICES ASSUME IInv, ObserverInv, \A c \in Caller : ~InFlight(c)
               PROVE  /\ observed = {byHeight[h] : h \in 0..tip.height}
                      /\ observed \subseteq acked
    BY DEF ObserversComplete
  <2>1. /\ \A h \in Height : byHeight[h] # NoRecord <=> h <= tip.height
        /\ tip.height \in Height \cup {-1} /\ observed \subseteq Record
    BY Typing DEF IInv, ChainUnbroken, Tip
  <2>2. \A h \in Height : byHeight[h] # NoRecord => byHeight[h] \in observed
    BY DEF ObserverInv, InFlight
  <2>3. \A rec \in observed : byHeight[rec.height] = rec /\ rec \in acked
    BY DEF ObserverInv, InFlight
  <2>4. ASSUME NEW h \in 0..tip.height
        PROVE  byHeight[h] \in observed
    BY <2>1, <2>2, ServiceAssumption DEF Height
  <2>5. ASSUME NEW rec \in observed
        PROVE  rec.height \in 0..tip.height
    BY <2>1, <2>3, ServiceAssumption, NoRecordAssumption DEF Height, Record
  <2> QED
    BY <2>3, <2>4, <2>5
<1> QED
  BY <1>1, <1>2, <1>3, Invariance, PTL DEF Spec

-----------------------------------------------------------------------------
\* The write of a record is the abstract Append of that record.
LEMMA PersistAppends ==
    ASSUME IInv, NEW c \in Caller, Persist(c)
    PROVE  Log!Append
<1>1. TypeOK /\ CallInv(c) /\ ChainUnbroken /\ seenTip[c] = tip
  BY FreeHeightIsNext DEF IInv, Persist, HeightFree
<1>2. /\ NewRecord(c) \in Record /\ NewRecord(c).height = tip.height + 1
      /\ NewRecord(c).prev = tip.hash /\ tip.height + 1 \in Height
  BY <1>1, NewRecordType DEF CallInv, Persist
<1>3. tip.height \in Int
  BY <1>1, Typing, ServiceAssumption DEF Tip, Height
<1>4. tip.hash = Log!TipHash
  <2>1. CASE tip.height = -1
    BY <1>1, <2>1 DEF ChainUnbroken, NoTip, Log!TipHash
  <2>2. CASE tip.height # -1
    BY <1>1, <1>3, <2>2 DEF ChainUnbroken, Log!TipHash
  <2> QED BY <2>1, <2>2
<1>5. tip'.height + 1 = (tip.height + 1) + 1
  BY <1>2 DEF Persist
<1>6. acked' = acked /\ byHeight[tip.height + 1] = NoRecord
      /\ byHeight' = [byHeight EXCEPT ![tip.height + 1] = NewRecord(c)]
  BY <1>1, <1>2 DEF Persist, HeightFree
<1> QED BY <1>2, <1>4, <1>5, <1>6 DEF Log!Append, Height

\* A quiet step acknowledges a record of the abstract log, or is a stutter.
LEMMA QuietAcknowledges ==
    ASSUME IInv, NEW c \in Caller, Quiet(c)
    PROVE  [Log!Next]_(Log!vars)
<1>1. byHeight' = byHeight /\ tip' = tip
  BY DEF Quiet, storeVars
<1>2. CASE acked' = acked
  BY <1>1, <1>2 DEF Log!vars
<1>3. ASSUME NEW rec \in Record, acked' = acked \cup {rec},
             byHeight[rec.height] = rec
      PROVE  \E h \in 0..((tip.height + 1) - 1) : Log!Acknowledge(h)
  <2>1. rec.height \in Height /\ byHeight[rec.height] # NoRecord
    BY <1>3, NoRecordAssumption DEF Record
  <2>2. rec.height \in 0..((tip.height + 1) - 1)
    <3>1. tip.height \in Int
      BY Typing, ServiceAssumption DEF IInv, Tip, Height
    <3>2. rec.height <= tip.height
      BY <2>1 DEF IInv, ChainUnbroken
    <3> QED BY <2>1, <3>1, <3>2, ServiceAssumption DEF Height
  <2> QED BY <1>1, <1>3, <2>2 DEF Log!Acknowledge
<1> QED BY <1>2, <1>3 DEF Quiet, AcksOne, Log!Next

\* The service over the memory store implements the append-only log: every
\* step is one append on top of the log, one acknowledgement of a record that
\* is in it, or invisible.
THEOREM Refinement == Spec => ImplementsAppendLog
<1>1. Init => Log!Init
  BY DEF Init, ServiceInit, NoTip, Height, Log!Init
<1>2. IInv /\ [Next]_vars => [Log!Next]_(Log!vars)
  <2> SUFFICES ASSUME IInv, [Next]_vars PROVE [Log!Next]_(Log!vars)
    OBVIOUS
  <2>1. CASE Next
    <3>1. ASSUME NEW c \in Caller, Persist(c) PROVE Log!Next
      BY <3>1, PersistAppends DEF Log!Next
    <3> QED BY <2>1, <3>1, StepIsQuietOrWrite, QuietAcknowledges
  <2>2. CASE UNCHANGED vars
    BY <2>2 DEF vars, serviceVars, storeVars, Log!vars
  <2> QED BY <2>1, <2>2
<1> QED BY <1>1, <1>2, Invariance, PTL DEF Spec, ImplementsAppendLog, Log!Spec
-----------------------------------------------------------------------------
(***************************************************************************)
(* The node registry (module NodeRegistry). What decides the status of a   *)
(* node is the last record of it that waits, or the last one written:      *)
(* PendingDecides and WordDecides say so for every state of the queue.     *)
(* EnrolledFirst carries the last conjunct of RegistryTypeOK: while        *)
(* nothing fails, a node on record was registered first.                   *)
(***************************************************************************)

\* The status a record of a kind leaves its node in.
StatusAfter(kind) == IF kind = "suspend" THEN "suspended" ELSE "active"
Enrolling(n) == [kind |-> "register", node |-> n]

\* No record that waits to be written says more of the node than the i-th.
LastOfNode(i, n) ==
    pending[i].node = n /\ \A j \in 1..Len(pending) : pending[j].node = n => j <= i

\* A node has the status its last waiting record gives it ...
PendingDecides ==
    \A i \in 1..Len(pending) : \A n \in Node :
        LastOfNode(i, n) => byId[n].status = StatusAfter(pending[i].kind)

\* ... or, with none waiting, the last written one: unless a write of it failed.
WordDecides ==
    \A n \in Node \ adrift :
        (\A i \in 1..Len(pending) : pending[i].node # n) =>
            byId[n].status = CASE word[n] = "suspend" -> "suspended"
                               [] word[n] \in {"register", "restore"} -> "active"
                               [] OTHER -> Known[n].status

\* While nothing fails or restarts, the enrolment of a node comes before all else of it.
EnrolledFirst ==
    disturbances = 0 =>
        \A n \in Node \ (Founders \cup enrolled) :
            /\ byId[n].status # "unknown" =>
                  \E j \in 1..Len(pending) : pending[j] = Enrolling(n)
            /\ \A i \in 1..Len(pending) :
                  pending[i].node = n => \E j \in 1..i : pending[j] = Enrolling(n)

RegistryInv == RegistryTypeOK /\ PendingDecides /\ WordDecides /\ EnrolledFirst

NodeRow == [status : {"unknown", "active", "suspended"}, role : Role]
NodeRecord == [kind : Kind, node : Node]

LEMMA AppendedRec ==
    ASSUME NEW S, NEW s \in Seq(S), NEW e \in S
    PROVE  /\ Append(s, e) \in Seq(S) /\ Len(Append(s, e)) = Len(s) + 1
           /\ \A i \in 1..Len(s) : Append(s, e)[i] = s[i]
           /\ Append(s, e)[Len(s) + 1] = e
OBVIOUS

LEMMA TailRec ==
    ASSUME NEW S, NEW s \in Seq(S), s # <<>>
    PROVE  /\ Tail(s) \in Seq(S) /\ Len(Tail(s)) = Len(s) - 1 /\ Len(s) > 0
           /\ \A i \in 1..(Len(s) - 1) : Tail(s)[i] = s[i + 1]
           /\ Head(s) = s[1] /\ Head(s) \in S
OBVIOUS

LEMMA KnownType == Known \in [Node -> NodeRow]
<1>1. As("active", "confirmer") \in NodeRow /\ Unknown \in NodeRow
  BY RegistryAssumption DEF As, Unknown, NodeRow
<1> QED BY <1>1 DEF Known

LEMMA ChangesKeep ==
    ASSUME RegistryInv, NEW n \in Node, NEW row \in NodeRow, NEW kind \in Kind, Changes(n, row, kind),
           row.status = StatusAfter(kind),
           byId[n].status = "unknown" => kind = "register"
    PROVE  RegistryInv'
<1> USE DEF RegistryInv
<1>1. /\ byId \in [Node -> NodeRow] /\ pending \in Seq(NodeRecord) /\ Len(pending) <= MaxPending
      /\ Len(pending) \in Nat /\ MaxPending \in Nat
  BY RegistryAssumption DEF RegistryTypeOK, NodeRow, NodeRecord
<1>2. PICK e : e = [kind |-> kind, node |-> n]
  OBVIOUS
<1>3. e \in NodeRecord /\ e.kind = kind /\ e.node = n
  BY <1>2 DEF NodeRecord
<1>4. /\ pending' \in Seq(NodeRecord) /\ Len(pending') = Len(pending) + 1
      /\ \A i \in 1..Len(pending) : pending'[i] = pending[i]
      /\ pending'[Len(pending) + 1] = e
  BY <1>1, <1>2, <1>3, AppendedRec DEF Changes
<1>5. /\ byId' \in [Node -> NodeRow] /\ byId'[n] = row
      /\ \A m \in Node : m # n => byId'[m] = byId[m]
  BY <1>1 DEF Changes
<1>6. RegistryTypeOK'
  BY <1>1, <1>4, <1>5 DEF RegistryTypeOK, Changes, NodeRow, NodeRecord
<1>7. PendingDecides'
  <2> SUFFICES ASSUME NEW i \in 1..Len(pending'), NEW m \in Node, LastOfNode(i, m)'
               PROVE  byId'[m].status = StatusAfter(pending'[i].kind)
    BY DEF PendingDecides
  <2>1. CASE m = n
    <3>1. i = Len(pending) + 1
      BY <2>1, <1>1, <1>3, <1>4 DEF LastOfNode
    <3> QED BY <3>1, <2>1, <1>3, <1>4, <1>5
  <2>2. CASE m # n
    <3>1. i # Len(pending) + 1 /\ i \in 1..Len(pending)
      BY <2>2, <1>1, <1>3, <1>4 DEF LastOfNode
    <3>2. LastOfNode(i, m)
      BY <3>1, <1>1, <1>4 DEF LastOfNode
    <3> QED BY <3>1, <3>2, <2>2, <1>4, <1>5 DEF PendingDecides
  <2> QED BY <2>1, <2>2
<1>8. WordDecides'
  <2> SUFFICES ASSUME NEW m \in Node \ adrift', \A i \in 1..Len(pending') : pending'[i].node # m
               PROVE  byId'[m].status = CASE word'[m] = "suspend" -> "suspended"
                               [] word'[m] \in {"register", "restore"} -> "active"
                               [] OTHER -> Known[m].status
    BY DEF WordDecides
  <2>1. m # n /\ \A i \in 1..Len(pending) : pending[i].node # m
    BY <1>1, <1>3, <1>4
  <2> QED BY <2>1, <1>5 DEF WordDecides, Changes
<1>9. EnrolledFirst'
  <2> SUFFICES ASSUME disturbances = 0, NEW m \in Node \ (Founders \cup enrolled)
               PROVE  /\ byId'[m].status # "unknown" =>
                            \E j \in 1..Len(pending') : pending'[j] = Enrolling(m)
                      /\ \A i \in 1..Len(pending') : pending'[i].node = m =>
                            \E j \in 1..i : pending'[j] = Enrolling(m)
    BY DEF EnrolledFirst, Changes
  <2>0. /\ byId[m].status # "unknown" => \E j \in 1..Len(pending) : pending[j] = Enrolling(m)
        /\ \A i \in 1..Len(pending) : pending[i].node = m =>
              \E j \in 1..i : pending[j] = Enrolling(m)
    BY DEF EnrolledFirst
  <2>1. \A i \in 1..Len(pending) : \A j \in 1..i : j \in 1..Len(pending)
    BY <1>1
  <2>2. \A i \in 1..Len(pending) : pending'[i].node = m =>
              \E j \in 1..i : pending'[j] = Enrolling(m)
    BY <2>0, <2>1, <1>4
  <2>3. m = n => \E j \in 1..(Len(pending) + 1) : pending'[j] = Enrolling(m)
    <3>1. CASE byId[m].status # "unknown"
      BY <3>1, <2>0, <1>1, <1>4
    <3>2. CASE byId[m].status = "unknown" /\ m = n
      BY <3>2, <1>1, <1>2, <1>4 DEF Enrolling
    <3> QED BY <3>1, <3>2
  <2>4. m # n => pending'[Len(pending) + 1].node # m
    BY <1>3, <1>4
  <2>5. byId'[m].status # "unknown" => \E j \in 1..Len(pending') : pending'[j] = Enrolling(m)
    BY <2>0, <2>3, <1>1, <1>4, <1>5
  <2> QED BY <2>2, <2>3, <2>4, <2>5, <1>1, <1>4
<1> QED BY <1>6, <1>7, <1>8, <1>9

\* What is left of the queue once its first record is dealt with.
LEMMA TailKeeps ==
    ASSUME RegistryInv, pending # <<>>, pending' = Tail(pending), UNCHANGED byId
    PROVE  /\ pending' \in Seq(NodeRecord) /\ Len(pending') <= MaxPending
           /\ PendingDecides'
           /\ Head(pending) \in NodeRecord
           /\ \A n \in Node : n # Head(pending).node =>
                 ((\A i \in 1..Len(pending') : pending'[i].node # n)
                    <=> (\A i \in 1..Len(pending) : pending[i].node # n))
           /\ (\A i \in 1..Len(pending') : pending'[i].node # Head(pending).node) =>
                 byId[Head(pending).node].status = StatusAfter(Head(pending).kind)
<1> USE DEF RegistryInv
<1>1. /\ byId \in [Node -> NodeRow] /\ pending \in Seq(NodeRecord) /\ Len(pending) <= MaxPending
      /\ Len(pending) \in Nat /\ MaxPending \in Nat
  BY RegistryAssumption DEF RegistryTypeOK, NodeRow, NodeRecord
<1>2. /\ pending' \in Seq(NodeRecord) /\ Len(pending') = Len(pending) - 1 /\ Len(pending) > 0
      /\ \A i \in 1..(Len(pending) - 1) : pending'[i] = pending[i + 1]
      /\ Head(pending) = pending[1] /\ Head(pending) \in NodeRecord
  BY <1>1, TailRec
<1>3. PendingDecides'
  <2> SUFFICES ASSUME NEW i \in 1..Len(pending'), NEW m \in Node, LastOfNode(i, m)'
               PROVE  byId[m].status = StatusAfter(pending'[i].kind)
    BY DEF PendingDecides
  <2>1. i + 1 \in 1..Len(pending) /\ pending'[i] = pending[i + 1]
    BY <1>1, <1>2
  <2>2. \A j \in 1..Len(pending) : pending[j].node = m => j <= i + 1
    <3> SUFFICES ASSUME NEW j \in 1..Len(pending), pending[j].node = m, j > 1
                 PROVE  j <= i + 1
      BY <1>1, <1>2
    <3>1. j - 1 \in 1..Len(pending') /\ pending'[j - 1] = pending[j]
      BY <1>1, <1>2
    <3>2. j - 1 <= i
      BY <3>1 DEF LastOfNode
    <3> QED BY <3>2, <1>1, <1>2
  <2>3. LastOfNode(i + 1, m)
    BY <2>1, <2>2 DEF LastOfNode
  <2> QED BY <2>1, <2>3 DEF PendingDecides
<1>4. ASSUME NEW n \in Node, n # Head(pending).node
      PROVE  (\A i \in 1..Len(pending') : pending'[i].node # n)
                <=> (\A i \in 1..Len(pending) : pending[i].node # n)
  <2>1. ASSUME \A i \in 1..Len(pending') : pending'[i].node # n, NEW i \in 1..Len(pending)
        PROVE  pending[i].node # n
    <3>1. CASE i = 1
      BY <3>1, <1>2, <1>4
    <3>2. CASE i # 1
      <4>1. i - 1 \in 1..Len(pending') /\ pending'[i - 1] = pending[i]
        BY <3>2, <1>1, <1>2
      <4> QED BY <4>1, <2>1
    <3> QED BY <3>1, <3>2
  <2>2. ASSUME \A i \in 1..Len(pending) : pending[i].node # n, NEW i \in 1..Len(pending')
        PROVE  pending'[i].node # n
    <3>1. i + 1 \in 1..Len(pending) /\ pending'[i] = pending[i + 1]
      BY <1>1, <1>2
    <3> QED BY <3>1, <2>2
  <2> QED BY <2>1, <2>2
<1>5. ASSUME \A i \in 1..Len(pending') : pending'[i].node # Head(pending).node
      PROVE  byId[Head(pending).node].status = StatusAfter(Head(pending).kind)
  <2>1. 1 \in 1..Len(pending) /\ Head(pending).node \in Node
    BY <1>1, <1>2 DEF NodeRecord
  <2>2. \A j \in 1..Len(pending) : pending[j].node = pending[1].node => j <= 1
    <3> SUFFICES ASSUME NEW j \in 1..Len(pending), j > 1
                 PROVE  pending[j].node # pending[1].node
      BY <1>1
    <3>1. j - 1 \in 1..Len(pending') /\ pending'[j - 1] = pending[j]
      BY <1>1, <1>2
    <3> QED BY <3>1, <1>2, <1>5
  <2>3. LastOfNode(1, pending[1].node)
    BY <2>2 DEF LastOfNode
  <2> QED BY <2>1, <2>3, <1>2 DEF PendingDecides
<1>6. Len(pending') <= MaxPending
  BY <1>1, <1>2
<1>7. \A n \in Node : n # Head(pending).node =>
         ((\A i \in 1..Len(pending') : pending'[i].node # n)
            <=> (\A i \in 1..Len(pending) : pending[i].node # n))
  BY <1>4, Zenon
<1> QED BY <1>2, <1>3, <1>5, <1>6, <1>7, Zenon

LEMMA TailEnrols ==
    ASSUME RegistryInv, pending # <<>>, pending' = Tail(pending), UNCHANGED <<byId, disturbances>>,
           enrolled \subseteq enrolled',
           disturbances = 0 /\ Head(pending).kind = "register" => Head(pending).node \in enrolled'
    PROVE  /\ EnrolledFirst'
           /\ disturbances = 0 => Head(pending).node \in Founders \cup enrolled'
<1> USE DEF RegistryInv
<1>1. /\ pending \in Seq(NodeRecord) /\ Len(pending) \in Nat
  BY DEF RegistryTypeOK, NodeRecord
<1>2. /\ pending' \in Seq(NodeRecord) /\ Len(pending') = Len(pending) - 1 /\ Len(pending) > 0
      /\ \A i \in 1..(Len(pending) - 1) : pending'[i] = pending[i + 1]
      /\ Head(pending) = pending[1] /\ Head(pending) \in NodeRecord
  BY <1>1, TailRec
<1>3. ASSUME disturbances = 0, NEW m \in Node \ (Founders \cup enrolled'), 
             NEW i \in 1..Len(pending), NEW j \in 1..i, pending[j] = Enrolling(m)
      PROVE  j > 1 /\ j - 1 \in 1..(i - 1) /\ pending'[j - 1] = Enrolling(m)
  <2>1. j # 1
    <3> SUFFICES ASSUME j = 1 PROVE FALSE OBVIOUS
    <3>1. Head(pending).kind = "register" /\ Head(pending).node = m
      BY <1>2, <1>3 DEF Enrolling
    <3> QED BY <3>1, <1>3
  <2>2. i \in Nat /\ j \in Nat /\ i <= Len(pending) /\ j <= i /\ j >= 1
    BY <1>1
  <2>3. j > 1 /\ j - 1 \in 1..(i - 1) /\ j - 1 \in 1..(Len(pending) - 1)
    BY <2>1, <2>2, <1>1
  <2>4. pending'[j - 1] = pending[(j - 1) + 1] /\ (j - 1) + 1 = j
    BY <2>2, <2>3, <1>2
  <2> QED BY <2>3, <2>4, <1>3
<1>4. EnrolledFirst'
  <2> SUFFICES ASSUME disturbances = 0, NEW m \in Node \ (Founders \cup enrolled')
               PROVE  /\ byId[m].status # "unknown" =>
                            \E j \in 1..Len(pending') : pending'[j] = Enrolling(m)
                      /\ \A i \in 1..Len(pending') : pending'[i].node = m =>
                            \E j \in 1..i : pending'[j] = Enrolling(m)
    BY DEF EnrolledFirst
  <2>1. ASSUME byId[m].status # "unknown"
        PROVE  \E j \in 1..Len(pending') : pending'[j] = Enrolling(m)
    <3>1. PICK j \in 1..Len(pending) : pending[j] = Enrolling(m)
      BY <2>1 DEF EnrolledFirst
    <3>2. j \in 1..Len(pending) /\ Len(pending) \in 1..Len(pending)
      BY <1>1, <1>2
    <3>3. j - 1 \in 1..(Len(pending) - 1) /\ pending'[j - 1] = Enrolling(m)
      BY <3>1, <3>2, <1>3
    <3> QED BY <3>3, <1>2
  <2>2. ASSUME NEW i \in 1..Len(pending'), pending'[i].node = m
        PROVE  \E j \in 1..i : pending'[j] = Enrolling(m)
    <3>1. i + 1 \in 1..Len(pending) /\ pending[i + 1].node = m
      BY <1>1, <1>2, <2>2
    <3>2. PICK j \in 1..(i + 1) : pending[j] = Enrolling(m)
      BY <3>1 DEF EnrolledFirst
    <3>3. j - 1 \in 1..((i + 1) - 1) /\ pending'[j - 1] = Enrolling(m)
      BY <3>1, <3>2, <1>3
    <3>4. (i + 1) - 1 = i
      BY <1>1, <1>2
    <3> QED BY <3>3, <3>4
  <2> QED BY <2>1, <2>2
<1>5. ASSUME disturbances = 0
      PROVE  Head(pending).node \in Founders \cup enrolled'
  <2> SUFFICES ASSUME Head(pending).node \notin Founders \cup enrolled' PROVE FALSE
    OBVIOUS
  <2>1. 1 \in 1..Len(pending) /\ Head(pending).node \in Node \ (Founders \cup enrolled)
    BY <1>1, <1>2 DEF NodeRecord
  <2>2. PICK j \in 1..1 : pending[j] = Enrolling(Head(pending).node)
    BY <2>1, <1>2, <1>5 DEF EnrolledFirst
  <2>3. j = 1
    BY <2>2
  <2>4. Head(pending).kind = "register"
    BY <2>2, <2>3, <1>2 DEF Enrolling
  <2> QED BY <2>4, <1>5
<1> QED BY <1>4, <1>5

LEMMA RegistryStarts == RegistryInit => RegistryInv
<1> SUFFICES ASSUME RegistryInit PROVE RegistryInv OBVIOUS
<1> USE DEF RegistryInit
<1>1. Known \in [Node -> NodeRow] /\ pending \in Seq(NodeRecord) /\ Len(pending) = 0
  BY KnownType
<1>2. RegistryTypeOK
  BY <1>1, RegistryAssumption DEF RegistryTypeOK, NodeRow, NodeRecord
<1>3. PendingDecides
  BY <1>1 DEF PendingDecides
<1>4. WordDecides
  BY DEF WordDecides
<1>5. EnrolledFirst
  <2>1. \A n \in Node \ Founders : Known[n].status = "unknown"
    BY DEF Known, Unknown
  <2>2. \A i \in 1..Len(pending) : FALSE
    BY <1>1
  <2> QED BY <2>1, <2>2 DEF EnrolledFirst
<1> QED BY <1>2, <1>3, <1>4, <1>5 DEF RegistryInv

LEMMA AppendNextKeeps ==
    ASSUME RegistryInv, AppendNext
    PROVE  RegistryInv'
<1>1. /\ pending # <<>> /\ pending' = Tail(pending) /\ UNCHANGED <<byId, disturbances>>
  BY DEF AppendNext
<1>2. /\ pending' \in Seq(NodeRecord) /\ Len(pending') <= MaxPending /\ PendingDecides'
      /\ Head(pending) \in NodeRecord
  BY <1>1, TailKeeps
<1>3. PICK n \in Node : n = Head(pending).node
  BY <1>2 DEF NodeRecord
<1>4. PICK kind \in Kind : kind = Head(pending).kind
  BY <1>2 DEF NodeRecord
<1>5. /\ \A m \in Node : m # n =>
            ((\A i \in 1..Len(pending') : pending'[i].node # m)
               <=> (\A i \in 1..Len(pending) : pending[i].node # m))
      /\ (\A i \in 1..Len(pending') : pending'[i].node # n) => byId[n].status = StatusAfter(kind)
  BY <1>1, <1>3, <1>4, TailKeeps
<1>6. /\ word \in [Node -> Kind \cup {"none"}] /\ enrolled \subseteq Node /\ adrift \subseteq Node
      /\ byId \in [Node -> NodeRow] /\ disturbances \in 0..MaxDisturbances
  BY DEF RegistryInv, RegistryTypeOK, NodeRow
<1>7. /\ word' \in [Node -> Kind \cup {"none"}] /\ enrolled' \subseteq Node /\ adrift' \subseteq Node
      /\ enrolled \subseteq enrolled'
      /\ kind = "register" => n \in enrolled'
      /\ \A m \in Node : m # n => word'[m] = word[m] /\ (m \in adrift' <=> m \in adrift)
      /\ n \notin adrift' => word'[n] = kind
  BY <1>3, <1>4, <1>6 DEF AppendNext, Records
<1>8. EnrolledFirst' /\ (disturbances = 0 => n \in Founders \cup enrolled')
  <2>1. enrolled \subseteq enrolled' /\ byId' = byId /\ disturbances' = disturbances
    BY <1>1, <1>7
  <2>2. Head(pending).kind = "register" => Head(pending).node \in enrolled'
    BY <1>3, <1>4, <1>7
  <2>3. EnrolledFirst' /\ (disturbances = 0 => Head(pending).node \in Founders \cup enrolled')
    BY <1>1, <2>1, <2>2, TailEnrols
  <2> QED BY <2>3, <1>3
<1>9. RegistryTypeOK'
  <2>1. \A m \in Node : word'[m] # "none" => m \in Founders \cup enrolled' \/ disturbances' > 0
    <3> SUFFICES ASSUME NEW m \in Node, word'[m] # "none", ~(disturbances' > 0)
                 PROVE  m \in Founders \cup enrolled'
      OBVIOUS
    <3>1. disturbances = 0
      BY <1>1, <1>6, RegistryAssumption
    <3>2. CASE m = n
      BY <3>1, <3>2, <1>8
    <3>3. CASE m # n
      <4>1. word[m] # "none" /\ ~(disturbances > 0)
        BY <3>1, <3>3, <1>7
      <4>2. m \in Founders \cup enrolled
        BY <4>1 DEF RegistryInv, RegistryTypeOK
      <4> QED BY <4>2, <1>7
    <3> QED BY <3>2, <3>3
  <2> QED BY <2>1, <1>1, <1>2, <1>6, <1>7 DEF RegistryTypeOK, NodeRow, NodeRecord
<1>10. WordDecides'
  <2> SUFFICES ASSUME NEW m \in Node \ adrift', \A i \in 1..Len(pending') : pending'[i].node # m
               PROVE  byId[m].status = CASE word'[m] = "suspend" -> "suspended"
                               [] word'[m] \in {"register", "restore"} -> "active"
                               [] OTHER -> Known[m].status
    BY <1>1 DEF WordDecides
  <2>1. CASE m # n
    BY <2>1, <1>5, <1>7 DEF RegistryInv, WordDecides
  <2>2. CASE m = n
    <3>1. word'[n] = kind /\ byId[n].status = StatusAfter(kind)
      BY <2>2, <1>5, <1>7
    <3> QED BY <3>1, <2>2, <1>4 DEF StatusAfter, Kind
  <2> QED BY <2>1, <2>2
<1> QED BY <1>2, <1>8, <1>9, <1>10 DEF RegistryInv

LEMMA AppendBreaksKeeps ==
    ASSUME RegistryInv, AppendBreaks
    PROVE  RegistryInv'
<1>1. /\ pending # <<>> /\ pending' = Tail(pending) /\ UNCHANGED <<byId, enrolled, word>>
      /\ disturbances' = disturbances + 1 /\ disturbances' \in 0..MaxDisturbances
      /\ disturbances' > 0
      /\ adrift' = adrift \cup {Head(pending).node}
  BY RegistryAssumption DEF AppendBreaks, RegistryInv, RegistryTypeOK
<1>2. /\ pending' \in Seq(NodeRecord) /\ Len(pending') <= MaxPending /\ PendingDecides'
      /\ Head(pending) \in NodeRecord
      /\ \A n \in Node : n # Head(pending).node =>
             ((\A i \in 1..Len(pending') : pending'[i].node # n)
                <=> (\A i \in 1..Len(pending) : pending[i].node # n))
  BY <1>1, TailKeeps
<1>3. RegistryTypeOK'
  BY <1>1, <1>2 DEF RegistryInv, RegistryTypeOK, NodeRecord
<1>4. WordDecides'
  BY <1>1, <1>2 DEF RegistryInv, WordDecides
<1>5. EnrolledFirst'
  BY <1>1 DEF EnrolledFirst
<1> QED BY <1>2, <1>3, <1>4, <1>5 DEF RegistryInv

LEMMA RegistryRestartsKeeps ==
    ASSUME RegistryInv, RegistryRestarts
    PROVE  RegistryInv'
<1>1. /\ pending' = <<>> /\ byId' = Known /\ UNCHANGED <<enrolled, word>>
      /\ disturbances' = disturbances + 1 /\ disturbances' \in 0..MaxDisturbances
      /\ disturbances' > 0 /\ adrift' = {n \in Node : word[n] # "none"}
  BY RegistryAssumption DEF RegistryRestarts, RegistryInv, RegistryTypeOK
<1>2. pending' \in Seq(NodeRecord) /\ Len(pending') = 0 /\ Known \in [Node -> NodeRow]
  BY <1>1, KnownType
<1>3. RegistryTypeOK'
  BY <1>1, <1>2, RegistryAssumption DEF RegistryInv, RegistryTypeOK, NodeRow, NodeRecord
<1>4. PendingDecides'
  BY <1>2 DEF PendingDecides
<1>5. WordDecides'
  BY <1>1 DEF WordDecides
<1>6. EnrolledFirst'
  BY <1>1 DEF EnrolledFirst
<1> QED BY <1>3, <1>4, <1>5, <1>6 DEF RegistryInv

LEMMA RegistryStep == RegistryInv /\ [RegistryNext]_registryVars => RegistryInv'
<1> SUFFICES ASSUME RegistryInv, [RegistryNext]_registryVars PROVE RegistryInv' OBVIOUS
<1>1. byId \in [Node -> NodeRow]
  BY DEF RegistryInv, RegistryTypeOK, NodeRow
<1>2. ASSUME NEW n \in Node, SuspendNode(n) PROVE RegistryInv'
  <2>1. As("suspended", byId[n].role) \in NodeRow /\ "suspend" \in Kind
        /\ As("suspended", byId[n].role).status = StatusAfter("suspend")
    BY <1>1 DEF As, NodeRow, Kind, StatusAfter
  <2> QED BY <2>1, <1>2, ChangesKeep DEF SuspendNode
<1>3. ASSUME NEW n \in Node, RestoreNode(n) PROVE RegistryInv'
  <2>1. As("active", byId[n].role) \in NodeRow /\ "restore" \in Kind
        /\ As("active", byId[n].role).status = StatusAfter("restore")
    BY <1>1 DEF As, NodeRow, Kind, StatusAfter
  <2> QED BY <2>1, <1>3, ChangesKeep DEF RestoreNode
<1>4. ASSUME NEW n \in Node, NEW role \in Role, RegisterNode(n, role) PROVE RegistryInv'
  <2>1. As("active", role) \in NodeRow /\ "register" \in Kind
        /\ As("active", role).status = StatusAfter("register")
    BY DEF As, NodeRow, Kind, StatusAfter
  <2> QED BY <2>1, <1>4, ChangesKeep DEF RegisterNode
<1>5. CASE UNCHANGED registryVars
  <2>1. /\ byId' = byId /\ pending' = pending /\ enrolled' = enrolled /\ word' = word
        /\ disturbances' = disturbances /\ adrift' = adrift
    BY <1>5 DEF registryVars
  <2> QED BY <2>1 DEF RegistryInv, RegistryTypeOK, PendingDecides, LastOfNode, WordDecides, EnrolledFirst
<1> QED
  BY <1>2, <1>3, <1>4, <1>5, AppendNextKeeps, AppendBreaksKeeps, RegistryRestartsKeeps DEF RegistryNext

\* NodeRegistryService changes its map before the journal takes the record, for any nodes and any
\* number of changes that wait, fail or are lost in a restart: once nothing waits, each node has in
\* memory the status its last record gives it, unless it is one of those named as adrift.
THEOREM RegistrySpecKeepsNodesKnown == RegistrySpec => []NodesAreKnown
<1>1. RegistryInv => NodesAreKnown
  <2> SUFFICES ASSUME RegistryInv PROVE NodesAreKnown OBVIOUS
  <2>1. pending = <<>> => \A n \in Node : \A i \in 1..Len(pending) : pending[i].node # n
    OBVIOUS
  <2> QED BY <2>1 DEF RegistryInv, NodesAreKnown, StatusIsRecorded, WordDecides
<1> QED BY <1>1, RegistryStarts, RegistryStep, PTL DEF RegistrySpec
-----------------------------------------------------------------------------
(***************************************************************************)
(* The advice on the way to the emission (module Governance).              *)
(* GovernanceInv says of the run of each process what AdviceIsSound says   *)
(* of its outcome: SoundRun for any panel, SoundByPolicy for the default   *)
(* agents. A step of one process changes one row (OneRunSteps).            *)
(***************************************************************************)

\* A row of run.
RunRow ==
    [step : {"none", "opening", "open", "verified", "panel", "let", "stopped", "rejecting",
             "rejected", "refused", "cut"},
     worth : Worth, hard : BOOLEAN, seen : SUBSET Process,
     asked : SUBSET Agents, score : Int, failed : BOOLEAN]

RowOf(step, worth, hard, seen, asked, score, failed) ==
    [step |-> step, worth |-> worth, hard |-> hard, seen |-> seen, asked |-> asked,
     score |-> score, failed |-> failed]

\* The default agents object to a value out of bounds and to critical events.
Objected(row) == row.worth \in {"zero", "above"} \/ row.seen # {}

\* Agents of whatever kind: who did not say yes counts, and no process with a critical
\* event of its own comes before the panel.
SoundRun(q, row, events, no, open) ==
    /\ row.step = "panel" /\ q \in no => row.failed
    /\ row.step = "let" /\ row.hard => q \notin no
    /\ q \notin open /\ row.step \notin {"stopped", "rejecting", "rejected"} => q \notin events
    /\ q \notin open /\ row.step \in {"panel", "let", "refused"} => q \notin row.seen

\* The default agents alone.
SoundByPolicy(q, row, events) ==
    /\ row.step = "panel" =>
          /\ row.asked = Agents
          /\ row.failed <=> Objected(row)
          /\ q \in events <=> row.seen # {}
          /\ ~Objected(row) => row.score >= 60
    /\ row.step = "let" /\ row.hard => row.worth \in {"low", "high"} /\ q \notin events
    /\ row.step = "refused" => Objected(row)

GovernanceInv ==
    /\ GovernanceTypeOK
    /\ \A q \in Process :
          /\ SoundRun(q, run[q], critical, silent, unaborted)
          /\ AllPolicy => SoundByPolicy(q, run[q], warned)

LEMMA FiveAgents ==
    Agents = {"intake_integrity", "pot_consistency", "economic_bounds", "anomaly_watch",
              "release_risk"}
<1>1. DOMAIN Roles = 1..5
  BY DEF Roles
<1> QED BY <1>1 DEF Agents, ToSet, Roles

LEMMA RunsAreRows ==
    ASSUME GovernanceTypeOK
    PROVE  run \in [Process -> RunRow]
BY DEF GovernanceTypeOK, RunRow

LEMMA RowFields ==
    ASSUME NEW row \in RunRow
    PROVE  /\ row = RowOf(row.step, row.worth, row.hard, row.seen, row.asked, row.score, row.failed)
           /\ row.worth \in Worth /\ row.hard \in BOOLEAN /\ row.seen \in SUBSET Process
           /\ row.asked \in SUBSET Agents /\ row.score \in Int /\ row.failed \in BOOLEAN
BY DEF RunRow, RowOf

LEMMA FieldsMakeRow ==
    ASSUME NEW step \in {"none", "opening", "open", "verified", "panel", "let", "stopped",
                         "rejecting", "rejected", "refused", "cut"},
           NEW worth \in Worth, NEW hard \in BOOLEAN, NEW seen \in SUBSET Process,
           NEW asked \in SUBSET Agents, NEW score \in Int, NEW failed \in BOOLEAN, NEW row,
           row = RowOf(step, worth, hard, seen, asked, score, failed)
    PROVE  /\ row \in RunRow
           /\ row.step = step /\ row.worth = worth /\ row.hard = hard /\ row.seen = seen
           /\ row.asked = asked /\ row.score = score /\ row.failed = failed
<1>1. row \in RunRow
  BY DEF RunRow, RowOf
<1>2. /\ row.step = step /\ row.worth = worth /\ row.hard = hard /\ row.seen = seen
      /\ row.asked = asked /\ row.score = score /\ row.failed = failed
  BY DEF RowOf
<1> QED BY <1>1, <1>2

LEMMA NewRow ==
    ASSUME NEW step \in {"opening", "verified", "cut"}, NEW worth \in Worth, NEW hard \in BOOLEAN,
           NEW row, row = [NoRun EXCEPT !.step = step, !.worth = worth, !.hard = hard]
    PROVE  row \in RunRow /\ row.step = step /\ row.asked = {}
<1>1. row = RowOf(step, worth, hard, {}, {}, 0, FALSE)
  BY DEF NoRun, RowOf
<1>2. RowOf(step, worth, hard, {}, {}, 0, FALSE) \in RunRow
  BY DEF RunRow, RowOf
<1>3. /\ RowOf(step, worth, hard, {}, {}, 0, FALSE).step = step
      /\ RowOf(step, worth, hard, {}, {}, 0, FALSE).asked = {}
  BY DEF RowOf
<1> QED BY <1>1, <1>2, <1>3

\* A step of one process: what is noted of the others stays as it was.
LEMMA OneRunSteps ==
    ASSUME GovernanceInv, NEW p \in Process, NEW row \in RunRow,
           run' = [run EXCEPT ![p] = row], panel' = panel, starts' = starts,
           critical' \subseteq Process, warned' \subseteq Process, silent' \subseteq Process,
           unaborted' \subseteq Process,
           \A q \in Process \ {p} :
               /\ q \in critical' => q \in critical
               /\ q \in warned' <=> q \in warned
               /\ q \in silent' <=> q \in silent
               /\ q \in unaborted' <=> q \in unaborted,
           row.step # "panel" => row.asked = {},
           SoundRun(p, row, critical', silent', unaborted'),
           AllPolicy => SoundByPolicy(p, row, warned')
    PROVE  GovernanceInv'
<1>1. /\ run \in [Process -> RunRow] /\ run' \in [Process -> RunRow] /\ run'[p] = row
      /\ \A q \in Process : q # p => run'[q] = run[q]
  BY RunsAreRows DEF GovernanceInv
<1>2. GovernanceTypeOK'
  BY <1>1 DEF GovernanceInv, GovernanceTypeOK, RunRow
<1>3. AllPolicy' <=> AllPolicy
  BY DEF AllPolicy
<1>4. ASSUME NEW q \in Process
      PROVE  SoundRun(q, run'[q], critical', silent', unaborted')
  <2>1. CASE q = p
    BY <2>1, <1>1
  <2>2. CASE q # p
    <3>1. SoundRun(q, run[q], critical, silent, unaborted)
      BY DEF GovernanceInv
    <3> QED BY <3>1, <2>2, <1>1 DEF SoundRun
  <2> QED BY <2>1, <2>2
<1>5. ASSUME NEW q \in Process, AllPolicy
      PROVE  SoundByPolicy(q, run'[q], warned')
  <2>1. CASE q = p
    BY <2>1, <1>1, <1>5
  <2>2. CASE q # p
    <3>1. SoundByPolicy(q, run[q], warned)
      BY <1>5 DEF GovernanceInv
    <3> QED BY <3>1, <2>2, <1>1 DEF SoundByPolicy
  <2> QED BY <2>1, <2>2
<1> QED BY <1>2, <1>3, <1>4, <1>5 DEF GovernanceInv

LEMMA GovernanceStarts == GovernanceInit => GovernanceInv
<1> SUFFICES ASSUME GovernanceInit PROVE GovernanceInv OBVIOUS
<1>1. NoRun \in RunRow /\ NoRun.step = "none" /\ NoRun.asked = {}
  BY DEF NoRun, RunRow, Worth
<1>2. \A q \in Process : run[q] = NoRun
  BY DEF GovernanceInit
<1>3. GovernanceTypeOK
  BY <1>1, <1>2, GovernanceAssumption DEF GovernanceInit, GovernanceTypeOK, RunRow
<1>4. \A q \in Process : SoundRun(q, run[q], critical, silent, unaborted)
                          /\ SoundByPolicy(q, run[q], warned)
  BY <1>1, <1>2 DEF GovernanceInit, SoundRun, SoundByPolicy
<1> QED BY <1>3, <1>4 DEF GovernanceInv

LEMMA BeginKeeps ==
    ASSUME GovernanceInv, NEW p \in Process, NEW worth \in Worth, NEW hard \in BOOLEAN,
           Begin(p, worth, hard)
    PROVE  GovernanceInv'
<1>1. /\ run \in [Process -> RunRow] /\ run[p].step = "none" /\ run[p].asked = {}
      /\ panel' = panel /\ starts' = starts /\ warned' = warned /\ silent' = silent
      /\ unaborted' = unaborted /\ critical \subseteq Process /\ warned \subseteq Process
      /\ silent \subseteq Process /\ unaborted \subseteq Process
  BY RunsAreRows DEF GovernanceInv, GovernanceTypeOK, Begin, ghosts
<1>2. SoundRun(p, run[p], critical, silent, unaborted)
  BY DEF GovernanceInv
<1>3. CASE UNCHANGED critical /\ run' = [run EXCEPT ![p] =
               [NoRun EXCEPT !.step = "opening", !.worth = worth, !.hard = hard]]
  <2>1. PICK row : row = [NoRun EXCEPT !.step = "opening", !.worth = worth, !.hard = hard]
    OBVIOUS
  <2>2. row \in RunRow /\ row.step = "opening" /\ row.asked = {}
    BY <2>1, NewRow
  <2>3. SoundRun(p, row, critical, silent, unaborted) /\ SoundByPolicy(p, row, warned)
    BY <2>2, <1>1, <1>2 DEF SoundRun, SoundByPolicy
  <2> QED BY <2>1, <2>2, <2>3, <1>1, <1>3, OneRunSteps
<1>4. CASE run' = [run EXCEPT ![p].step = "stopped"] /\ critical' = critical \cup {p}
  <2>1. PICK row : row = [run[p] EXCEPT !.step = "stopped"]
    OBVIOUS
  <2>2. row \in RunRow /\ row.step = "stopped" /\ row.asked = {}
    BY <2>1, <1>1 DEF RunRow
  <2>3. SoundRun(p, row, critical', silent, unaborted) /\ SoundByPolicy(p, row, warned)
    BY <2>2 DEF SoundRun, SoundByPolicy
  <2>4. run' = [run EXCEPT ![p] = row]
    BY <2>1, <1>1, <1>4
  <2> QED BY <2>2, <2>3, <2>4, <1>1, <1>4, OneRunSteps
<1> QED BY <1>3, <1>4 DEF Begin

\* A run goes to a step that asks nobody, lets nobody on and refuses nobody.
LEMMA GoingKeeps ==
    ASSUME GovernanceInv, NEW p \in Process,
           NEW to \in {"open", "stopped", "cut", "verified", "rejecting", "rejected"},
           Goes(p, to), run[p].step # "panel",
           UNCHANGED <<panel, starts, warned, silent>>,
           critical' \subseteq critical \cup {p}, unaborted \subseteq unaborted',
           unaborted' \subseteq unaborted \cup {p},
           p \notin unaborted' /\ to \in {"open", "cut", "verified"} => p \notin critical'
    PROVE  GovernanceInv'
<1>1. /\ run \in [Process -> RunRow] /\ run[p].asked = {}
      /\ critical \subseteq Process /\ warned \subseteq Process
      /\ silent \subseteq Process /\ unaborted \subseteq Process
  BY RunsAreRows DEF GovernanceInv, GovernanceTypeOK
<1>2. PICK row : row = [run[p] EXCEPT !.step = to]
  OBVIOUS
<1>3. row \in RunRow /\ row.step = to /\ row.asked = {}
  BY <1>1, <1>2 DEF RunRow
<1>4. SoundRun(p, row, critical', silent', unaborted') /\ SoundByPolicy(p, row, warned')
  BY <1>3 DEF SoundRun, SoundByPolicy
<1>5. run' = [run EXCEPT ![p] = row]
  BY <1>1, <1>2 DEF Goes
<1> QED BY <1>1, <1>3, <1>4, <1>5, OneRunSteps

LEMMA EarlyStepsKeep ==
    ASSUME GovernanceInv, NEW p \in Process,
           \/ \E approvers \in Committees : Committee(p, approvers)
           \/ OracleStops(p) \/ Verdict(p) \/ Abort(p)
    PROVE  GovernanceInv'
<1>1. SoundRun(p, run[p], critical, silent, unaborted)
  BY DEF GovernanceInv
<1>2. ASSUME NEW approvers \in Committees, Committee(p, approvers) PROVE GovernanceInv'
  <2>1. PICK to \in {"open", "stopped"} : to = IF L2Complete(approvers) THEN "open" ELSE "stopped"
    OBVIOUS
  <2>2. /\ Goes(p, to) /\ run[p].step = "opening" /\ critical' = critical /\ unaborted' = unaborted
        /\ UNCHANGED <<panel, starts, warned, silent>>
    BY <2>1, <1>2 DEF Committee, ghosts
  <2> QED BY <2>2, <1>1, GoingKeeps DEF SoundRun
<1>3. CASE OracleStops(p)
  <2>1. /\ Goes(p, "cut") /\ run[p].step = "open" /\ critical' = critical /\ unaborted' = unaborted
        /\ UNCHANGED <<panel, starts, warned, silent>>
    BY <1>3 DEF OracleStops, ghosts
  <2> QED BY <2>1, <1>1, GoingKeeps DEF SoundRun
<1>4. CASE Verdict(p)
  <2>1. /\ run[p].step = "open" /\ unaborted' = unaborted
        /\ UNCHANGED <<panel, starts, warned, silent>>
    BY <1>4 DEF Verdict, ghosts
  <2>2. CASE Goes(p, "verified") /\ UNCHANGED critical
    BY <2>1, <2>2, <1>1, GoingKeeps DEF SoundRun
  <2>3. CASE Goes(p, "rejecting") /\ critical' = critical \cup {p}
    BY <2>1, <2>3, GoingKeeps
  <2> QED BY <2>2, <2>3, <1>4 DEF Verdict
<1>5. CASE Abort(p)
  <2>1. /\ run[p].step = "rejecting" /\ critical' = critical
        /\ UNCHANGED <<panel, starts, warned, silent>>
    BY <1>5 DEF Abort
  <2>2. CASE Goes(p, "rejected") /\ UNCHANGED unaborted
    BY <2>1, <2>2, GoingKeeps
  <2>3. CASE Goes(p, "cut") /\ unaborted' = unaborted \cup {p}
    BY <2>1, <2>3, GoingKeeps
  <2> QED BY <2>2, <2>3, <1>5 DEF Abort
<1> QED BY <1>2, <1>3, <1>4, <1>5

\* What agents that answer at once may say.
LEMMA SaidAtOnce ==
    ASSUME NEW worth \in Worth, NEW seen, NEW a \in Agents
    PROVE  AgentSays(a, worth, seen).score \in Int /\ AgentSays(a, worth, seen).pass \in BOOLEAN
BY DEF AgentSays, Policy, Mock, Unasked, Opinion, Worth

LEMMA PolicySays ==
    ASSUME NEW worth \in Worth, NEW seen, AllPolicy
    PROVE  /\ (\E a \in Agents : ~AgentSays(a, worth, seen).pass)
                 <=> worth \in {"zero", "above"} \/ seen # {}
           /\ AgentSays("intake_integrity", worth, seen).score = 20
           /\ AgentSays("pot_consistency", worth, seen).score = 20
           /\ AgentSays("release_risk", worth, seen).score = 18
           /\ worth \notin {"zero", "above"} => AgentSays("economic_bounds", worth, seen).score \in {15, 20}
           /\ seen = {} => AgentSays("anomaly_watch", worth, seen).score = 20
<1>1. \A a \in Agents : AgentSays(a, worth, seen) = Policy(a, worth, seen)
  BY DEF AllPolicy, AgentSays
<1>2. /\ Policy("intake_integrity", worth, seen) = Opinion(20, TRUE)
      /\ Policy("pot_consistency", worth, seen) = Opinion(20, TRUE)
      /\ Policy("release_risk", worth, seen) = Opinion(18, TRUE)
      /\ Policy("anomaly_watch", worth, seen) =
            IF seen # {} THEN Opinion(4, FALSE) ELSE Opinion(20, TRUE)
      /\ Policy("economic_bounds", worth, seen) =
            IF worth = "zero" THEN Opinion(0, FALSE)
            ELSE IF worth = "above" THEN Opinion(2, FALSE)
            ELSE IF worth = "high" THEN Opinion(15, TRUE) ELSE Opinion(20, TRUE)
  BY DEF Policy, Worth
<1>3. /\ AgentSays("intake_integrity", worth, seen) = Opinion(20, TRUE)
      /\ AgentSays("pot_consistency", worth, seen) = Opinion(20, TRUE)
      /\ AgentSays("release_risk", worth, seen) = Opinion(18, TRUE)
  BY <1>1, <1>2, FiveAgents
<1>4. /\ seen # {} => AgentSays("anomaly_watch", worth, seen) = Opinion(4, FALSE)
      /\ seen = {} => AgentSays("anomaly_watch", worth, seen) = Opinion(20, TRUE)
  BY <1>1, <1>2, FiveAgents
<1>5. /\ worth \in {"zero", "above"} =>
            AgentSays("economic_bounds", worth, seen) \in {Opinion(0, FALSE), Opinion(2, FALSE)}
      /\ worth \notin {"zero", "above"} =>
            AgentSays("economic_bounds", worth, seen) \in {Opinion(15, TRUE), Opinion(20, TRUE)}
  BY <1>1, <1>2, FiveAgents
<1>6. /\ AgentSays("intake_integrity", worth, seen).pass /\ AgentSays("pot_consistency", worth, seen).pass
      /\ AgentSays("release_risk", worth, seen).pass
  BY <1>3 DEF Opinion
<1>7. (\E a \in Agents : ~AgentSays(a, worth, seen).pass) <=> worth \in {"zero", "above"} \/ seen # {}
  <2>1. ~AgentSays("anomaly_watch", worth, seen).pass <=> seen # {}
    BY <1>4 DEF Opinion
  <2>2. ~AgentSays("economic_bounds", worth, seen).pass <=> worth \in {"zero", "above"}
    BY <1>5 DEF Opinion
  <2> QED BY <1>6, <2>1, <2>2, FiveAgents
<1>8. /\ AgentSays("intake_integrity", worth, seen).score = 20
      /\ AgentSays("pot_consistency", worth, seen).score = 20
      /\ AgentSays("release_risk", worth, seen).score = 18
  BY <1>3 DEF Opinion
<1>9. worth \notin {"zero", "above"} => AgentSays("economic_bounds", worth, seen).score \in {15, 20}
  BY <1>5 DEF Opinion
<1>10. seen = {} => AgentSays("anomaly_watch", worth, seen).score = 20
  BY <1>4 DEF Opinion
<1> QED BY <1>7, <1>8, <1>9, <1>10

LEMMA PanelMeetsKeeps ==
    ASSUME GovernanceInv, NEW p \in Process, PanelMeets(p)
    PROVE  GovernanceInv'
<1>1. /\ run \in [Process -> RunRow] /\ run[p].step = "verified"
      /\ panel' = panel /\ starts' = starts /\ critical' = critical /\ unaborted' = unaborted
      /\ silent' = silent \ {p}
      /\ warned' = IF critical # {} THEN warned \cup {p} ELSE warned \ {p}
      /\ critical \subseteq Process /\ warned \subseteq Process
      /\ silent \subseteq Process /\ unaborted \subseteq Process
  BY RunsAreRows DEF GovernanceInv, GovernanceTypeOK, PanelMeets, Meets
<1>2. SoundRun(p, run[p], critical, silent, unaborted)
  BY DEF GovernanceInv
<1>3. PICK worth \in Worth : worth = run[p].worth
  BY <1>1 DEF RunRow
<1>4. PICK says : says = [a \in Agents |-> AgentSays(a, worth, critical)]
  OBVIOUS
<1>5. PICK score : score = PanelScore(says)
  OBVIOUS
<1>6. PICK failed \in BOOLEAN : failed <=> \E a \in Agents : ~says[a].pass
  OBVIOUS
<1>7. PICK row : row = [run[p] EXCEPT !.step = "panel", !.seen = critical, !.asked = Local,
                                      !.score = score, !.failed = failed]
  OBVIOUS
<1>8. score \in Int
  <2>1. \A a \in Agents : says[a].score \in Int
    BY <1>4, SaidAtOnce
  <2> QED BY <2>1, <1>5, FiveAgents DEF PanelScore
<1>9. /\ row \in RunRow /\ row.step = "panel" /\ row.seen = critical /\ row.asked = Local
      /\ row.score = score /\ (row.failed <=> failed) /\ row.worth = worth
  <2>1. PICK old : old = run[p]
    OBVIOUS
  <2>2. /\ old \in RunRow /\ old.worth = worth /\ Local \in SUBSET Agents
        /\ critical \in SUBSET Process /\ failed \in BOOLEAN
    BY <2>1, <1>1, <1>3, <1>6 DEF Local
  <2>3. row = [old EXCEPT !.step = "panel", !.seen = critical, !.asked = Local,
                          !.score = score, !.failed = failed]
    BY <2>1, <1>7
  <2>4. /\ old = RowOf(old.step, old.worth, old.hard, old.seen, old.asked, old.score, old.failed)
        /\ old.worth \in Worth /\ old.hard \in BOOLEAN
    BY <2>2, RowFields
  <2>5. row = RowOf("panel", old.worth, old.hard, critical, Local, score, failed)
    BY <2>3, <2>4 DEF RowOf
  <2> QED BY <2>2, <2>4, <2>5, <1>8, FieldsMakeRow
<1>10. run' = [run EXCEPT ![p] = row]
  <2>1. failed = \E a \in Agents : ~says[a].pass
    BY <1>6
  <2> QED BY <2>1, <1>1, <1>3, <1>4, <1>5, <1>7 DEF PanelMeets, Meets
<1>11. SoundRun(p, row, critical', silent', unaborted')
  BY <1>1, <1>2, <1>9 DEF SoundRun
<1>12. ASSUME AllPolicy PROVE SoundByPolicy(p, row, warned')
  <2>1. Local = Agents
    BY <1>12 DEF AllPolicy, Local
  <2>2. row.failed <=> Objected(row)
    BY <1>4, <1>6, <1>9, <1>12, PolicySays DEF Objected
  <2>3. p \in warned' <=> row.seen # {}
    BY <1>1, <1>9
  <2>4. ~Objected(row) => row.score >= 60
    <3>1. ~Objected(row) =>
            /\ says["intake_integrity"].score = 20 /\ says["pot_consistency"].score = 20
            /\ says["release_risk"].score = 18 /\ says["economic_bounds"].score \in {15, 20}
            /\ says["anomaly_watch"].score = 20
      BY <1>4, <1>9, <1>12, PolicySays, FiveAgents DEF Objected
    <3> QED BY <3>1, <1>5, <1>9 DEF PanelScore
  <2> QED BY <2>1, <2>2, <2>3, <2>4, <1>9 DEF SoundByPolicy
<1>13. row.step # "panel" => row.asked = {}
  BY <1>9
<1> QED BY <1>1, <1>9, <1>10, <1>11, <1>12, <1>13, OneRunSteps

LEMMA RemoteAnswersKeeps ==
    ASSUME GovernanceInv, NEW p \in Process, NEW agent \in Agents, RemoteAnswers(p, agent)
    PROVE  GovernanceInv'
<1>1. /\ run \in [Process -> RunRow] /\ run[p].step = "panel" /\ run[p].asked # Agents
      /\ panel' = panel /\ starts' = starts /\ critical' = critical /\ unaborted' = unaborted
      /\ warned' = warned
      /\ critical \subseteq Process /\ warned \subseteq Process
      /\ silent \subseteq Process /\ unaborted \subseteq Process
  BY RunsAreRows DEF GovernanceInv, GovernanceTypeOK, RemoteAnswers
<1>2. SoundRun(p, run[p], critical, silent, unaborted)
  BY DEF GovernanceInv
<1>3. ~AllPolicy
  BY <1>1 DEF GovernanceInv, SoundByPolicy
<1>4. PICK o : /\ o \in Replies(agent) \/ o = Remote(agent)
               /\ Hears(p, agent, o)
               /\ silent' = IF o.pass THEN silent ELSE silent \cup {p}
  <2>1. Remote(agent).pass = FALSE
    BY DEF Remote, Opinion
  <2> QED BY <2>1 DEF RemoteAnswers
<1>5. o.score \in Int /\ o.pass \in BOOLEAN
  <2>1. CASE o \in Replies(agent)
    <3>1. PICK s \in {0} \cup {IF panel[agent] = "model" THEN Within(0, n, 20) ELSE n : n \in Scores} :
              \E pass \in BOOLEAN : o = Opinion(s, pass)
      BY <2>1 DEF Replies
    <3>2. PICK pass \in BOOLEAN : o = Opinion(s, pass)
      BY <3>1
    <3>3. ASSUME NEW n \in Scores PROVE n \in Int /\ Within(0, n, 20) \in Int
      <4>1. n \in Int
        BY GovernanceAssumption
      <4>2. Within(0, n, 20) \in {0, n, 20}
        BY <4>1 DEF Within
      <4> QED BY <4>1, <4>2
    <3>4. s \in Int
      BY <3>1, <3>3
    <3> QED BY <3>2, <3>4 DEF Opinion
  <2>2. CASE o = Remote(agent)
    BY <2>2 DEF Remote, Opinion
  <2> QED BY <2>1, <2>2, <1>4
<1>6. PICK row : row = [run[p] EXCEPT !.asked = run[p].asked \cup {agent},
                                      !.score = run[p].score + o.score,
                                      !.failed = run[p].failed \/ ~o.pass]
  OBVIOUS
<1>7. /\ row \in RunRow /\ row.step = "panel" /\ row.hard = run[p].hard
      /\ row.seen = run[p].seen /\ (row.failed <=> run[p].failed \/ ~o.pass)
  <2>1. PICK old : old = run[p]
    OBVIOUS
  <2>2. /\ old = RowOf(old.step, old.worth, old.hard, old.seen, old.asked, old.score, old.failed)
        /\ old.worth \in Worth /\ old.hard \in BOOLEAN /\ old.seen \in SUBSET Process
        /\ old.asked \in SUBSET Agents /\ old.score \in Int /\ old.failed \in BOOLEAN
        /\ old.step = "panel"
    BY <2>1, <1>1, RowFields
  <2>3. PICK asked \in SUBSET Agents : asked = old.asked \cup {agent}
    BY <2>2
  <2>4. PICK score \in Int : score = old.score + o.score
    BY <2>2, <1>5
  <2>5. PICK failed \in BOOLEAN : failed <=> old.failed \/ ~o.pass
    OBVIOUS
  <2>6. failed = (old.failed \/ ~o.pass)
    BY <2>5
  <2>7. row = [old EXCEPT !.asked = asked, !.score = score, !.failed = failed]
    BY <2>1, <2>3, <2>4, <2>6, <1>6
  <2>8. row = RowOf("panel", old.worth, old.hard, old.seen, asked, score, failed)
    BY <2>2, <2>7 DEF RowOf
  <2>9. asked \in SUBSET Agents /\ score \in Int /\ failed \in BOOLEAN
    BY <2>3, <2>4, <2>5
  <2>10. /\ row \in RunRow /\ row.step = "panel" /\ row.hard = old.hard /\ row.seen = old.seen
         /\ row.failed = failed
    BY <2>2, <2>8, <2>9, FieldsMakeRow
  <2> QED BY <2>1, <2>5, <2>10
<1>8. run' = [run EXCEPT ![p] = row]
  BY <1>1, <1>4, <1>6 DEF Hears
<1>9. SoundRun(p, row, critical', silent', unaborted')
  BY <1>1, <1>2, <1>4, <1>5, <1>7 DEF SoundRun
<1> QED BY <1>1, <1>3, <1>4, <1>7, <1>8, <1>9, OneRunSteps

LEMMA PanelDecidesKeeps ==
    ASSUME GovernanceInv, NEW p \in Process, PanelDecides(p)
    PROVE  GovernanceInv'
<1>1. /\ run \in [Process -> RunRow] /\ run[p].step = "panel"
      /\ panel' = panel /\ starts' = starts /\ critical' = critical /\ unaborted' = unaborted
      /\ warned' = warned /\ silent' = silent
      /\ critical \subseteq Process /\ warned \subseteq Process
      /\ silent \subseteq Process /\ unaborted \subseteq Process
  BY RunsAreRows DEF GovernanceInv, GovernanceTypeOK, PanelDecides, ghosts
<1>2. SoundRun(p, run[p], critical, silent, unaborted)
  BY DEF GovernanceInv
<1>3. PICK to \in {"refused", "let"} :
          to = IF (run[p].failed \/ Weak(run[p].worth, run[p].score)) /\ run[p].hard
               THEN "refused" ELSE "let"
  OBVIOUS
<1>4. PICK row : row = [run[p] EXCEPT !.step = to, !.asked = {}, !.score = 0, !.failed = FALSE]
  OBVIOUS
<1>5. /\ row \in RunRow /\ row.step = to /\ row.asked = {} /\ row.seen = run[p].seen
      /\ row.worth = run[p].worth /\ row.hard = run[p].hard
  <2>1. PICK old : old = run[p]
    OBVIOUS
  <2>2. /\ old = RowOf(old.step, old.worth, old.hard, old.seen, old.asked, old.score, old.failed)
        /\ old.worth \in Worth /\ old.hard \in BOOLEAN /\ old.seen \in SUBSET Process
    BY <2>1, <1>1, RowFields
  <2>3. row = [old EXCEPT !.step = to, !.asked = {}, !.score = 0, !.failed = FALSE]
    BY <2>1, <1>4
  <2>4. row = RowOf(to, old.worth, old.hard, old.seen, {}, 0, FALSE)
    BY <2>2, <2>3 DEF RowOf
  <2>5. to \in {"refused", "let"}
    BY <1>3
  <2>6. row \in RunRow
    BY <2>2, <2>4, <2>5 DEF RunRow, RowOf
  <2>7. /\ row.step = to /\ row.asked = {} /\ row.seen = old.seen /\ row.worth = old.worth
        /\ row.hard = old.hard
    BY <2>4 DEF RowOf
  <2> QED BY <2>1, <2>6, <2>7
<1>6. run' = [run EXCEPT ![p] = row]
  BY <1>1, <1>3, <1>4 DEF PanelDecides
<1>7. to = "let" /\ run[p].hard => ~run[p].failed
  BY <1>3
<1>8. SoundRun(p, row, critical', silent', unaborted')
  BY <1>1, <1>2, <1>3, <1>5, <1>7 DEF SoundRun
<1>9. ASSUME AllPolicy PROVE SoundByPolicy(p, row, warned')
  <2>1. SoundByPolicy(p, run[p], warned)
    BY <1>9 DEF GovernanceInv
  <2>2. Objected(row) <=> Objected(run[p])
    BY <1>5 DEF Objected
  <2>3. to = "refused" => run[p].failed \/ Weak(run[p].worth, run[p].score)
    BY <1>3
  <2>4. Weak(run[p].worth, run[p].score) => ~(run[p].score >= 60)
    BY <1>1 DEF Weak, RunRow
  <2>5. to = "refused" => Objected(row)
    BY <2>1, <2>2, <2>3, <2>4, <1>1 DEF SoundByPolicy
  <2>6. to = "let" /\ row.hard => ~Objected(run[p]) /\ p \notin warned
    BY <2>1, <1>1, <1>5, <1>7 DEF SoundByPolicy, Objected
  <2>7. row.worth \in Worth
    BY <1>5 DEF RunRow
  <2> QED BY <2>5, <2>6, <2>7, <2>2, <1>1, <1>3, <1>5 DEF SoundByPolicy, Objected, Worth
<1> QED BY <1>1, <1>5, <1>6, <1>8, <1>9, OneRunSteps

LEMMA ContinueRunKeeps ==
    ASSUME GovernanceInv, NEW p \in Process, ContinueRun(p)
    PROVE  GovernanceInv'
<1>1. /\ run \in [Process -> RunRow] /\ run[p].step \in {"cut", "refused"}
      /\ panel' = panel /\ starts' = starts /\ critical' = critical /\ unaborted' = unaborted
      /\ warned' = warned /\ silent' = silent
      /\ critical \subseteq Process /\ warned \subseteq Process
      /\ silent \subseteq Process /\ unaborted \subseteq Process
  BY RunsAreRows DEF GovernanceInv, GovernanceTypeOK, ContinueRun, ghosts
<1>2. SoundRun(p, run[p], critical, silent, unaborted)
  BY DEF GovernanceInv
<1>3. PICK row : row = [NoRun EXCEPT !.step = "verified", !.worth = run[p].worth,
                                     !.hard = run[p].worth \in {"high", "above"}]
  OBVIOUS
<1>4. row \in RunRow /\ row.step = "verified" /\ row.asked = {}
  <2>1. PICK worth \in Worth : worth = run[p].worth
    BY <1>1 DEF RunRow
  <2>2. PICK hard \in BOOLEAN : hard <=> worth \in {"high", "above"}
    OBVIOUS
  <2>3. row = [NoRun EXCEPT !.step = "verified", !.worth = worth, !.hard = hard]
    <3>1. hard = (worth \in {"high", "above"})
      BY <2>2
    <3> QED BY <3>1, <2>1, <1>3
  <2>4. worth \in Worth /\ hard \in BOOLEAN
    BY <2>1, <2>2
  <2> QED BY <2>3, <2>4, NewRow
<1>5. SoundRun(p, row, critical', silent', unaborted') /\ SoundByPolicy(p, row, warned')
  BY <1>1, <1>2, <1>4 DEF SoundRun, SoundByPolicy
<1>6. run' = [run EXCEPT ![p] = row]
  BY <1>3 DEF ContinueRun
<1> QED BY <1>1, <1>4, <1>5, <1>6, OneRunSteps

LEMMA GovernanceRestartsKeeps ==
    ASSUME GovernanceInv, GovernanceRestarts
    PROVE  GovernanceInv'
<1>1. /\ run \in [Process -> RunRow] /\ panel' = panel /\ critical' = {}
      /\ warned' = warned /\ silent' = silent /\ unaborted' = unaborted
  BY RunsAreRows DEF GovernanceInv, GovernanceRestarts, ghosts
<1>2. starts' \in 0..MaxStarts
  <2>1. starts \in 0..MaxStarts /\ MaxStarts \in Nat /\ starts < MaxStarts /\ starts' = starts + 1
    BY GovernanceAssumption DEF GovernanceInv, GovernanceTypeOK, GovernanceRestarts
  <2> QED BY <2>1
<1>3. ASSUME NEW q \in Process
      PROVE  /\ run'[q] \in RunRow
             /\ run'[q].step # "panel" => run'[q].asked = {}
             /\ \/ run'[q].step \in {"cut", "stopped"}
                \/ run'[q] = run[q] /\ run[q].step # "panel"
  <2>1. run[q] \in RunRow /\ (run[q].step # "panel" => run[q].asked = {})
    BY <1>1 DEF GovernanceInv, GovernanceTypeOK
  <2>2. CASE run[q].step \in {"open", "verified", "panel", "rejecting"}
    <3>1. PICK row : row = [NoRun EXCEPT !.step = "cut", !.worth = run[q].worth]
      OBVIOUS
    <3>2. row \in RunRow /\ row.step = "cut" /\ row.asked = {}
      <4>1. PICK worth \in Worth : worth = run[q].worth
        BY <2>1 DEF RunRow
      <4>2. row = [NoRun EXCEPT !.step = "cut", !.worth = worth]
        BY <4>1, <3>1
      <4>3. worth \in Worth
        BY <4>1
      <4>4. row = RowOf("cut", worth, FALSE, {}, {}, 0, FALSE)
        BY <4>2 DEF NoRun, RowOf
      <4>5. row \in RunRow
        BY <4>3, <4>4 DEF RunRow, RowOf
      <4>6. row.step = "cut" /\ row.asked = {}
        BY <4>4 DEF RowOf
      <4> QED BY <4>5, <4>6
    <3>3. run'[q] = row
      BY <3>1, <2>2 DEF GovernanceRestarts
    <3> QED BY <3>2, <3>3
  <2>3. CASE run[q].step = "opening"
    <3>1. PICK row : row = [run[q] EXCEPT !.step = "stopped"]
      OBVIOUS
    <3>2. row \in RunRow /\ row.step = "stopped" /\ row.asked = {}
      BY <3>1, <2>1, <2>3 DEF RunRow
    <3>3. run'[q] = row
      BY <3>1, <2>3 DEF GovernanceRestarts
    <3> QED BY <3>2, <3>3
  <2>4. CASE run[q].step \notin {"open", "verified", "panel", "rejecting", "opening"}
    BY <2>1, <2>4 DEF GovernanceRestarts
  <2> QED BY <2>2, <2>3, <2>4
<1>4. run' \in [Process -> RunRow]
  <2>1. \E f : run' = [q \in Process |-> f[q]]
    BY DEF GovernanceRestarts
  <2> QED BY <2>1, <1>3
<1>5. GovernanceTypeOK'
  BY <1>1, <1>2, <1>3, <1>4 DEF GovernanceInv, GovernanceTypeOK, RunRow
<1>6. AllPolicy' <=> AllPolicy
  BY <1>1 DEF AllPolicy
<1>7. ASSUME NEW q \in Process
      PROVE  /\ SoundRun(q, run'[q], critical', silent', unaborted')
             /\ AllPolicy => SoundByPolicy(q, run'[q], warned')
  <2>1. CASE run'[q].step \in {"cut", "stopped"}
    BY <2>1, <1>1 DEF SoundRun, SoundByPolicy
  <2>2. CASE run'[q] = run[q] /\ run[q].step # "panel"
    <3>1. SoundRun(q, run[q], critical, silent, unaborted)
      BY DEF GovernanceInv
    <3>2. AllPolicy => SoundByPolicy(q, run[q], warned)
      BY DEF GovernanceInv
    <3> QED BY <3>1, <3>2, <2>2, <1>1 DEF SoundRun, SoundByPolicy
  <2> QED BY <2>1, <2>2, <1>3
<1> QED BY <1>5, <1>6, <1>7 DEF GovernanceInv

LEMMA GovernanceStep == GovernanceInv /\ [GovernanceNext]_govVars => GovernanceInv'
<1> SUFFICES ASSUME GovernanceInv, [GovernanceNext]_govVars PROVE GovernanceInv' OBVIOUS
<1>1. CASE UNCHANGED govVars
  BY <1>1 DEF govVars, ghosts, GovernanceInv, GovernanceTypeOK, AllPolicy, SoundRun, SoundByPolicy,
              Objected
<1> QED
  BY <1>1, BeginKeeps, EarlyStepsKeep, PanelMeetsKeeps, RemoteAnswersKeeps, PanelDecidesKeeps,
     ContinueRunKeeps, GovernanceRestartsKeeps DEF GovernanceNext

\* Whatever panel is configured, and however the steps of many processes, the answers of remote
\* agents and restarts of the Eye interleave: a binding panel lets nobody through whom an agent did
\* not approve, the default agents let through and refuse on the value and the events on record
\* alone, and a critical event of a process itself stops it before the panel.
THEOREM GovernanceSpecKeepsAdviceSound == GovernanceSpec => []AdviceIsSound
<1>1. GovernanceInv => AdviceIsSound
  <2> SUFFICES ASSUME GovernanceInv PROVE AdviceIsSound OBVIOUS
  <2>1. \A q \in Process : SoundRun(q, run[q], critical, silent, unaborted)
    BY DEF GovernanceInv
  <2>2. LetOnMerit /\ RefusedForCause
    BY DEF GovernanceInv, SoundByPolicy, LetOnMerit, RefusedForCause, Objected
  <2>3. LetByEverybody /\ OthersCountOnly
    BY <2>1 DEF SoundRun, LetByEverybody, OthersCountOnly
  <2> QED BY <2>2, <2>3 DEF GovernanceInv, AdviceIsSound
<1> QED BY <1>1, GovernanceStarts, GovernanceStep, PTL DEF GovernanceSpec
-----------------------------------------------------------------------------
Tallying == INSTANCE SequenceFolds WITH op <- CountAttestation

\* The search for a chain, level by level.
GoesByLevel(level, leaf, pool) ==
    /\ level[1] = [seen |-> {leaf}, now |-> {leaf}]
    /\ \A n \in 2..Depth :
          /\ level[n].now = (UNION {Issuers(c, pool) : c \in level[n - 1].now}) \ level[n - 1].seen
          /\ level[n].seen = level[n - 1].seen \cup level[n].now

LEMMA LevelsAre ==
    ASSUME NEW leaf, NEW mids, NEW anchors
    PROVE  GoesByLevel(Levels(leaf, mids, anchors), leaf, mids \cup anchors)
<1> DEFINE U == {leaf} \cup mids \cup anchors
           S == [seen : SUBSET U, now : SUBSET U]
           a == [seen |-> {leaf}, now |-> {leaf}]
           Next1(x) == (UNION {Issuers(c, mids \cup anchors) : c \in x.now}) \ x.seen
           G(x) == [seen |-> x.seen \cup Next1(x), now |-> Next1(x)]
           Body(f) == [n \in 1..Depth |-> IF n = 1 THEN a ELSE G(f[n - 1])]
           level == Levels(leaf, mids, anchors)
<1>0. PICK D : D = Depth - 1
  OBVIOUS
<1>1. Depth \in Nat \ {0} /\ D \in Nat /\ D + 1 = Depth
  BY ChainAssumption, <1>0
<1>2. a \in S
  OBVIOUS
<1>3. ASSUME NEW x \in S PROVE G(x) \in S
  <2>1. UNION {Issuers(c, mids \cup anchors) : c \in x.now} \subseteq U
    BY DEF Issuers
  <2>2. Next1(x) \subseteq U /\ x.seen \subseteq U
    BY <2>1
  <2> HIDE DEF Next1, U
  <2> QED BY <2>2
<1>4. PICK H : H = [p \in (1..D) \X S |-> G(p[2])]
  OBVIOUS
<1>5. PICK f \in [0..D -> S] : Tallying!Recurses(f, a, D, H)
  <2> HIDE DEF S, a, G
  <2>1. H \in [(1..D) \X S -> S]
    BY <1>3, <1>4
  <2> QED BY <1>1, <1>2, <2>1, Tallying!RecursionSolves
<1> HIDE DEF S, a
<1>6. PICK g : g = [n \in 1..Depth |-> f[n - 1]]
  OBVIOUS
<1>7. g = Body(g)
  <2>1. ASSUME NEW n \in 1..Depth PROVE g[n] = Body(g)[n]
    <3>1. CASE n = 1
      BY <1>1, <1>5, <1>6, <3>1 DEF Tallying!Recurses
    <3>2. CASE n # 1
      <4>1. n - 1 \in 1..D /\ n - 1 \in 1..Depth /\ (n - 1) - 1 \in 0..D
        BY <1>1, <3>2
      <4>2. g[n] = f[n - 1] /\ g[n - 1] = f[(n - 1) - 1] /\ f[(n - 1) - 1] \in S
        BY <1>6, <4>1
      <4>3. f[n - 1] = H[<<n - 1, f[(n - 1) - 1]>>]
        BY <1>5, <4>1 DEF Tallying!Recurses
      <4>4. H[<<n - 1, f[(n - 1) - 1]>>] = G(f[(n - 1) - 1])
        <5> HIDE DEF G
        <5> QED BY <1>4, <4>1, <4>2
      <4>5. g[n] = G(g[n - 1])
        BY <4>2, <4>3, <4>4
      <4> QED BY <3>2, <4>5
    <3> QED BY <3>1, <3>2
  <2> HIDE DEF G
  <2> QED BY <1>6, <2>1
<1>8. level = CHOOSE h : h = Body(h)
  BY DEF Levels, a
<1> HIDE DEF level, G
<1>9. level = Body(level)
  <2> HIDE DEF Body
  <2> QED BY <1>7, <1>8
<1>10. level[1] = [seen |-> {leaf}, now |-> {leaf}]
  BY <1>1, <1>9 DEF a
<1>11. ASSUME NEW n \in 2..Depth
       PROVE  level[n] = G(level[n - 1])
  BY <1>1, <1>9
<1>12. ASSUME NEW n \in 2..Depth
       PROVE /\ level[n].now = Next1(level[n - 1])
             /\ level[n].seen = level[n - 1].seen \cup level[n].now
  <2> HIDE DEF Next1
  <2>1. level[n] = G(level[n - 1])
    BY <1>11
  <2>2. PICK x : x = level[n - 1]
    OBVIOUS
  <2>3. G(x).now = Next1(x) /\ G(x).seen = x.seen \cup Next1(x)
    BY DEF G
  <2> QED BY <2>1, <2>2, <2>3
<1> QED BY <1>10, <1>12 DEF level, GoesByLevel, Next1

\* Which certificates can be where in a chain.
GoesByIssuer(nth, leaf, pool) ==
    /\ nth[1] = {leaf}
    /\ \A n \in 2..Depth :
          nth[n] = {c \in pool : \E d \in nth[n - 1] : <<d, c>> \in Signed}

LEMMA NthAre == ASSUME NEW leaf, NEW pool PROVE GoesByIssuer(CanBeNth(leaf, pool), leaf, pool)
<1> DEFINE U == {leaf} \cup pool
           S == SUBSET U
           a == {leaf}
           G(x) == {c \in pool : \E d \in x : <<d, c>> \in Signed}
           Body(f) == [n \in 1..Depth |-> IF n = 1 THEN a ELSE G(f[n - 1])]
           nth == CanBeNth(leaf, pool)
<1>0. PICK D : D = Depth - 1
  OBVIOUS
<1>1. Depth \in Nat \ {0} /\ D \in Nat /\ D + 1 = Depth
  BY ChainAssumption, <1>0
<1>2. a \in S
  OBVIOUS
<1>2a. \A x \in S : G(x) \in S
  OBVIOUS
<1>3. PICK H : H = [p \in (1..D) \X S |-> G(p[2])]
  OBVIOUS
<1>4. PICK f \in [0..D -> S] : Tallying!Recurses(f, a, D, H)
  <2> HIDE DEF S, a, G
  <2>1. H \in [(1..D) \X S -> S]
    <3>1. \A x \in S : G(x) \in S
      BY <1>2a
    <3> HIDE DEF S
    <3> QED BY <1>3, <3>1
  <2> QED BY <1>1, <1>2, <2>1, Tallying!RecursionSolves
<1> HIDE DEF S, a
<1>5. PICK g : g = [n \in 1..Depth |-> f[n - 1]]
  OBVIOUS
<1>6. g = Body(g)
  <2>1. ASSUME NEW n \in 1..Depth PROVE g[n] = Body(g)[n]
    <3>1. CASE n = 1
      BY <1>1, <1>4, <1>5, <3>1 DEF Tallying!Recurses
    <3>2. CASE n # 1
      <4>1. n - 1 \in 1..D /\ n - 1 \in 1..Depth /\ (n - 1) - 1 \in 0..D
        BY <1>1, <3>2
      <4>2. g[n] = f[n - 1] /\ g[n - 1] = f[(n - 1) - 1] /\ f[(n - 1) - 1] \in S
        BY <1>5, <4>1
      <4>3. f[n - 1] = H[<<n - 1, f[(n - 1) - 1]>>]
        BY <1>4, <4>1 DEF Tallying!Recurses
      <4>4. H[<<n - 1, f[(n - 1) - 1]>>] = G(f[(n - 1) - 1])
        <5> HIDE DEF G
        <5> QED BY <1>3, <4>1, <4>2
      <4>5. g[n] = G(g[n - 1])
        BY <4>2, <4>3, <4>4
      <4> QED BY <3>2, <4>5
    <3> QED BY <3>1, <3>2
  <2> HIDE DEF G
  <2> QED BY <1>5, <2>1
<1>7. nth = CHOOSE h : h = Body(h)
  BY DEF CanBeNth, a
<1> HIDE DEF nth, G
<1>8. nth = Body(nth)
  <2> HIDE DEF Body
  <2> QED BY <1>6, <1>7
<1>9. nth[1] = {leaf}
  BY <1>1, <1>8 DEF a
<1>10. ASSUME NEW n \in 2..Depth PROVE nth[n] = G(nth[n - 1])
  BY <1>1, <1>8
<1> QED BY <1>9, <1>10 DEF nth, G, GoesByIssuer

\* A level has what can be there and nowhere before: what was met before is met
\* again only by chains that go on as shorter ones do.
LEMMA LevelsFollowChains ==
    ASSUME NEW leaf, NEW mids, NEW anchors
    PROVE  LET level == Levels(leaf, mids, anchors)
               nth == CanBeNth(leaf, mids \cup anchors)
           IN  \A n \in 1..Depth :
                  /\ level[n].now = nth[n] \ UNION {nth[m] : m \in 1..(n - 1)}
                  /\ level[n].seen = UNION {nth[m] : m \in 1..n}
<1> DEFINE level == Levels(leaf, mids, anchors)
           nth == CanBeNth(leaf, mids \cup anchors)
           MetBy(n) == UNION {nth[m] : m \in 1..n}
           Holds(n) == level[n].now = nth[n] \ MetBy(n - 1) /\ level[n].seen = MetBy(n)
           T == {n \in 1..Depth : ~Holds(n)}
<1>0. GoesByLevel(level, leaf, mids \cup anchors) /\ GoesByIssuer(nth, leaf, mids \cup anchors)
  BY LevelsAre, NthAre
<1> HIDE DEF level, nth
<1>1. /\ level[1] = [seen |-> {leaf}, now |-> {leaf}]
      /\ \A n \in 2..Depth :
            /\ level[n].now = (UNION {Issuers(c, mids \cup anchors) : c \in level[n - 1].now})
                                 \ level[n - 1].seen
            /\ level[n].seen = level[n - 1].seen \cup level[n].now
  BY <1>0 DEF GoesByLevel
<1>2. /\ nth[1] = {leaf}
      /\ \A n \in 2..Depth :
            nth[n] = {c \in mids \cup anchors : \E d \in nth[n - 1] : <<d, c>> \in Signed}
  BY <1>0 DEF GoesByIssuer
<1>3. Depth \in Nat
  BY ChainAssumption
<1>4. Holds(1)
  <2>1. MetBy(1 - 1) = {} /\ MetBy(1) = nth[1]
    <3>1. 1..(1 - 1) = {} /\ 1..1 = {1}
      OBVIOUS
    <3> QED BY <3>1
  <2> QED BY <1>1, <1>2, <2>1
<1>5. ASSUME NEW n \in 2..Depth, Holds(n - 1) PROVE Holds(n)
  <2>1. /\ n - 1 \in 1..Depth /\ n \in 1..n /\ n \in Nat
        /\ \A m : m \in 1..n <=> m \in 1..(n - 1) \/ m = n
        /\ \A m : m \in 1..(n - 1) <=> m \in 1..((n - 1) - 1) \/ m = n - 1
        /\ \A m \in 1..((n - 1) - 1) : m + 1 \in 1..(n - 1) /\ m + 1 \in 2..Depth /\ (m + 1) - 1 = m
    BY <1>3
  <2>2. level[n - 1].now = nth[n - 1] \ MetBy((n - 1) - 1) /\ level[n - 1].seen = MetBy(n - 1)
    BY <1>5
  <2>3. level[n].now = nth[n] \ MetBy(n - 1)
    <3>1. ASSUME NEW c \in level[n].now PROVE c \in nth[n] \ MetBy(n - 1)
      <4>0. c \in (UNION {Issuers(d, mids \cup anchors) : d \in level[n - 1].now}) \ MetBy(n - 1)
        <5> HIDE DEF MetBy
        <5> QED BY <1>1, <2>2
      <4>1. PICK d \in level[n - 1].now : c \in Issuers(d, mids \cup anchors) /\ c \notin MetBy(n - 1)
        <5> HIDE DEF MetBy
        <5> QED BY <4>0
      <4>2. d \in nth[n - 1] /\ <<d, c>> \in Signed /\ c \in mids \cup anchors
        BY <2>2, <4>1 DEF Issuers
      <4> QED BY <1>2, <4>1, <4>2
    <3>2. ASSUME NEW c \in nth[n] \ MetBy(n - 1) PROVE c \in level[n].now
      <4>1. PICK d \in nth[n - 1] : <<d, c>> \in Signed /\ c \in mids \cup anchors
        BY <1>2
      <4>2. d \notin MetBy((n - 1) - 1)
        <5> SUFFICES ASSUME NEW m \in 1..((n - 1) - 1), d \in nth[m] PROVE FALSE
          OBVIOUS
        <5>1. c \in nth[m + 1]
          BY <1>2, <2>1, <4>1
        <5>2. m + 1 \in 1..(n - 1)
          BY <2>1
        <5> QED BY <5>1, <5>2
      <4>3. c \in Issuers(d, mids \cup anchors)
        BY <4>1 DEF Issuers
      <4>4. d \in level[n - 1].now
        BY <2>2, <4>1, <4>2
      <4> HIDE DEF MetBy
      <4> QED BY <1>1, <2>2, <4>3, <4>4
    <3> QED BY <3>1, <3>2
  <2>4. MetBy(n) = MetBy(n - 1) \cup nth[n]
    BY <2>1
  <2>5. level[n].seen = MetBy(n)
    <3> HIDE DEF MetBy
    <3> QED BY <1>1, <2>2, <2>3, <2>4
  <2> QED BY <2>3, <2>5
<1> HIDE DEF Holds
<1>6. ASSUME NEW n \in 1..Depth PROVE Holds(n)
  <2> SUFFICES ASSUME ~Holds(n) PROVE FALSE
    OBVIOUS
  <2>1. n \in T /\ T \in SUBSET Nat
    BY <1>3
  <2>2. PICK k \in T : \A m \in T : k <= m
    BY <2>1, Tallying!LeastNatural
  <2>3. k # 1 /\ k \in 1..Depth
    BY <1>4, <2>2
  <2>4. k \in 2..Depth /\ k - 1 \in 1..Depth /\ ~(k <= k - 1)
    BY <1>3, <2>3
  <2>5. Holds(k - 1)
    BY <2>2, <2>4
  <2> QED BY <1>5, <2>2, <2>4, <2>5
<1> QED BY <1>6 DEF Holds, level, nth

\* resolveTrustAnchor finds a shortest chain to an anchor if there is one within the
\* permitted length, whatever else it has met; a leaf that vouches for itself counts
\* only where there is none.
THEOREM ShortestChainIsFound ==
    ASSUME NEW leaf, NEW mids, NEW anchors, NEW allowSelf
    PROVE  LET lengths == AnchoredLengths(leaf, mids, anchors)
               depth == ChainDepth(leaf, mids, anchors, allowSelf)
           IN  /\ lengths # {} => depth \in lengths /\ \A n \in lengths : depth <= n
               /\ lengths = {} => depth = IF SelfSigned(leaf, allowSelf) THEN 1 ELSE Untrusted
<1> DEFINE level == Levels(leaf, mids, anchors)
           nth == CanBeNth(leaf, mids \cup anchors)
           lengths == AnchoredLengths(leaf, mids, anchors)
           anchored == {n \in 1..Depth : level[n].now \cap anchors # {}}
<1>1. lengths = {n \in 1..Depth : nth[n] \cap anchors # {}}
  BY DEF AnchoredLengths
<1>2. \A n \in 1..Depth : level[n].now = nth[n] \ UNION {nth[m] : m \in 1..(n - 1)}
  BY LevelsFollowChains
<1>3. ChainDepth(leaf, mids, anchors, allowSelf)
         = IF anchored # {} THEN CHOOSE n \in anchored : \A m \in anchored : n <= m
           ELSE IF SelfSigned(leaf, allowSelf) THEN 1 ELSE Untrusted
  BY DEF ChainDepth
<1> HIDE DEF level, nth, lengths
<1>4. Depth \in Nat
  BY ChainAssumption
<1>5. anchored \subseteq lengths
  BY <1>1, <1>2
<1>6. ASSUME NEW k \in lengths, \A n \in lengths : k <= n PROVE k \in anchored
  <2>1. PICK c : c \in nth[k] \cap anchors
    BY <1>1
  <2>2. ASSUME NEW m \in 1..(k - 1) PROVE c \notin nth[m]
    <3>1. m \in 1..Depth /\ ~(k <= m)
      BY <1>1, <1>4
    <3> QED BY <1>1, <1>6, <2>1, <3>1
  <2> QED BY <1>1, <1>2, <2>1, <2>2
<1>7. ASSUME lengths # {}
      PROVE  \E k \in lengths : \A n \in lengths : k <= n
  <2>1. lengths \in SUBSET Nat
    BY <1>1
  <2> QED BY <1>7, <2>1, Tallying!LeastNatural
<1>8. CASE lengths # {}
  <2>1. PICK k \in lengths : \A n \in lengths : k <= n
    BY <1>7, <1>8
  <2>2. k \in anchored /\ \A n \in anchored : k <= n
    BY <1>5, <1>6, <2>1
  <2> HIDE DEF anchored
  <2> DEFINE d == CHOOSE n \in anchored : \A m \in anchored : n <= m
  <2>3. d \in anchored /\ \A m \in anchored : d <= m
    BY <2>2
  <2>4. d \in lengths /\ d <= k
    BY <1>5, <2>2, <2>3
  <2>5. \A n \in lengths : n \in Nat
    BY <1>1
  <2>6. \A n \in lengths : d <= n
    <3> HIDE DEF d
    <3> QED BY <2>1, <2>4, <2>5
  <2>7. ChainDepth(leaf, mids, anchors, allowSelf) = d
    BY <1>3, <2>2
  <2> HIDE DEF d
  <2> QED BY <1>8, <2>4, <2>6, <2>7 DEF lengths
<1>9. CASE lengths = {}
  BY <1>3, <1>5, <1>9 DEF lengths
<1> QED BY <1>8, <1>9

\* Checks made in turn confirm exactly if every one of them holds.
LEMMA DecidedIf ==
    ASSUME NEW checks, NEW mode, Len(checks) \in Nat,
           \A i \in 1..Len(checks) : checks[i].code # "verified"
    PROVE  /\ Decided(checks, mode).is = "verified" <=> \A i \in 1..Len(checks) : checks[i].holds
           /\ Decided(checks, mode).is = "verified" => Decided(checks, mode).mode = mode
           /\ Decided(checks, mode).is # "verified" => Decided(checks, mode).mode = "none"
<1> DEFINE I == {i \in 1..Len(checks) : ~checks[i].holds}
           at == SelectInSeq(checks, LAMBDA c : ~c.holds)
<1>1. at = IF I # {} THEN Min(I) ELSE 0
  BY DEF SelectInSeq
<1>2. I = {} => at = 0
  BY <1>1
<1>3. I # {} => at \in I
  <2>1. ASSUME I # {} PROVE \E x \in I : \A y \in I : x <= y
    <3>1. I \in SUBSET Nat
      OBVIOUS
    <3> QED BY <2>1, <3>1, Tallying!LeastNatural
  <2> HIDE DEF I
  <2> QED BY <1>1, <2>1 DEF Min
<1>4. Decided(checks, mode) = IF at = 0 THEN [is |-> "verified", mode |-> mode]
                              ELSE [is |-> checks[at].code, mode |-> "none"]
  BY DEF Decided
<1>5. I \subseteq 1..Len(checks)
  OBVIOUS
<1> HIDE DEF at
<1>6. CASE I = {}
  BY <1>2, <1>4, <1>6
<1>7. CASE I # {}
  <2>1. at \in 1..Len(checks) /\ at # 0 /\ ~checks[at].holds
    BY <1>3, <1>7
  <2> QED BY <1>4, <2>1
<1> QED BY <1>6, <1>7

\* What a detached signature that is confirmed has passed.
LEMMA X509Passes ==
    ASSUME NEW ask, NEW config, VerifyX509(ask, config).is = "verified"
    PROVE  LET anchors == Anchors(config) IN
           /\ VerifyX509(ask, config).mode = "x509_detached"
           /\ ValidNow(ask.leaf) /\ anchors.ok
           /\ ChainDepth(ask.leaf, ask.chain \cap Cert, anchors.certs, config.allowSelf) # Untrusted
           /\ Verifies(ask.leaf, ask.package, ask.signature)
           /\ ~config.bind \/ Binds(ask.leaf, ask.institution)
<1> DEFINE anchors == Anchors(config)
           chain == ask.chain \cap Cert
           checks == <<
            Check(ask.leaf # Absent, "X509_CERT_INVALID"),
            Check(ask.signature.by # Absent, "X509_SIGNATURE_INVALID"),
            Check(ask.leaf # Broken, "X509_CERT_INVALID"),
            Check(ValidNow(ask.leaf), "X509_CERT_EXPIRED"),
            Check(Broken \notin ask.chain, "X509_CERT_INVALID"),
            Check(anchors.ok, "X509_TRUST_NOT_CONFIGURED"),
            Check(anchors.certs # {} \/ SelfSigned(ask.leaf, config.allowSelf),
                  "X509_TRUST_NOT_CONFIGURED"),
            Check(ChainDepth(ask.leaf, chain, anchors.certs, config.allowSelf) # Untrusted,
                  "X509_CHAIN_UNTRUSTED"),
            Check(Verifies(ask.leaf, ask.package, ask.signature), "X509_SIGNATURE_INVALID"),
            Check(~config.bind \/ Binds(ask.leaf, ask.institution), "X509_INSTITUTION_MISMATCH")
        >>
<1>1. VerifyX509(ask, config) = Decided(checks, "x509_detached")
  BY DEF VerifyX509
<1>2. Len(checks) = 10
  OBVIOUS
<1>5. \A i \in 1..10 : checks[i].code # "verified"
  <2> HIDE DEF anchors, chain
  <2>1. checks[1].code # "verified"
    BY DEF Check
  <2>2. checks[2].code # "verified"
    BY DEF Check
  <2>3. checks[3].code # "verified"
    BY DEF Check
  <2>4. checks[4].code # "verified"
    BY DEF Check
  <2>5. checks[5].code # "verified"
    BY DEF Check
  <2>6. checks[6].code # "verified"
    BY DEF Check
  <2>7. checks[7].code # "verified"
    BY DEF Check
  <2>8. checks[8].code # "verified"
    BY DEF Check
  <2>9. checks[9].code # "verified"
    BY DEF Check
  <2>10. checks[10].code # "verified"
    BY DEF Check
  <2> HIDE DEF checks
  <2>11. \A i \in 1..10 : i \in {1, 2, 3, 4, 5, 6, 7, 8, 9, 10}
    OBVIOUS
  <2> QED BY <2>1, <2>2, <2>3, <2>4, <2>5, <2>6, <2>7, <2>8, <2>9, <2>10, <2>11
<1>10. /\ checks[4].holds <=> ValidNow(ask.leaf)
       /\ checks[6].holds <=> anchors.ok
       /\ checks[8].holds <=> ChainDepth(ask.leaf, chain, anchors.certs, config.allowSelf) # Untrusted
       /\ checks[9].holds <=> Verifies(ask.leaf, ask.package, ask.signature)
       /\ checks[10].holds <=> (~config.bind \/ Binds(ask.leaf, ask.institution))
  <2> HIDE DEF anchors, chain
  <2> QED BY DEF Check
<1> HIDE DEF checks, anchors, chain
<1>6. Decided(checks, "x509_detached").is = "verified"
  BY <1>1
<1>7. /\ \A i \in 1..Len(checks) : checks[i].holds
      /\ Decided(checks, "x509_detached").mode = "x509_detached"
  <2>1. \A i \in 1..Len(checks) : checks[i].code # "verified"
    BY <1>2, <1>5
  <2>2. Len(checks) \in Nat
    BY <1>2
  <2> QED BY <1>6, <2>1, <2>2, DecidedIf
<1>8. checks[4].holds /\ checks[6].holds /\ checks[8].holds /\ checks[9].holds /\ checks[10].holds
  BY <1>2, <1>7
<1> QED BY <1>1, <1>7, <1>8, <1>10 DEF anchors, chain

\* What a signature that is confirmed has passed.
LEMMA SignaturePasses ==
    ASSUME NEW ask, NEW config, VerifySignature(ask, config).is = "verified"
    PROVE  /\ config.required => ModeOf(ask) = "x509_detached"
           /\ ModeOf(ask) = "x509_detached" =>
                 VerifySignature(ask, config) = VerifyX509(ask, config)
           /\ ModeOf(ask) # "x509_detached" =>
                 ask.attested /\ VerifySignature(ask, config).mode # "x509_detached"
<1> DEFINE three == <<
            Check(ask.package # Absent, "MISSING_DOCUMENTS"),
            Check(ask.claimed, "MISSING_QUALIFIED_SIGNATURE"),
            Check(~config.required \/ ModeOf(ask) = "x509_detached", "X509_REQUIRED")
        >>
           one == <<Check(ask.attested, "SIGNATURE_ATTESTATION_REQUIRED")>>
           first == Decided(three, ModeOf(ask))
           last == Decided(one, "institutional_attestation")
<1>1. VerifySignature(ask, config) =
         CASE first.is # "verified" -> first
           [] ModeOf(ask) = "x509_detached" /\ first.is = "verified" -> VerifyX509(ask, config)
           [] OTHER -> last
  BY DEF VerifySignature
<1>2. /\ Len(three) = 3 /\ Len(one) = 1
      /\ \A i \in 1..Len(three) : i \in {1, 2, 3}
      /\ \A i \in 1..Len(one) : i = 1
  OBVIOUS
<1>3. three[1].code # "verified" /\ three[2].code # "verified" /\ one[1].code # "verified"
  BY DEF Check
<1>4. three[3].code # "verified" /\ (three[3].holds <=> (~config.required \/ ModeOf(ask) = "x509_detached"))
  BY DEF Check
<1>5. one[1].holds <=> ask.attested
  BY DEF Check
<1> HIDE DEF three, one
<1>6. /\ \A i \in 1..Len(three) : three[i].code # "verified"
      /\ \A i \in 1..Len(one) : one[i].code # "verified"
      /\ Len(three) \in Nat /\ Len(one) \in Nat
      /\ 3 \in 1..Len(three) /\ 1 \in 1..Len(one)
  BY <1>2, <1>3, <1>4
<1>7. first.is = "verified" => three[3].holds
  BY <1>6, DecidedIf
<1>8. last.is = "verified" => one[1].holds /\ last.mode = "institutional_attestation"
  BY <1>6, DecidedIf
<1> HIDE DEF first, last
<1>9. first.is = "verified"
  BY <1>1
<1>10. CASE ModeOf(ask) = "x509_detached"
  BY <1>1, <1>9, <1>10
<1>11. CASE ModeOf(ask) # "x509_detached"
  <2>1. VerifySignature(ask, config) = last
    BY <1>1, <1>9, <1>11
  <2> QED BY <1>4, <1>5, <1>7, <1>8, <1>9, <1>11, <2>1
<1> QED BY <1>10, <1>11

\* What is confirmed rests on the leaf's own signature over the package and on a chain to
\* an anchor that is configured, or on the demo's where none is; on an attestation
\* only where X.509 is neither required nor asked for.
THEOREM ConfirmationsHaveGrounds ==
    ASSUME NEW ask, NEW config, VerifySignature(ask, config).is = "verified"
    PROVE  LET r == VerifySignature(ask, config)
               configured == Certificates(config.pems) \cup Certificates(config.dir)
           IN  /\ IF config.required \/ r.mode = "x509_detached" THEN Grounds(ask, config)
                  ELSE ask.attested
               /\ r.mode = "x509_detached" =>
                     /\ "broken" \notin {config.pems.kind, config.dir.kind}
                     /\ \/ AnchoredLengths(ask.leaf, ask.chain \cap Cert, configured) # {}
                        \/ configured = {} /\ config.demo
                        \/ config.allowSelf
<1> DEFINE r == VerifySignature(ask, config)
           configured == Certificates(config.pems) \cup Certificates(config.dir)
           anchors == Anchors(config)
           chain == ask.chain \cap Cert
           lengths == AnchoredLengths(ask.leaf, chain, anchors.certs)
<1>1. CASE ModeOf(ask) = "x509_detached"
  <2>1. VerifyX509(ask, config).is = "verified" /\ r = VerifyX509(ask, config)
    BY <1>1, SignaturePasses
  <2>2. /\ ValidNow(ask.leaf) /\ anchors.ok
        /\ ChainDepth(ask.leaf, chain, anchors.certs, config.allowSelf) # Untrusted
        /\ Verifies(ask.leaf, ask.package, ask.signature)
        /\ ~config.bind \/ Binds(ask.leaf, ask.institution)
        /\ r.mode = "x509_detached"
    BY <2>1, X509Passes
  <2>3. lengths # {} \/ SelfSigned(ask.leaf, config.allowSelf)
    BY <2>2, ShortestChainIsFound
  <2>4. Grounds(ask, config)
    BY <2>2, <2>3 DEF Grounds, ValidNow, Verifies, Binds, SelfSigned
  <2>5. /\ "broken" \notin {config.pems.kind, config.dir.kind}
        /\ anchors.certs = IF configured = {} /\ config.demo THEN DemoAnchors ELSE configured
    BY <2>2 DEF Anchors
  <2>6. config.allowSelf \/ lengths # {}
    BY <2>3 DEF SelfSigned
  <2>7. anchors.certs = configured \/ (configured = {} /\ config.demo)
    <3> HIDE DEF anchors, configured
    <3> QED BY <2>5
  <2>8. \/ AnchoredLengths(ask.leaf, chain, configured) # {}
        \/ configured = {} /\ config.demo
        \/ config.allowSelf
    <3> HIDE DEF anchors, configured, chain
    <3> QED BY <2>6, <2>7
  <2> QED BY <2>2, <2>4, <2>5, <2>8
<1>2. CASE ModeOf(ask) # "x509_detached"
  BY <1>2, SignaturePasses
<1> QED BY <1>1, <1>2

\* What the tally has counted: each oracle once that has given a good attestation.
Counts(of, s, tally) ==
    /\ tally.of = of /\ tally.valid \in Seq(Oracle)
    /\ \A i, j \in 1..Len(tally.valid) : tally.valid[i] = tally.valid[j] => i = j
    /\ \A o : (\E i \in 1..Len(tally.valid) : tally.valid[i] = o)
                 <=> \E i \in 1..Len(s) : s[i].by = o /\ Bad(s[i], of) = {}

NoTally(of) == [of |-> of, valid |-> <<>>, invalid |-> {}]

LEMMA CountAttestationCounts ==
    ASSUME NEW of, NEW s \in Seq(Attestation), NEW att \in Attestation, NEW tally,
           Counts(of, s, tally)
    PROVE  Counts(of, Append(s, att), CountAttestation(tally, att))
<1> DEFINE t == CountAttestation(tally, att)
           r == Append(s, att)
<1>1. /\ tally.of = of /\ tally.valid \in Seq(Oracle)
      /\ \A i, j \in 1..Len(tally.valid) : tally.valid[i] = tally.valid[j] => i = j
      /\ \A o : (\E i \in 1..Len(tally.valid) : tally.valid[i] = o)
                   <=> \E i \in 1..Len(s) : s[i].by = o /\ Bad(s[i], of) = {}
  BY DEF Counts
<1>2. /\ Len(s) \in Nat /\ Len(r) = Len(s) + 1 /\ r[Len(s) + 1] = att
      /\ \A i \in 1..Len(s) : r[i] = s[i]
      /\ Len(tally.valid) \in Nat /\ att.by \in Oracle
  BY <1>1 DEF Attestation
<1>3. \A o : (\E i \in 1..Len(r) : r[i].by = o /\ Bad(r[i], of) = {})
                <=> \/ \E i \in 1..Len(s) : s[i].by = o /\ Bad(s[i], of) = {}
                    \/ att.by = o /\ Bad(att, of) = {}
  <2> HIDE DEF r
  <2>1. \A i : i \in 1..Len(r) <=> i \in 1..Len(s) \/ i = Len(s) + 1
    BY <1>2
  <2> QED BY <1>2, <2>1
<1> HIDE DEF r
<1>4. CASE Bad(att, of) # {}
  <2>1. t.of = tally.of /\ t.valid = tally.valid
    BY <1>1, <1>4 DEF CountAttestation
  <2> HIDE DEF t
  <2>2. ASSUME NEW o
        PROVE  (\E i \in 1..Len(t.valid) : t.valid[i] = o)
                  <=> \E i \in 1..Len(r) : r[i].by = o /\ Bad(r[i], of) = {}
    <3>1. (\E i \in 1..Len(t.valid) : t.valid[i] = o) <=> \E i \in 1..Len(tally.valid) : tally.valid[i] = o
      BY <2>1
    <3>2. (\E i \in 1..Len(tally.valid) : tally.valid[i] = o)
              <=> \E i \in 1..Len(s) : s[i].by = o /\ Bad(s[i], of) = {}
      BY <1>1
    <3>3. (\E i \in 1..Len(r) : r[i].by = o /\ Bad(r[i], of) = {})
              <=> \/ \E i \in 1..Len(s) : s[i].by = o /\ Bad(s[i], of) = {}
                  \/ att.by = o /\ Bad(att, of) = {}
      BY <1>3
    <3> QED BY <3>1, <3>2, <3>3, <1>4
  <2>3. Counts(of, r, t)
    BY <1>1, <2>1, <2>2 DEF Counts
  <2> QED BY <2>3 DEF r, t
<1>5. CASE Bad(att, of) = {} /\ Contains(tally.valid, att.by)
  <2>1. t.of = tally.of /\ t.valid = tally.valid
    BY <1>1, <1>5 DEF CountAttestation
  <2>2. \E i \in 1..Len(tally.valid) : tally.valid[i] = att.by
    BY <1>5 DEF Contains
  <2> HIDE DEF t
  <2>3. ASSUME NEW o
        PROVE  (\E i \in 1..Len(t.valid) : t.valid[i] = o)
                  <=> \E i \in 1..Len(r) : r[i].by = o /\ Bad(r[i], of) = {}
    <3>1. (\E i \in 1..Len(t.valid) : t.valid[i] = o) <=> \E i \in 1..Len(tally.valid) : tally.valid[i] = o
      BY <2>1
    <3>2. (\E i \in 1..Len(tally.valid) : tally.valid[i] = o)
              <=> \E i \in 1..Len(s) : s[i].by = o /\ Bad(s[i], of) = {}
      BY <1>1
    <3>3. (\E i \in 1..Len(r) : r[i].by = o /\ Bad(r[i], of) = {})
              <=> \/ \E i \in 1..Len(s) : s[i].by = o /\ Bad(s[i], of) = {}
                  \/ att.by = o /\ Bad(att, of) = {}
      BY <1>3
    <3> QED BY <3>1, <3>2, <3>3, <2>2
  <2>4. Counts(of, r, t)
    BY <1>1, <2>1, <2>3 DEF Counts
  <2> QED BY <2>4 DEF r, t
<1>6. CASE Bad(att, of) = {} /\ ~Contains(tally.valid, att.by)
  <2>1. t.of = tally.of /\ t.valid = Append(tally.valid, att.by)
    BY <1>1, <1>6 DEF CountAttestation
  <2>2. \A i \in 1..Len(tally.valid) : tally.valid[i] # att.by
    BY <1>6 DEF Contains
  <2> DEFINE v == Append(tally.valid, att.by)
  <2>3. /\ v \in Seq(Oracle) /\ Len(v) = Len(tally.valid) + 1 /\ v[Len(tally.valid) + 1] = att.by
        /\ \A i \in 1..Len(tally.valid) : v[i] = tally.valid[i]
        /\ \A i : i \in 1..Len(v) <=> i \in 1..Len(tally.valid) \/ i = Len(tally.valid) + 1
    BY <1>1, <1>2
  <2> HIDE DEF v, t
  <2>4. \A i, j \in 1..Len(v) : v[i] = v[j] => i = j
    BY <1>1, <2>2, <2>3
  <2>5. \A o : (\E i \in 1..Len(v) : v[i] = o)
                  <=> (\E i \in 1..Len(tally.valid) : tally.valid[i] = o) \/ att.by = o
    BY <1>2, <2>3
  <2>6. t.valid = v /\ t.of = of
    BY <1>1, <2>1 DEF v
  <2>7. \A o : (\E i \in 1..Len(t.valid) : t.valid[i] = o)
                  <=> \E i \in 1..Len(r) : r[i].by = o /\ Bad(r[i], of) = {}
    BY <1>1, <1>3, <1>6, <2>5, <2>6
  <2>8. Counts(of, r, t)
    BY <2>3, <2>4, <2>6, <2>7 DEF Counts
  <2> QED BY <2>8 DEF r, t
<1> QED BY <1>4, <1>5, <1>6

LEMMA TallyCounts ==
    ASSUME NEW of, NEW list \in Seq(Attestation)
    PROVE  Counts(of, list, FoldLeft(CountAttestation, NoTally(of), list))
<1> DEFINE Q == {s \in Seq(Attestation) : Counts(of, s, Tallying!Fold(NoTally(of), s))}
<1>1. <<>> \in Q
  <2>1. Tallying!Fold(NoTally(of), <<>>) = NoTally(of)
    BY Tallying!FoldEmpty
  <2>2. Counts(of, <<>>, NoTally(of))
    BY DEF Counts, NoTally
  <2> QED BY <2>1, <2>2
<1>2. ASSUME NEW t \in Seq(Attestation), NEW x \in Attestation, t \in Q PROVE Append(t, x) \in Q
  <2>1. Tallying!Fold(NoTally(of), Append(t, x)) = CountAttestation(Tallying!Fold(NoTally(of), t), x)
    BY Tallying!FoldAppend
  <2>2. Counts(of, Append(t, x), CountAttestation(Tallying!Fold(NoTally(of), t), x))
    BY <1>2, CountAttestationCounts
  <2> QED BY <2>1, <2>2
<1> HIDE DEF Q
<1>3. Seq(Attestation) \subseteq Q
  BY <1>1, <1>2, Tallying!SequenceInduction
<1>4. Counts(of, list, Tallying!Fold(NoTally(of), list))
  BY <1>3 DEF Q
<1>5. FoldLeft(CountAttestation, NoTally(of), list) = Tallying!Fold(NoTally(of), list)
  BY DEF Tallying!Fold, FoldLeft, Tallying!FoldLeft, MapThenFoldSet,
         Tallying!MapThenFoldSet, Max, Tallying!Max
<1> QED BY <1>4, <1>5

\* A package passes exactly if enough different oracles vouch for the process it names,
\* whatever else is in it and however often (OracleGatewayService.verify).
THEOREM OraclesVouch ==
    ASSUME NEW pkg, pkg.list \in Seq(Attestation)
    PROVE  Verify(pkg).ok <=>
              pkg.of # Unnamed /\ Cardinality(Vouching(pkg.of, pkg.list)) >= MinOracles
<1> DEFINE tally == Tally(pkg)
           v == tally.valid
           V == Vouching(pkg.of, pkg.list)
<1>1. Counts(pkg.of, pkg.list, tally)
  BY TallyCounts DEF Tally, NoTally
<1> HIDE DEF tally, v
<1>2. /\ v \in Seq(Oracle) /\ Len(v) \in Nat
      /\ \A i, j \in 1..Len(v) : v[i] = v[j] => i = j
      /\ \A o : (\E i \in 1..Len(v) : v[i] = o)
                  <=> \E i \in 1..Len(pkg.list) : pkg.list[i].by = o /\ Bad(pkg.list[i], pkg.of) = {}
  <2>1. /\ v \in Seq(Oracle)
        /\ \A i, j \in 1..Len(v) : v[i] = v[j] => i = j
        /\ \A o : (\E i \in 1..Len(v) : v[i] = o)
                  <=> \E i \in 1..Len(pkg.list) : pkg.list[i].by = o /\ Bad(pkg.list[i], pkg.of) = {}
    BY <1>1 DEF Counts, v
  <2>2. Len(v) \in Nat
    <3>1. v \in Seq(Oracle)
      BY <2>1
    <3> QED BY <3>1
  <2> QED BY <2>1, <2>2, Zenon
<1>3. ASSUME NEW att \in Attestation
      PROVE  Bad(att, pkg.of) = {} <=>
                /\ att.of = pkg.of /\ att.good = TRUE
                /\ att.by \in IF Registered = {} THEN Oracle ELSE Registered
  BY DEF Bad, Attestation
<1>4. V = {v[i] : i \in 1..Len(v)}
  <2>1. ASSUME NEW o PROVE o \in V <=> \E i \in 1..Len(v) : v[i] = o
    <3> DEFINE may == IF Registered = {} THEN Oracle ELSE Registered
    <3>0. DOMAIN pkg.list = 1..Len(pkg.list)
      OBVIOUS
    <3>1. o \in V <=> /\ o \in may
                     /\ \E i \in 1..Len(pkg.list) : pkg.list[i] = [by |-> o, of |-> pkg.of, good |-> TRUE]
      BY <3>0 DEF Vouching
    <3> HIDE DEF V, may
    <3>2. ASSUME NEW i \in 1..Len(pkg.list)
          PROVE  pkg.list[i] = [by |-> o, of |-> pkg.of, good |-> TRUE] <=>
                    pkg.list[i].by = o /\ pkg.list[i].of = pkg.of /\ pkg.list[i].good = TRUE
      <4>1. pkg.list[i] \in Attestation
        OBVIOUS
      <4>2. PICK a : a = pkg.list[i]
        OBVIOUS
      <4>3. a = [by |-> a.by, of |-> a.of, good |-> a.good]
        BY <4>1, <4>2 DEF Attestation
      <4>4. a = [by |-> o, of |-> pkg.of, good |-> TRUE] <=> a.by = o /\ a.of = pkg.of /\ a.good = TRUE
        BY <4>3
      <4> QED BY <4>2, <4>4
    <3>3. ASSUME NEW i \in 1..Len(pkg.list)
          PROVE  pkg.list[i].by = o /\ Bad(pkg.list[i], pkg.of) = {}
                    <=> o \in may /\ pkg.list[i] = [by |-> o, of |-> pkg.of, good |-> TRUE]
      <4>1. pkg.list[i] \in Attestation
        OBVIOUS
      <4> QED BY <1>3, <3>2, <4>1 DEF may
    <3>4. (\E i \in 1..Len(pkg.list) : pkg.list[i].by = o /\ Bad(pkg.list[i], pkg.of) = {})
              <=> \E i \in 1..Len(pkg.list) : o \in may /\ pkg.list[i] = [by |-> o, of |-> pkg.of, good |-> TRUE]
      BY <3>3
    <3> QED BY <1>2, <3>1, <3>4
  <2> QED BY <2>1
<1>5. Cardinality(V) = Len(v)
  <2> DEFINE f == [i \in 1..Len(v) |-> v[i]]
  <2>1. f \in Bijection(1..Len(v), V)
    <3>1. f \in [1..Len(v) -> V]
      BY <1>4
    <3>2. IsInjective(f)
      BY <1>2 DEF IsInjective
    <3>3. \A t \in V : \E n \in 1..Len(v) : f[n] = t
      BY <1>4
    <3> QED BY <3>1, <3>2, <3>3 DEF Bijection, Injection, Surjection
  <2>2. ExistsBijection(1..Len(v), V)
    BY <2>1 DEF ExistsBijection
  <2> HIDE DEF V
  <2> QED BY <1>2, <2>2, FS_CountingElements
<1>6. pkg.list = <<>> => Len(v) = 0
  <2> SUFFICES ASSUME pkg.list = <<>>, Len(v) # 0 PROVE FALSE
    OBVIOUS
  <2>1. 1 \in 1..Len(v) /\ Len(pkg.list) = 0
    BY <1>2
  <2>2. PICK i \in 1..Len(pkg.list) : pkg.list[i].by = v[1]
    BY <1>2, <2>1
  <2> QED BY <2>1, <2>2
<1>7. Verify(pkg).ok <=> pkg.of # Unnamed /\ pkg.list # <<>> /\ Len(v) >= MinOracles
  BY DEF Verify, v, tally
<1> QED BY <1>2, <1>5, <1>6, <1>7, OracleAssumption

-----------------------------------------------------------------------------
\* What a behaviour is about never changes, nor what is asked.
QuestionFits ==
    /\ about = "oracle" => question \in OracleQuestions
    /\ about = "reading" => question \in ReadingQuestions
    /\ about = "access" => question \in AccessQuestions
    /\ about = "identity" => question \in Otherwise(GoodIdentity, IdentityValues)

LEMMA QuestionsFit == MCSpec => []QuestionFits
<1>1. MCInit => QuestionFits
  BY DEF MCInit, QuestionFits
<1>2. QuestionFits
      /\ [MCNext]_<<about, question, supplyVars, pagesVars, sessionVars, govVars, registryVars>>
      => QuestionFits'
  <2> SUFFICES ASSUME QuestionFits,
                      [MCNext]_<<about, question, supplyVars, pagesVars, sessionVars, govVars, registryVars>>
               PROVE  QuestionFits'
    OBVIOUS
  <2>1. about' = about /\ question' = question
    BY DEF MCNext
  <2> QED BY <2>1 DEF QuestionFits
<1> QED BY <1>1, <1>2, PTL DEF MCSpec

LEMMA BoundedIsSeq == ASSUME NEW S, NEW n, NEW s \in BoundedSeq(S, n) PROVE s \in Seq(S)
  BY DEF BoundedSeq, SeqOf

\* An answer about oracles names those that have vouched.
LEMMA OracleAnswers == QuestionFits => OracleQuorum /\ OracleVouchesForProcess
<1> SUFFICES ASSUME QuestionFits, about = "oracle" PROVE OracleQuorum /\ OracleVouchesForProcess
  BY DEF OracleQuorum, OracleVouchesForProcess
<1>1. /\ question = [of |-> question.of, list |-> question.list]
      /\ question.of \in Subject \cup {Unnamed} /\ question.list \in Seq(Attestation)
  <2>1. question \in OracleQuestions
    BY DEF QuestionFits
  <2> QED BY <2>1, BoundedIsSeq DEF OracleQuestions
<1>2. OracleQuorum
  <2>1. Verify(question).ok <=> question.of # Unnamed
                                 /\ Cardinality(Vouching(question.of, question.list)) >= MinOracles
    BY <1>1, OraclesVouch
  <2>2. Verify(question).ok \in BOOLEAN
    BY DEF Verify
  <2> QED BY <2>1, <2>2 DEF OracleQuorum
<1>3. ASSUME NEW p \in Subject,
             ReleaseTakes(p, question)
                \/ (question.of \in {p, Unnamed} /\ PrimaryTakes(p, FALSE, TRUE, question))
      PROVE  Cardinality(Vouching(p, question.list)) >= MinOracles
  <2> DEFINE pkg == [of |-> p, list |-> question.list]
  <2>1. Verify(pkg).ok
    <3>1. CASE ReleaseTakes(p, question)
      <4>1. [question EXCEPT !.of = p] = pkg
        BY <1>1
      <4> QED BY <3>1, <4>1 DEF ReleaseTakes
    <3>2. CASE question.of \in {p, Unnamed} /\ PrimaryTakes(p, FALSE, TRUE, question)
      <4>1. [question EXCEPT !.of = IF @ = Unnamed THEN p ELSE @] = pkg
        BY <1>1, <3>2
      <4> QED BY <3>2, <4>1 DEF PrimaryTakes
    <3> QED BY <1>3, <3>1, <3>2
  <2>2. pkg.of = p /\ pkg.list = question.list
    OBVIOUS
  <2> HIDE DEF pkg
  <2> QED BY <1>1, <2>1, <2>2, OraclesVouch
<1> QED BY <1>2, <1>3 DEF OracleVouchesForProcess

\* A chain is found exactly if there is one, what is confirmed rests on a signature and on the
\* certificates that are configured, and oracles pass a package that enough of them signed about
\* that process: for any certificates, configuration, oracles and packages.
THEOREM PartsSpecEarnsTrust == MCSpec => []TrustIsEarned
<1>1. QuestionFits => TrustIsEarned
  <2> SUFFICES ASSUME QuestionFits PROVE TrustIsEarned
    OBVIOUS
  <2>1. TrustIsReachability /\ DepthIsShortest
    <3> DEFINE lengths == AnchoredLengths(question.leaf, question.mids, question.anchors)
    <3>1. /\ lengths # {} => AskedDepth \in lengths /\ \A n \in lengths : AskedDepth <= n
          /\ lengths = {} => AskedDepth = IF SelfSigned(question.leaf, question.allowSelf) THEN 1 ELSE Untrusted
      BY ShortestChainIsFound DEF AskedDepth
    <3>2. lengths \subseteq 1..Depth /\ Depth \in Nat
      BY ChainAssumption DEF AnchoredLengths
    <3> HIDE DEF lengths
    <3>3. PICK depth : depth = AskedDepth
      OBVIOUS
    <3>4. \A n \in lengths : n \in Nat /\ n >= 1
      BY <3>2
    <3>5. CASE lengths = {}
      <4>1. depth = IF SelfSigned(question.leaf, question.allowSelf) THEN 1 ELSE Untrusted
        BY <3>1, <3>3, <3>5
      <4>2. (depth # Untrusted) = SelfSigned(question.leaf, question.allowSelf)
        BY <4>1 DEF Untrusted, SelfSigned
      <4>3. TrustIsReachability
        BY <3>3, <3>5, <4>2 DEF TrustIsReachability, SelfSigned, lengths
      <4> QED BY <3>5, <4>3 DEF DepthIsShortest, lengths
    <3>6. CASE lengths # {}
      <4>1. depth \in lengths /\ \A n \in lengths : depth <= n
        BY <3>1, <3>3, <3>6
      <4>2. depth \in Nat /\ depth >= 1
        BY <3>4, <4>1
      <4>3. ASSUME NEW n \in lengths PROVE depth \in 1..n
        BY <3>4, <4>1, <4>2
      <4>4. TrustIsReachability
        <5>1. (depth # Untrusted) = TRUE
          BY <4>2 DEF Untrusted
        <5>2. (depth # Untrusted)
                 = (\/ lengths # {}
                    \/ question.allowSelf /\ <<question.leaf, question.leaf>> \in Signed)
          BY <3>6, <5>1
        <5> QED BY <3>3, <5>2 DEF TrustIsReachability, lengths
      <4> QED BY <3>3, <4>3, <4>4 DEF DepthIsShortest, lengths
    <3> QED BY <3>5, <3>6
  <2>2. ConfirmedIsSigned
    BY ConfirmationsHaveGrounds DEF ConfirmedIsSigned
  <2>3. TrustIsConfigured
    <3> DEFINE r == VerifySignature(question.request, question.config)
    <3>1. SUFFICES ASSUME r = [is |-> "verified", mode |-> "x509_detached"]
                   PROVE  LET config == question.config
                              configured == Certificates(config.pems) \cup Certificates(config.dir)
                          IN  /\ "broken" \notin {config.pems.kind, config.dir.kind}
                              /\ \/ AnchoredLengths(question.request.leaf, question.request.chain \cap Cert, configured) # {}
                                 \/ configured = {} /\ config.demo
                                 \/ config.allowSelf
      BY DEF TrustIsConfigured
    <3>2. r.is = "verified" /\ r.mode = "x509_detached"
      BY <3>1
    <3> HIDE DEF r
    <3> QED BY <3>2, ConfirmationsHaveGrounds DEF r
  <2> QED BY <2>1, <2>2, <2>3, OracleAnswers DEF TrustIsEarned
<1> QED BY <1>1, QuestionsFit, PTL

-----------------------------------------------------------------------------
\* The row that counts for an institution is its last one.
LEMMA RowNamingIs ==
    ASSUME NEW entries, Len(entries) \in Nat, NEW id
    PROVE  LET at == RowNaming(entries, id) IN
           \/ at = 0 /\ \A i \in 1..Len(entries) : entries[i].institutionId # id
           \/ /\ at \in 1..Len(entries) /\ entries[at].institutionId = id
              /\ \A j \in (at + 1)..Len(entries) : entries[j].institutionId # id
<1> DEFINE I == {i \in 1..Len(entries) : entries[i].institutionId = id}
           at == RowNaming(entries, id)
<1>1. at = IF I # {} THEN Max(I) ELSE 0
  BY DEF RowNaming, SelectLastInSeq
<1>2. \A i : i \in I <=> i \in 1..Len(entries) /\ entries[i].institutionId = id
  OBVIOUS
<1> HIDE DEF at, I
<1>3. CASE I = {}
  BY <1>1, <1>2, <1>3 DEF at
<1>4. CASE I # {}
  <2>1. \E x \in I : \A y \in I : x >= y
    <3> DEFINE T == {Len(entries) - i : i \in I}
    <3>1. T \in SUBSET Nat /\ T # {}
      BY <1>2, <1>4
    <3>2. PICK n \in T : \A m \in T : n <= m
      BY <3>1, Tallying!LeastNatural
    <3>3. PICK x \in I : n = Len(entries) - x
      BY <3>2
    <3>4. ASSUME NEW y \in I PROVE x >= y
      <4>1. n <= Len(entries) - y
        BY <3>2
      <4> QED BY <1>2, <3>3, <4>1
    <3> QED BY <3>4
  <2>2. Max(I) \in I /\ \A y \in I : Max(I) >= y
    BY <2>1 DEF Max
  <2>3. at \in I /\ \A y \in I : at >= y
    BY <1>1, <1>4, <2>2
  <2>4. ASSUME NEW j \in (at + 1)..Len(entries) PROVE entries[j].institutionId # id
    BY <1>2, <2>3
  <2> QED BY <1>2, <2>3, <2>4 DEF at
<1> QED BY <1>3, <1>4

\* Who is let in by a token, and who by a password.
LEMMA LetInIf ==
    ASSUME NEW config, NEW id, NEW token
    PROVE  LET entries == Credentials(config)
               at == RowNaming(entries, id)
               r == Authenticate(config, id, token)
           IN  /\ r.ok \in BOOLEAN
               /\ r.ok <=> /\ id # NotSent /\ token # NotSent
                           /\ at # 0 /\ entries[at].token = token /\ entries[at].allowlisted
               /\ r.ok => r = [ok |-> TRUE, who |-> id, code |-> "OK"]
<1> DEFINE entries == Credentials(config)
           at == RowNaming(entries, id)
           r == Authenticate(config, id, token)
<1>1. r = CASE id = NotSent -> No("AUTH_INSTITUTION_REQUIRED")
            [] id # NotSent /\ token = NotSent -> No("AUTH_TOKEN_REQUIRED")
            [] id # NotSent /\ token # NotSent /\ at = 0 -> No("AUTH_UNKNOWN_INSTITUTION")
            [] OTHER ->
                  IF entries[at].token # token THEN No("AUTH_INVALID_TOKEN")
                  ELSE IF ~entries[at].allowlisted THEN No("AUTH_NOT_ALLOWLISTED")
                  ELSE [ok |-> TRUE, who |-> id, code |-> "OK"]
  BY DEF Authenticate
<1> HIDE DEF entries, at, r
<1>2. CASE id # NotSent /\ token # NotSent /\ at # 0 /\ entries[at].token = token /\ entries[at].allowlisted
  <2>1. r = [ok |-> TRUE, who |-> id, code |-> "OK"]
    BY <1>1, <1>2
  <2>2. r.ok = TRUE
    BY <2>1
  <2> QED BY <1>2, <2>1, <2>2 DEF entries, at, r
<1>3. CASE ~(id # NotSent /\ token # NotSent /\ at # 0 /\ entries[at].token = token /\ entries[at].allowlisted)
  <2>1. r.ok = FALSE
    BY <1>1, <1>3 DEF No
  <2> QED BY <1>3, <2>1 DEF entries, at, r
<1> QED BY <1>2, <1>3

LEMMA LoggedInIf ==
    ASSUME NEW config, NEW id, NEW token
    PROVE  LET entries == EdgeAccounts(config)
               at == RowNaming(entries, id)
               r == Login(config, id, token)
           IN  /\ r.ok \in BOOLEAN
               /\ r.ok <=> /\ ~config.certified /\ id # NotSent /\ token # NotSent /\ entries # <<>>
                           /\ at # 0 /\ entries[at].token = token /\ entries[at].allowlisted
               /\ r.ok => r = [ok |-> TRUE, who |-> id, code |-> "OK"]
<1> DEFINE entries == EdgeAccounts(config)
           at == RowNaming(entries, id)
           r == Login(config, id, token)
           may == /\ ~config.certified /\ id # NotSent /\ token # NotSent /\ entries # <<>>
                  /\ at # 0 /\ entries[at].token = token /\ entries[at].allowlisted
<1>1. r = CASE config.certified -> No("AUTH_PASSWORD_DISABLED")
            [] ~config.certified /\ (id = NotSent \/ token = NotSent) -> No("AUTH_REQUIRED")
            [] OTHER ->
                  IF entries = <<>> THEN No("AUTH_NOT_CONFIGURED")
                  ELSE IF at = 0 \/ entries[at].token # token THEN No("AUTH_INVALID")
                  ELSE IF ~entries[at].allowlisted THEN No("AUTH_NOT_ALLOWLISTED")
                  ELSE [ok |-> TRUE, who |-> id, code |-> "OK"]
  BY DEF Login
<1> HIDE DEF entries, at, r
<1>2. CASE may
  <2>1. r = [ok |-> TRUE, who |-> id, code |-> "OK"]
    BY <1>1, <1>2
  <2>2. r.ok = TRUE
    BY <2>1
  <2> QED BY <1>2, <2>1, <2>2 DEF entries, at, r
<1>3. CASE ~may
  <2>1. r.ok = FALSE
    BY <1>1, <1>3 DEF No
  <2> QED BY <1>3, <2>1 DEF entries, at, r
<1> QED BY <1>2, <1>3

\* The core and the edge read the same source; where nothing is configured, their own rows.
LEMMA SourcesAre ==
    ASSUME NEW config
    PROVE  LET core == Credentials(config)
               edge == EdgeAccounts(config)
           IN  \/ /\ config.json # <<>> \/ config.file # <<>>
                  /\ core = (IF config.json # <<>> THEN config.json ELSE config.file) /\ edge = core
               \/ /\ config.json = <<>> /\ config.file = <<>>
                  /\ core = BuiltIn /\ edge = IF config.demo THEN EdgeBuiltIn ELSE <<>>
  BY DEF Credentials, EdgeAccounts, Configured

\* Whom the core's demo knows the edge's knows by the same row.
LEMMA DemoRowsAgree ==
    ASSUME NEW id, RowNaming(BuiltIn, id) # 0
    PROVE  /\ RowNaming(EdgeBuiltIn, id) # 0
           /\ EdgeBuiltIn[RowNaming(EdgeBuiltIn, id)] = BuiltIn[RowNaming(BuiltIn, id)]
<1> DEFINE b == RowNaming(BuiltIn, id)
           e == RowNaming(EdgeBuiltIn, id)
<1>1. /\ Len(BuiltIn) \in Nat /\ DOMAIN BuiltIn = 1..Len(BuiltIn)
      /\ Len(EdgeBuiltIn) \in Nat /\ DOMAIN EdgeBuiltIn = 1..Len(EdgeBuiltIn)
  BY AccessAssumption
<1>2. b \in 1..Len(BuiltIn) /\ BuiltIn[b].institutionId = id
  BY <1>1, RowNamingIs
<1>3. \/ e = 0 /\ \A i \in 1..Len(EdgeBuiltIn) : EdgeBuiltIn[i].institutionId # id
      \/ e \in 1..Len(EdgeBuiltIn) /\ EdgeBuiltIn[e].institutionId = id
  BY <1>1, RowNamingIs
<1> HIDE DEF b, e
<1>4. PICK i \in 1..Len(EdgeBuiltIn) : EdgeBuiltIn[i] = BuiltIn[b]
  <2>1. BuiltIn[b] \in ToSet(BuiltIn)
    BY <1>1, <1>2 DEF ToSet
  <2>2. BuiltIn[b] \in ToSet(EdgeBuiltIn)
    BY <2>1, AccessAssumption
  <2> QED BY <1>1, <2>2 DEF ToSet
<1>5. e \in 1..Len(EdgeBuiltIn) /\ EdgeBuiltIn[e].institutionId = id
  BY <1>2, <1>3, <1>4
<1>6. e = i
  BY <1>1, <1>2, <1>4, <1>5, AccessAssumption
<1> QED BY <1>4, <1>5, <1>6 DEF b, e

\* Who asks is answered alike at every place that reads the configuration.
LEMMA AccessAnswers ==
    QuestionFits => /\ LetInIsConfigured /\ LoggedInIsLetIn /\ FailedIsRefused
                    /\ ReaderIsSubmitter /\ MirrorIsForOperators
<1> SUFFICES ASSUME QuestionFits, about = "access"
             PROVE  /\ LetInIsConfigured /\ LoggedInIsLetIn /\ FailedIsRefused
                    /\ ReaderIsSubmitter /\ MirrorIsForOperators
  BY DEF LetInIsConfigured, LoggedInIsLetIn, FailedIsRefused, ReaderIsSubmitter, MirrorIsForOperators
<1> DEFINE config == AccessConfig
           core == Credentials(config)
           edge == EdgeAccounts(config)
           headers == AccessHeaders
           id == question.id
           token == question.token
           r == Authenticate(config, id, token)
<1>1. /\ config.json = question.json /\ config.file = question.file
      /\ config.ops = question.configuredOps /\ config.demo = question.demo
      /\ headers.id = id /\ headers.token = token /\ headers.ops = question.ops
  BY DEF AccessConfig, AccessHeaders
<1>2. question.json \in Seq(Credential) /\ question.file \in Seq(Credential)
  <2>1. question \in AccessQuestions
    BY DEF QuestionFits
  <2>2. question.json \in BoundedSeq(Credential, MaxCredentials)
        /\ question.file \in BoundedSeq(Credential, 1)
    BY <2>1 DEF AccessQuestions
  <2> QED BY <2>2, BoundedIsSeq
<1>3. /\ core \in Seq(Credential)
      /\ core = IF question.json # <<>> THEN question.json
                ELSE IF question.file # <<>> THEN question.file ELSE BuiltIn
  BY <1>1, <1>2, SourcesAre, AccessAssumption
<1>4. /\ r.ok \in BOOLEAN
      /\ r.ok <=> /\ id # NotSent /\ token # NotSent /\ RowNaming(core, id) # 0
                  /\ core[RowNaming(core, id)].token = token
                  /\ core[RowNaming(core, id)].allowlisted
      /\ r.ok => r = [ok |-> TRUE, who |-> id, code |-> "OK"]
  BY LetInIf
<1>5. LetInIsConfigured
  <2> DEFINE at == RowNaming(core, id)
  <2>1. \/ at = 0
        \/ /\ at \in 1..Len(core) /\ core[at].institutionId = id
           /\ \A j \in (at + 1)..Len(core) : core[j].institutionId # id
    BY <1>3, RowNamingIs
  <2> HIDE DEF at, core, r, config
  <2>2. ASSUME r.ok
        PROVE  \E i \in DOMAIN core :
                  /\ core[i] = [institutionId |-> r.who, token |-> token, allowlisted |-> TRUE]
                  /\ \A j \in (i + 1)..Len(core) : core[j].institutionId # r.who
    <3>1. at \in 1..Len(core) /\ core[at].institutionId = id /\ r.who = id
          /\ core[at].token = token /\ core[at].allowlisted
      BY <1>4, <2>1, <2>2 DEF at
    <3>2. core[at] \in Credential /\ DOMAIN core = 1..Len(core)
      BY <1>3, <3>1
    <3>3. core[at] = [institutionId |-> r.who, token |-> token, allowlisted |-> TRUE]
      BY <3>1, <3>2 DEF Credential
    <3>4. \A j \in (at + 1)..Len(core) : core[j].institutionId # r.who
      <4>1. at # 0
        BY <3>1
      <4> QED BY <2>1, <3>1, <4>1
    <3> QED BY <3>1, <3>2, <3>3, <3>4
  <2>3. core = IF question.json # <<>> THEN question.json
               ELSE IF question.file # <<>> THEN question.file ELSE BuiltIn
    BY <1>3
  <2> QED BY <2>2, <2>3 DEF LetInIsConfigured, r, config
<1>6. LoggedInIsLetIn
  <2> DEFINE l == Login(config, id, token)
             at == RowNaming(edge, id)
  <2> SUFFICES ASSUME l.ok
               PROVE  \/ Authenticate(config, l.who, token) = l
                      \/ /\ question.json = <<>> /\ question.file = <<>> /\ question.demo
                         /\ RowNaming(BuiltIn, l.who) = 0
    BY DEF LoggedInIsLetIn
  <2> HIDE DEF config
  <2>1. /\ id # NotSent /\ token # NotSent /\ edge # <<>>
        /\ at # 0 /\ edge[at].token = token /\ edge[at].allowlisted
        /\ l = [ok |-> TRUE, who |-> id, code |-> "OK"] /\ l.who = id
    <3>1. /\ l.ok <=> /\ ~config.certified /\ id # NotSent /\ token # NotSent /\ edge # <<>>
                      /\ at # 0 /\ edge[at].token = token /\ edge[at].allowlisted
          /\ l.ok => l = [ok |-> TRUE, who |-> id, code |-> "OK"]
      BY LoggedInIf
    <3> HIDE DEF l, edge, at
    <3> QED BY <3>1
  <2>2. \/ core = edge
        \/ /\ question.json = <<>> /\ question.file = <<>> /\ core = BuiltIn
           /\ question.demo /\ edge = EdgeBuiltIn
    BY <1>1, <2>1, SourcesAre
  <2>3. RowNaming(BuiltIn, id) # 0 => /\ RowNaming(EdgeBuiltIn, id) # 0
                                      /\ EdgeBuiltIn[RowNaming(EdgeBuiltIn, id)]
                                            = BuiltIn[RowNaming(BuiltIn, id)]
    BY DemoRowsAgree
  <2> HIDE DEF core, edge, config, l
  <2>4. r.ok \/ (question.json = <<>> /\ question.file = <<>> /\ question.demo
                  /\ RowNaming(BuiltIn, id) = 0)
    BY <1>4, <2>1, <2>2, <2>3
  <2> QED BY <1>4, <2>1, <2>4
<1>7. FailedIsRefused /\ MirrorIsForOperators
  <2> DEFINE p == ReadPrincipal(config, headers)
  <2>1. p = IF config.ops # NotSent /\ headers.ops # NotSent
            THEN IF headers.ops = config.ops THEN Reads("ops", NotSent) ELSE Reads("refused", NotSent)
            ELSE IF headers.id # NotSent \/ headers.token # NotSent
            THEN IF r.ok THEN Reads("institution", r.who) ELSE Reads("refused", NotSent)
            ELSE Reads("anonymous", NotSent)
    BY <1>1 DEF ReadPrincipal
  <2> HIDE DEF p, r, core, config, headers
  <2>2. /\ p.kind = "anonymous" =>
              /\ id = NotSent /\ token = NotSent
              /\ question.ops = NotSent \/ question.configuredOps = NotSent
        /\ p.kind = "institution" => p.who = id /\ token # NotSent
        /\ p.kind = "ops" <=> question.configuredOps # NotSent /\ question.ops # NotSent
                              /\ question.ops = question.configuredOps
    BY <1>1, <1>4, <2>1 DEF Reads
  <2>3. FailedIsRefused
    BY <2>2 DEF FailedIsRefused, p, config, headers
  <2>4. MirrorIsForOperators
    <3>1. OpensMirror(config, headers)
             = (question.configuredOps = NotSent \/ p.kind = "ops")
      BY <1>1, <2>2 DEF OpensMirror
    <3> QED BY <3>1 DEF MirrorIsForOperators, p, config, headers
  <2> QED BY <2>3, <2>4
<1>8. ReaderIsSubmitter
  <2> SUFFICES ASSUME token # NotSent PROVE ReaderIsSubmitter
    BY DEF ReaderIsSubmitter
  <2> DEFINE bare == [headers EXCEPT !.ops = NotSent]
             p == ReadPrincipal(config, bare)
  <2>1. bare.id = id /\ bare.token = token /\ bare.ops = NotSent
    BY DEF AccessHeaders
  <2>2. p = IF r.ok THEN Reads("institution", r.who) ELSE Reads("refused", NotSent)
    BY <2>1 DEF ReadPrincipal
  <2>3. Submitter(config, headers) = r
    BY <1>1 DEF Submitter
  <2> HIDE DEF r, p
  <2>4. r.ok = (p.kind = "institution") /\ (r.ok => r.who = p.who)
    BY <1>4, <2>2 DEF Reads
  <2> QED BY <2>3, <2>4 DEF ReaderIsSubmitter, p
<1> QED BY <1>5, <1>6, <1>7, <1>8

\* What a question about the edge's logins may be.
AccountSources == [json : Seq(Credential), file : Seq(Credential), demo : BOOLEAN]

IsList(s) == Len(s) \in Nat /\ DOMAIN s = 1..Len(s)

FitsIdentity(x, v) ==
    /\ x = "accounts" => v \in AccountSources
    /\ x \in {"inline", "mapFile"} => IsList(v.rows)
    /\ x = "headers" => v \in Seq({NotSent} \cup SUBSET Fragment)
    /\ x = "jwt" => v = NotSent \/ IsList(v.claims)

LEMMA ShortLists ==
    ASSUME NEW S, NEW x \in S, NEW y \in S
    PROVE  <<>> \in Seq(S) /\ <<x>> \in Seq(S) /\ <<x, y>> \in Seq(S)
  OBVIOUS

LEMMA IdentityValuesFit == ASSUME NEW c \in IdentityValues PROVE FitsIdentity(c[1], c[2])
<1>1. \/ c[1] = "accounts" /\ c[2] \in AccountValues
      \/ c[1] \in {"certified", "trustProxy", "secret", "issuer", "audience"}
      \/ c[1] \in {"inline", "mapFile"} /\ c[2] \in MapValues
      \/ c[1] = "headers" /\ c[2] \in HeaderValues
      \/ c[1] = "jwt" /\ c[2] \in {NotSent} \cup TokenValues
  BY DEF IdentityValues
<1>2. CASE c[1] = "accounts" /\ c[2] \in AccountValues
  <2>1. \A id \in {"i1", "i2"}, allowed \in BOOLEAN : AccountRow(id, allowed) \in Credential
    BY PartsAssumption DEF AccountRow, Credential
  <2>2. /\ <<>> \in Seq(Credential) /\ <<AccountRow("i2", TRUE)>> \in Seq(Credential)
        /\ <<AccountRow("i1", TRUE), AccountRow("i1", FALSE)>> \in Seq(Credential)
        /\ <<AccountRow("i1", TRUE)>> \in Seq(Credential)
    BY <2>1, ShortLists
  <2>3. AccountValues \subseteq AccountSources
    BY <2>2 DEF AccountValues, AccountSources
  <2> QED BY <1>2, <2>3 DEF FitsIdentity
<1>3. CASE c[1] \in {"inline", "mapFile"} /\ c[2] \in MapValues
  <2>1. \A v \in MapValues : IsList(v.rows)
    BY DEF MapValues, MapSource, IsList
  <2> QED BY <1>3, <2>1 DEF FitsIdentity
<1>4. CASE c[1] = "headers" /\ c[2] \in HeaderValues
  <2>1. HeaderValues \subseteq Seq({NotSent} \cup SUBSET Fragment)
    BY PartsAssumption DEF HeaderValues
  <2> QED BY <1>4, <2>1 DEF FitsIdentity
<1>5. CASE c[1] = "jwt" /\ c[2] \in {NotSent} \cup TokenValues
  <2> DEFINE lists == {<<"i1">>, <<NotSent, "i2">>, <<Nameless, "i1">>, <<>>}
  <2>1. \A claims \in lists : IsList(claims)
    BY DEF IsList
  <2>2. \A f \in {"parts", "signed", "json", "past"} : [GoodToken EXCEPT ![f] = ~@].claims = <<"i1">>
    BY DEF GoodToken
  <2>3. \A iss, aud, claims :
           [GoodToken EXCEPT !.iss = iss, !.aud = aud, !.claims = claims].claims = claims
    BY DEF GoodToken
  <2>4. ASSUME NEW v \in TokenValues PROVE v.claims \in lists
    <3> DEFINE one(f) == [GoodToken EXCEPT ![f] = ~@]
               other(iss, aud, claims) == [GoodToken EXCEPT !.iss = iss, !.aud = aud, !.claims = claims]
    <3>1. v \in {one(f) : f \in {"parts", "signed", "json", "past"}}
             \cup {other(iss, aud, claims) : iss \in {"a", NotSent}, aud \in {{}, {"a", "b"}},
                                             claims \in lists}
      BY DEF TokenValues, lists
    <3>2. \A f \in {"parts", "signed", "json", "past"} : one(f).claims = <<"i1">>
      BY <2>2
    <3>3. \A iss, aud, claims : other(iss, aud, claims).claims = claims
      BY <2>3
    <3> HIDE DEF one, other
    <3>4. <<"i1">> \in lists
      BY DEF lists
    <3> QED BY <3>1, <3>2, <3>3, <3>4
  <2> HIDE DEF lists
  <2>5. c[2] = NotSent \/ IsList(c[2].claims)
    BY <1>5, <2>1, <2>4
  <2> QED BY <1>5, <2>5 DEF FitsIdentity
<1>6. CASE c[1] \in {"certified", "trustProxy", "secret", "issuer", "audience"}
  BY <1>6 DEF FitsIdentity
<1> QED BY <1>1, <1>2, <1>3, <1>4, <1>5, <1>6

\* So do the accounts, the map, the headers and the token of any question.
LEMMA IdentityQuestionFits ==
    ASSUME QuestionFits, about = "identity"
    PROVE  \A x \in {"accounts", "inline", "mapFile", "headers", "jwt"} : FitsIdentity(x, question[x])
<1>1. question \in {[x \in DOMAIN GoodIdentity |->
                        IF x = c[1] THEN c[2] ELSE IF x = d[1] THEN d[2] ELSE GoodIdentity[x]] :
                     c \in IdentityValues, d \in IdentityValues}
  BY DEF QuestionFits, Otherwise
<1>2. PICK c \in IdentityValues, d \in IdentityValues :
         question = [x \in DOMAIN GoodIdentity |->
                        IF x = c[1] THEN c[2] ELSE IF x = d[1] THEN d[2] ELSE GoodIdentity[x]]
  BY <1>1
<1>3. \A x \in {"accounts", "inline", "mapFile", "headers", "jwt"} :
         x \in DOMAIN GoodIdentity
  BY DEF GoodIdentity
<1>4. \A x \in {"accounts", "inline", "mapFile", "headers", "jwt"} : FitsIdentity(x, GoodIdentity[x])
  <2>1. GoodIdentity["accounts"] \in AccountSources
    <3>1. AccountRow("i1", TRUE) \in Credential
      BY PartsAssumption DEF AccountRow, Credential
    <3>2. <<AccountRow("i1", TRUE)>> \in Seq(Credential) /\ <<>> \in Seq(Credential)
      BY <3>1, ShortLists
    <3>3. GoodIdentity["accounts"]
             = [json |-> <<AccountRow("i1", TRUE)>>, file |-> <<>>, demo |-> FALSE]
      BY DEF GoodIdentity
    <3>4. ASSUME NEW json \in Seq(Credential), NEW file \in Seq(Credential)
          PROVE  [json |-> json, file |-> file, demo |-> FALSE] \in AccountSources
      BY DEF AccountSources
    <3> QED BY <3>2, <3>3, <3>4
  <2>2. IsList(GoodIdentity["inline"].rows) /\ IsList(GoodIdentity["mapFile"].rows)
    BY DEF GoodIdentity, MapSource, IsList
  <2>3. GoodIdentity["headers"] \in Seq({NotSent} \cup SUBSET Fragment)
    BY PartsAssumption DEF GoodIdentity
  <2>4. IsList(GoodIdentity["jwt"].claims)
    BY DEF GoodIdentity, GoodToken, IsList
  <2> QED BY <2>1, <2>2, <2>3, <2>4 DEF FitsIdentity
<1>5. FitsIdentity(c[1], c[2]) /\ FitsIdentity(d[1], d[2])
  BY IdentityValuesFit
<1>6. ASSUME NEW x \in {"accounts", "inline", "mapFile", "headers", "jwt"}
      PROVE  FitsIdentity(x, question[x])
  <2>1. question[x] = IF x = c[1] THEN c[2] ELSE IF x = d[1] THEN d[2] ELSE GoodIdentity[x]
    BY <1>2, <1>3
  <2> QED BY <1>4, <1>5, <2>1
<1> QED BY <1>6

\* The first row of the map that the subject fits, and the first claim there is.
LEMMA MappedIs ==
    ASSUME NEW subject, NEW map
    PROVE  LET at == Mapped(subject, map) IN
           \/ at = 0
           \/ /\ at \in 1..Len(map) /\ Usable(map[at]) /\ map[at].contains \in subject
              /\ \A j \in 1..(at - 1) : ~(Usable(map[j]) /\ map[j].contains \in subject)
<1> DEFINE at == Mapped(subject, map)
           I == {i \in 1..Len(map) : Usable(map[i]) /\ map[i].contains \in subject}
<1>1. at = IF I # {} THEN Min(I) ELSE 0
  BY DEF Mapped, SelectInSeq
<1>2. I \in SUBSET Nat /\ \A i : i \in I <=> /\ i \in 1..Len(map)
                                             /\ Usable(map[i]) /\ map[i].contains \in subject
  OBVIOUS
<1> HIDE DEF at, I
<1>3. CASE I = {}
  BY <1>1, <1>3 DEF at
<1>4. CASE I # {}
  <2>1. \E x \in I : \A y \in I : x <= y
    BY <1>2, <1>4, Tallying!LeastNatural
  <2>2. at \in I /\ \A y \in I : at <= y
    BY <1>1, <1>4, <2>1 DEF Min
  <2>3. ASSUME NEW j \in 1..(at - 1) PROVE ~(Usable(map[j]) /\ map[j].contains \in subject)
    <3>1. j \notin I
      BY <1>2, <2>2
    <3>2. j \in 1..Len(map)
      BY <1>2, <2>2
    <3> QED BY <1>2, <3>1, <3>2
  <2> QED BY <1>2, <2>2, <2>3 DEF at
<1> QED BY <1>3, <1>4

LEMMA ClaimIs ==
    ASSUME NEW claims, IsList(claims), InstitutionFromClaims(claims) # NotSent
    PROVE  InstitutionFromClaims(claims) \in ToSet(claims)
<1> DEFINE at == SelectInSeq(claims, LAMBDA c : c # NotSent)
           I == {i \in 1..Len(claims) : claims[i] # NotSent}
<1>1. at = IF I # {} THEN Min(I) ELSE 0
  BY DEF SelectInSeq
<1>2. I \in SUBSET Nat
  OBVIOUS
<1>3. InstitutionFromClaims(claims)
         = IF at = 0 THEN NotSent ELSE IF claims[at] = Nameless THEN NotSent ELSE claims[at]
  BY DEF InstitutionFromClaims
<1> HIDE DEF at
<1>4. I # {} /\ InstitutionFromClaims(claims) = claims[at]
  BY <1>1, <1>3
<1>5. at \in I
  <2> HIDE DEF I
  <2>1. \E x \in I : \A y \in I : x <= y
    BY <1>2, <1>4, Tallying!LeastNatural
  <2> QED BY <1>1, <1>4, <2>1 DEF Min
<1> QED BY <1>4, <1>5 DEF ToSet, IsList

LEMMA SubjectIs ==
    ASSUME NEW headers \in Seq({NotSent} \cup SUBSET Fragment), SubjectFrom(headers) # NotSent
    PROVE  SubjectFrom(headers) \subseteq Fragment
<1> DEFINE at == SelectInSeq(headers, LAMBDA h : h # NotSent)
           I == {i \in 1..Len(headers) : headers[i] # NotSent}
<1>1. at = IF I # {} THEN Min(I) ELSE 0
  BY DEF SelectInSeq
<1>2. I \in SUBSET Nat /\ \A i \in I : headers[i] \in SUBSET Fragment
  OBVIOUS
<1>3. SubjectFrom(headers) = IF at = 0 THEN NotSent ELSE headers[at]
  BY DEF SubjectFrom
<1> HIDE DEF at, I
<1>4. I # {} /\ SubjectFrom(headers) = headers[at]
  BY <1>1, <1>3
<1>5. at \in I
  <2>1. \E x \in I : \A y \in I : x <= y
    BY <1>2, <1>4, Tallying!LeastNatural
  <2> QED BY <1>1, <1>4, <2>1 DEF Min
<1> QED BY <1>2, <1>4, <1>5

\* With what a session is issued an institution can do what its account at the edge can.
LEMMA IssuedAnswers ==
    ASSUME NEW config, config.json \in Seq(Credential), config.file \in Seq(Credential),
           NEW open, open.json = config.json, open.file = config.file, open.demo = config.demo,
           ~open.certified,
           NEW id, id # NotSent, Issued(config, id).ok
    PROVE  LET r == Issued(config, id)
               account == RowNaming(EdgeAccounts(config), id)
               demoOnly == /\ config.demo /\ config.json = <<>> /\ config.file = <<>>
                           /\ RowNaming(BuiltIn, id) = 0
           IN  /\ r.who = id
               /\ Authenticate(config, id, r.token).ok = (account # 0 /\ ~demoOnly)
               /\ account # 0 => Login(open, id, r.token).ok
<1> DEFINE core == Credentials(config)
           edge == EdgeAccounts(config)
           r == Issued(config, id)
           at == RowNaming(edge, id)
           demoOnly == /\ config.demo /\ config.json = <<>> /\ config.file = <<>>
                       /\ RowNaming(BuiltIn, id) = 0
           ok == Authenticate(config, id, r.token).ok
<1>1. /\ BuiltIn \in Seq(Credential) /\ EdgeBuiltIn \in Seq(Credential)
      /\ <<>> \in Seq(Credential) /\ NotSent \notin Token /\ MadeUp \notin Token
  BY AccessAssumption, IdentityAssumption
<1>2. \/ (config.json # <<>> \/ config.file # <<>>) /\ core = edge
      \/ /\ config.json = <<>> /\ config.file = <<>>
         /\ core = BuiltIn /\ edge = IF config.demo THEN EdgeBuiltIn ELSE <<>>
  BY SourcesAre
<1>3. core \in Seq(Credential) /\ edge \in Seq(Credential)
  BY <1>1, SourcesAre
<1>4. /\ ok \in BOOLEAN
      /\ ok <=> /\ id # NotSent /\ r.token # NotSent /\ RowNaming(core, id) # 0
                /\ core[RowNaming(core, id)].token = r.token
                /\ core[RowNaming(core, id)].allowlisted
  BY LetInIf
<1>5. r = IF at = 0 THEN [ok |-> TRUE, who |-> id, code |-> "OK", token |-> MadeUp]
          ELSE IF ~edge[at].allowlisted THEN No("AUTH_NOT_ALLOWLISTED")
          ELSE [ok |-> TRUE, who |-> id, code |-> "OK", token |-> edge[at].token]
  BY DEF Issued
<1>6. r.ok
  OBVIOUS
<1>7. \A entries \in Seq(Credential) : RowNaming(entries, id) # 0 =>
         RowNaming(entries, id) \in 1..Len(entries) /\ entries[RowNaming(entries, id)].token \in Token
  <2> SUFFICES ASSUME NEW entries \in Seq(Credential), RowNaming(entries, id) # 0
               PROVE  RowNaming(entries, id) \in 1..Len(entries) /\ entries[RowNaming(entries, id)].token \in Token
    OBVIOUS
  <2>1. RowNaming(entries, id) \in 1..Len(entries)
    BY RowNamingIs
  <2>2. entries[RowNaming(entries, id)] \in Credential
    BY <2>1
  <2> QED BY <2>1, <2>2 DEF Credential
<1>8. EdgeAccounts(open) = edge
  BY DEF EdgeAccounts, Configured
<1>9. /\ Login(open, id, r.token).ok <=>
            /\ ~open.certified /\ id # NotSent /\ r.token # NotSent /\ edge # <<>>
            /\ at # 0 /\ edge[at].token = r.token /\ edge[at].allowlisted
  BY <1>8, LoggedInIf
<1> HIDE DEF core, edge, r, ok, at
<1>10. CASE at = 0
  <2>1. r.token = MadeUp /\ r.who = id
    BY <1>5, <1>10
  <2>2. ~ok
    <3>1. RowNaming(core, id) # 0 => core[RowNaming(core, id)].token # MadeUp
      BY <1>1, <1>3, <1>7
    <3> QED BY <1>4, <2>1, <3>1
  <2> QED BY <1>4, <1>10, <2>1, <2>2 DEF r, ok, at, edge
<1>11. CASE at # 0
  <2>1. edge[at].allowlisted /\ r.token = edge[at].token /\ r.who = id
    BY <1>5, <1>6, <1>11 DEF No
  <2>2. at \in 1..Len(edge) /\ r.token \in Token /\ r.token # NotSent /\ edge # <<>>
    <3>1. at \in 1..Len(edge) /\ edge[at].token \in Token
      BY <1>3, <1>7, <1>11 DEF at
    <3> QED BY <1>1, <2>1, <3>1
  <2>3. ok <=> ~demoOnly
    <3>1. CASE (config.json # <<>> \/ config.file # <<>>) /\ core = edge
      BY <1>4, <1>11, <2>1, <2>2, <3>1 DEF at
    <3>2. CASE /\ config.json = <<>> /\ config.file = <<>>
               /\ core = BuiltIn /\ edge = IF config.demo THEN EdgeBuiltIn ELSE <<>>
      <4>1. config.demo /\ edge = EdgeBuiltIn
        BY <2>2, <3>2
      <4>2. RowNaming(BuiltIn, id) # 0 =>
               /\ RowNaming(EdgeBuiltIn, id) # 0
               /\ EdgeBuiltIn[RowNaming(EdgeBuiltIn, id)] = BuiltIn[RowNaming(BuiltIn, id)]
        BY DemoRowsAgree
      <4> QED BY <1>4, <2>1, <2>2, <3>2, <4>1, <4>2 DEF at
    <3> QED BY <1>2, <3>1, <3>2
  <2>4. Login(open, id, r.token).ok
    BY <1>9, <1>11, <2>1, <2>2
  <2>5. ok = (at # 0 /\ ~demoOnly)
    BY <1>4, <1>11, <2>3
  <2> QED BY <2>1, <2>4, <2>5 DEF r, ok, at, edge
<1> QED BY <1>10, <1>11

\* How somebody is let in without a password.
LEMMA LetInByMap ==
    ASSUME NEW config, NEW headers, LoginMtls(config, headers).ok
    PROVE  LET subject == SubjectFrom(headers)
               map == LoadMtlsMap(config)
               at == Mapped(subject, map)
           IN  /\ subject # NotSent /\ at # 0
               /\ LoginMtls(config, headers) = Issued(config, map[at].institutionId)
<1> DEFINE subject == SubjectFrom(headers)
           map == LoadMtlsMap(config)
           at == Mapped(subject, map)
           none == \A i \in DOMAIN map : ~Usable(map[i])
           r == LoginMtls(config, headers)
<1>1. r = CASE ~config.trustProxy -> No("MTLS_PROXY_REQUIRED")
            [] config.trustProxy /\ subject = NotSent -> No("MTLS_CLIENT_MISSING")
            [] config.trustProxy /\ subject # NotSent /\ none -> No("MTLS_MAP_NOT_CONFIGURED")
            [] OTHER ->
                  IF at = 0 THEN No("MTLS_NOT_MAPPED") ELSE Issued(config, map[at].institutionId)
  BY DEF LoginMtls
<1>2. r.ok /\ \A code : ~No(code).ok
  BY DEF No
<1> HIDE DEF r, subject, map, at, none
<1> QED BY <1>1, <1>2 DEF r, subject, map, at

LEMMA LetInByToken ==
    ASSUME NEW config, NEW jwt, LoginOidc(config, jwt).ok
    PROVE  /\ jwt # NotSent /\ TokenDefect(config, jwt) = "none"
           /\ InstitutionFromClaims(jwt.claims) # NotSent
           /\ LoginOidc(config, jwt) = Issued(config, InstitutionFromClaims(jwt.claims))
<1> DEFINE defect == TokenDefect(config, jwt)
           id == InstitutionFromClaims(jwt.claims)
           r == LoginOidc(config, jwt)
<1>1. r = CASE ~config.secret -> No("OIDC_NOT_CONFIGURED")
            [] config.secret /\ jwt = NotSent -> No("OIDC_REQUIRED")
            [] OTHER ->
                  IF defect # "none" THEN No(defect)
                  ELSE IF id = NotSent THEN No("OIDC_NO_INSTITUTION")
                  ELSE Issued(config, id)
  BY DEF LoginOidc
<1>2. r.ok /\ \A code : ~No(code).ok
  BY DEF No
<1> HIDE DEF r, defect, id
<1> QED BY <1>1, <1>2 DEF r, defect, id

\* A login at the edge is worth what its account is, and names who was looked for.
LEMMA IdentityAnswers == QuestionFits => SessionIsOfAccount /\ LetInIsNamed
<1> SUFFICES ASSUME QuestionFits, about = "identity" PROVE SessionIsOfAccount /\ LetInIsNamed
  BY DEF SessionIsOfAccount, LetInIsNamed
<1> DEFINE config == IdentityConfig
           headers == question.headers
           jwt == question.jwt
           subject == SubjectFrom(headers)
           loaded == LoadMtlsMap(config)
           at == Mapped(subject, loaded)
           byMap == LoginMtls(config, headers)
           byToken == LoginOidc(config, jwt)
           claimed == InstitutionFromClaims(jwt.claims)
           open == [config EXCEPT !.certified = FALSE]
           demoOnly(id) == /\ config.demo /\ config.json = <<>> /\ config.file = <<>>
                           /\ RowNaming(BuiltIn, id) = 0
<1>1. /\ question.accounts \in AccountSources
      /\ IsList(question.inline.rows) /\ IsList(question.mapFile.rows)
      /\ headers \in Seq({NotSent} \cup SUBSET Fragment)
      /\ jwt = NotSent \/ IsList(jwt.claims)
  BY IdentityQuestionFits DEF FitsIdentity
<1>2. /\ config.json \in Seq(Credential) /\ config.file \in Seq(Credential)
      /\ config.inline = question.inline /\ config.mapFile = question.mapFile
      /\ open.json = config.json /\ open.file = config.file /\ open.demo = config.demo
      /\ ~open.certified
  BY <1>1 DEF IdentityConfig, AccountSources
<1>3. byMap.ok => /\ subject # NotSent /\ at # 0
                  /\ byMap = Issued(config, loaded[at].institutionId)
  BY LetInByMap
<1>4. byToken.ok => /\ jwt # NotSent /\ TokenDefect(config, jwt) = "none"
                    /\ claimed # NotSent /\ byToken = Issued(config, claimed)
  BY LetInByToken
<1>5. at = 0 \/ /\ at \in 1..Len(loaded) /\ Usable(loaded[at]) /\ loaded[at].contains \in subject
                /\ \A j \in 1..(at - 1) : ~(Usable(loaded[j]) /\ loaded[j].contains \in subject)
  BY MappedIs
<1> HIDE DEF config, headers, jwt, subject, loaded, at, byMap, byToken, claimed, open
<1>6. byMap.ok => loaded[at].institutionId # NotSent
  BY <1>3, <1>5 DEF Usable
<1>7. ASSUME NEW id, id # NotSent, Issued(config, id).ok
      PROVE  LET r == Issued(config, id)
                 account == RowNaming(EdgeAccounts(config), r.who)
             IN  /\ r.who = id
                 /\ Authenticate(config, r.who, r.token).ok = (account # 0 /\ ~demoOnly(r.who))
                 /\ account # 0 => Login(open, r.who, r.token).ok
  BY <1>2, <1>7, IssuedAnswers
<1>8. SessionIsOfAccount
  <2>1. ASSUME NEW r \in {byMap, byToken}, r.ok
        PROVE  LET account == RowNaming(EdgeAccounts(config), r.who) IN
               /\ Authenticate(config, r.who, r.token).ok = (account # 0 /\ ~demoOnly(r.who))
               /\ account # 0 => Login(open, r.who, r.token).ok
    <3>1. PICK id : id # NotSent /\ r = Issued(config, id)
      BY <1>3, <1>4, <1>6, <2>1
    <3> QED BY <1>7, <2>1, <3>1
  <2> QED BY <2>1 DEF SessionIsOfAccount, config, headers, jwt, byMap, byToken, open
<1>9. LetInIsNamed
  <2> DEFINE map == IF config.inline.kind = "list" THEN config.inline.rows ELSE config.mapFile.rows
             fits(i) == map[i].contains \in subject /\ map[i].institutionId # NotSent
  <2>1. ASSUME byMap.ok
        PROVE  \E i \in DOMAIN map : /\ fits(i) /\ map[i].institutionId = byMap.who
                                     /\ \A j \in 1..(i - 1) : ~fits(j)
    <3>1. loaded = map
      <4>1. loaded # <<>>
        BY <1>3, <1>5, <2>1
      <4> QED BY <4>1 DEF LoadMtlsMap, loaded
    <3>2. IsList(map)
      BY <1>1, <1>2
    <3>3. subject \subseteq Fragment /\ NotSent \notin subject
      BY <1>1, <1>3, <2>1, SubjectIs, IdentityAssumption DEF subject
    <3>4. byMap.who = map[at].institutionId
      <4>1. loaded[at].institutionId # NotSent /\ byMap = Issued(config, loaded[at].institutionId)
        BY <1>3, <1>6, <2>1
      <4> QED BY <1>7, <2>1, <3>1, <4>1
    <3> HIDE DEF map
    <3>5. at \in DOMAIN map /\ fits(at) /\ \A j \in 1..(at - 1) : ~fits(j)
      BY <1>3, <1>5, <2>1, <3>1, <3>2, <3>3 DEF Usable, IsList
    <3> QED BY <3>4, <3>5
  <2>2. ASSUME byToken.ok
        PROVE  /\ jwt.signed /\ ~jwt.past /\ byToken.who \in ToSet(jwt.claims)
               /\ config.issuer = NotSent \/ jwt.iss = config.issuer
               /\ config.audience = NotSent \/ config.audience \in jwt.aud
    <3>1. /\ jwt.signed /\ ~jwt.past
          /\ config.issuer = NotSent \/ jwt.iss = config.issuer
          /\ config.audience = NotSent \/ config.audience \in jwt.aud
      <4>1. TokenDefect(config, jwt) = "none"
        BY <1>4, <2>2
      <4> QED BY <4>1 DEF TokenDefect
    <3>2. byToken.who = claimed
      BY <1>4, <1>7, <2>2
    <3>3. claimed \in ToSet(jwt.claims)
      BY <1>1, <1>4, <2>2, ClaimIs DEF claimed
    <3> QED BY <3>1, <3>2, <3>3
  <2> QED BY <2>1, <2>2 DEF LetInIsNamed, config, headers, jwt, subject, byMap, byToken
<1> QED BY <1>8, <1>9

-----------------------------------------------------------------------------
\* How a list is gone through, row by row (Kept).
GoesByRow(kept, entries, set) ==
    /\ kept[0] = <<>>
    /\ \A k \in 1..Len(entries) :
          kept[k] = IF entries[k] \in set THEN Append(kept[k - 1], entries[k]) ELSE kept[k - 1]

LEMMA KeptGoesByRow ==
    ASSUME NEW R, NEW entries \in Seq(R), NEW set
    PROVE  \E kept : GoesByRow(kept, entries, set) /\ Kept(entries, set) = kept[Len(entries)]
<1> DEFINE S == Seq(R)
           D == Len(entries)
           G(i, x) == IF entries[i] \in set THEN Append(x, entries[i]) ELSE x
           Body(f) == [i \in 0..D |-> IF i = 0 THEN <<>> ELSE G(i, f[i - 1])]
           kept == CHOOSE f : f = Body(f)
<1>1. D \in Nat /\ <<>> \in S
  OBVIOUS
<1>2. ASSUME NEW i \in 1..D, NEW x \in S PROVE G(i, x) \in S
  OBVIOUS
<1>3. PICK H : H = [p \in (1..D) \X S |-> G(p[1], p[2])]
  OBVIOUS
<1>4. PICK f \in [0..D -> S] : Tallying!Recurses(f, <<>>, D, H)
  <2>1. H \in [(1..D) \X S -> S]
    <3> HIDE DEF S, G, D
    <3> QED BY <1>2, <1>3
  <2>2. PICK a \in S : a = <<>>
    BY <1>1
  <2> HIDE DEF S, D
  <2>3. \E f \in [0..D -> S] : Tallying!Recurses(f, a, D, H)
    BY <1>1, <2>1, Tallying!RecursionSolves
  <2> QED BY <2>2, <2>3
<1>5. f = Body(f)
  <2> HIDE DEF S, G, D
  <2>1. ASSUME NEW i \in 0..D PROVE f[i] = Body(f)[i]
    <3>1. CASE i = 0
      BY <1>4, <3>1 DEF Tallying!Recurses
    <3>2. CASE i # 0
      <4>1. i \in 1..D /\ i - 1 \in 0..D
        BY <1>1, <3>2
      <4>2. f[i - 1] \in S
        BY <1>4, <4>1
      <4>3. H[<<i, f[i - 1]>>] = G(i, f[i - 1])
        BY <1>3, <4>1, <4>2
      <4> QED BY <1>4, <3>2, <4>1, <4>3 DEF Tallying!Recurses
    <3> QED BY <3>1, <3>2
  <2> QED BY <1>4, <2>1
<1>6. kept = Body(kept)
  <2> HIDE DEF Body
  <2> QED BY <1>5
<1>7. Kept(entries, set) = kept[D]
  BY DEF Kept
<1> HIDE DEF kept
<1>8. GoesByRow(kept, entries, set)
  <2>1. ASSUME NEW i \in 0..D PROVE kept[i] = IF i = 0 THEN <<>> ELSE G(i, kept[i - 1])
    <3> HIDE DEF G, D
    <3> QED BY <1>6
  <2>2. kept[0] = <<>>
    BY <1>1, <2>1
  <2>3. ASSUME NEW k \in 1..D PROVE kept[k] = G(k, kept[k - 1])
    BY <1>1, <2>1
  <2> QED BY <2>2, <2>3 DEF GoesByRow
<1> QED BY <1>7, <1>8

\* Two lists that begin alike are gone through alike.
LEMMA GoesAlike ==
    ASSUME NEW kept, NEW entries, NEW other, NEW longer, NEW set,
           GoesByRow(kept, entries, set), GoesByRow(other, longer, set),
           Len(entries) \in Nat, Len(longer) \in Nat, Len(entries) <= Len(longer),
           \A i \in 1..Len(entries) : longer[i] = entries[i]
    PROVE  \A k \in 0..Len(entries) : other[k] = kept[k]
<1> DEFINE T == {k \in 0..Len(entries) : other[k] # kept[k]}
<1>1. SUFFICES ASSUME T # {} PROVE FALSE
  OBVIOUS
<1>2. PICK k \in T : \A m \in T : k <= m
  <2>1. T \in SUBSET Nat
    OBVIOUS
  <2> QED BY <1>1, <2>1, Tallying!LeastNatural
<1>3. k # 0
  BY <1>2 DEF GoesByRow
<1>4. k \in 1..Len(entries) /\ k \in 1..Len(longer) /\ k - 1 \in 0..Len(entries) /\ k - 1 \notin T
  BY <1>2, <1>3
<1>5. other[k - 1] = kept[k - 1] /\ longer[k] = entries[k]
  BY <1>4
<1>6. other[k] = kept[k]
  BY <1>4, <1>5 DEF GoesByRow
<1> QED BY <1>2, <1>6

\* One row after the other is kept or not.
LEMMA KeptRounds ==
    ASSUME NEW S, NEW set
    PROVE  /\ Kept(<<>>, set) = <<>>
           /\ \A s \in Seq(S) : \A x \in S :
                Kept(Append(s, x), set) = IF x \in set THEN Append(Kept(s, set), x) ELSE Kept(s, set)
<1>1. Kept(<<>>, set) = <<>>
  <2>1. <<>> \in Seq(S) /\ Len(<<>>) = 0
    OBVIOUS
  <2>2. PICK kept : GoesByRow(kept, <<>>, set) /\ Kept(<<>>, set) = kept[Len(<<>>)]
    BY <2>1, KeptGoesByRow
  <2> QED BY <2>1, <2>2 DEF GoesByRow
<1>2. ASSUME NEW s \in Seq(S), NEW x \in S
      PROVE  Kept(Append(s, x), set) = IF x \in set THEN Append(Kept(s, set), x) ELSE Kept(s, set)
  <2>1. PICK r : r = Append(s, x)
    OBVIOUS
  <2>2. /\ r \in Seq(S) /\ Len(s) \in Nat /\ Len(r) = Len(s) + 1 /\ r[Len(s) + 1] = x
        /\ \A i \in 1..Len(s) : r[i] = s[i]
    BY <2>1
  <2>3. PICK kept : GoesByRow(kept, s, set) /\ Kept(s, set) = kept[Len(s)]
    BY KeptGoesByRow
  <2>4. PICK other : GoesByRow(other, r, set) /\ Kept(r, set) = other[Len(r)]
    BY <2>2, KeptGoesByRow
  <2>5. other[Len(s)] = kept[Len(s)]
    <3>1. \A k \in 0..Len(s) : other[k] = kept[k]
      BY <2>2, <2>3, <2>4, GoesAlike
    <3> QED BY <2>2, <3>1
  <2>6. other[Len(r)] = IF r[Len(r)] \in set THEN Append(other[Len(r) - 1], r[Len(r)])
                        ELSE other[Len(r) - 1]
    <3>1. Len(r) \in 1..Len(r)
      BY <2>2
    <3> QED BY <2>4, <3>1 DEF GoesByRow
  <2>7. Len(r) - 1 = Len(s)
    BY <2>2
  <2> QED BY <2>1, <2>2, <2>3, <2>4, <2>5, <2>6, <2>7
<1> QED BY <1>1, <1>2

\* What is kept are rows of the list and of the set, no more of them than the list has;
\* all of them, if the set has all.
LEMMA KeptRows ==
    ASSUME NEW S, NEW s \in Seq(S), NEW set
    PROVE  /\ Kept(s, set) \in Seq(S) /\ Len(Kept(s, set)) <= Len(s)
           /\ \A i \in 1..Len(Kept(s, set)) :
                 Kept(s, set)[i] \in set /\ \E j \in 1..Len(s) : s[j] = Kept(s, set)[i]
           /\ (\A j \in 1..Len(s) : s[j] \in set) => Kept(s, set) = s
<1> DEFINE Good(t) ==
             /\ Kept(t, set) \in Seq(S) /\ Len(Kept(t, set)) <= Len(t)
             /\ \A i \in 1..Len(Kept(t, set)) :
                   Kept(t, set)[i] \in set /\ \E j \in 1..Len(t) : t[j] = Kept(t, set)[i]
             /\ (\A j \in 1..Len(t) : t[j] \in set) => Kept(t, set) = t
           Q == {t \in Seq(S) : Good(t)}
<1>0. \A t \in Seq(S) : \A y \in S :
         Kept(Append(t, y), set) = IF y \in set THEN Append(Kept(t, set), y) ELSE Kept(t, set)
  BY KeptRounds
<1>1. <<>> \in Q
  <2>1. Kept(<<>>, set) = <<>>
    BY KeptRounds
  <2>2. PICK e : e = <<>>
    OBVIOUS
  <2>3. e \in Seq(S) /\ Len(e) = 0 /\ 1..Len(e) = {}
    BY <2>2
  <2>4. Kept(e, set) = e /\ Len(e) <= Len(e)
    BY <2>1, <2>2, <2>3
  <2>5. \A i \in 1..Len(e) : FALSE
    BY <2>3
  <2>6. Good(e)
    BY <2>3, <2>4, <2>5
  <2> QED BY <2>2, <2>3, <2>6
<1>2. ASSUME NEW t \in Seq(S), NEW x \in S, t \in Q PROVE Append(t, x) \in Q
  <2>1. PICK k : k = Kept(t, set)
    OBVIOUS
  <2>2. PICK r : r = Append(t, x)
    OBVIOUS
  <2>3. /\ k \in Seq(S) /\ Len(k) \in Nat /\ Len(k) <= Len(t)
        /\ \A i \in 1..Len(k) : k[i] \in set /\ \E j \in 1..Len(t) : t[j] = k[i]
        /\ (\A j \in 1..Len(t) : t[j] \in set) => k = t
    BY <1>2, <2>1
  <2>4. Kept(r, set) = IF x \in set THEN Append(k, x) ELSE k
    <3>1. Kept(Append(t, x), set) = IF x \in set THEN Append(Kept(t, set), x) ELSE Kept(t, set)
      BY <1>0
    <3> QED BY <2>1, <2>2, <3>1
  <2>5. /\ r \in Seq(S) /\ Len(t) \in Nat /\ Len(r) = Len(t) + 1 /\ r[Len(t) + 1] = x
        /\ \A j \in 1..Len(t) : r[j] = t[j] /\ j \in 1..Len(r)
        /\ Len(t) + 1 \in 1..Len(r)
    BY <2>2
  <2>6. CASE x \in set
    <3>1. PICK l : l = Append(k, x)
      OBVIOUS
    <3>2. /\ l \in Seq(S) /\ Len(l) = Len(k) + 1 /\ l[Len(k) + 1] = x
          /\ \A i \in 1..Len(k) : l[i] = k[i]
          /\ \A i : i \in 1..Len(l) <=> i \in 1..Len(k) \/ i = Len(k) + 1
      <4>1. /\ l \in Seq(S) /\ Len(l) = Len(k) + 1 /\ l[Len(k) + 1] = x
            /\ \A i \in 1..Len(k) : l[i] = k[i]
        BY <2>3, <3>1
      <4>2. \A i : i \in 1..(Len(k) + 1) <=> i \in 1..Len(k) \/ i = Len(k) + 1
        BY <2>3
      <4> QED BY <4>1, <4>2
    <3>3. ASSUME NEW i \in 1..Len(l) PROVE l[i] \in set /\ \E j \in 1..Len(r) : r[j] = l[i]
      BY <2>3, <2>5, <2>6, <3>2
    <3>4. Len(l) <= Len(r)
      BY <2>3, <2>5, <3>2
    <3>5. (\A j \in 1..Len(r) : r[j] \in set) => l = r
      BY <2>2, <2>3, <2>5, <3>1
    <3>6. Kept(r, set) = l
      BY <2>4, <2>6, <3>1
    <3>7. Good(r)
      BY <3>2, <3>3, <3>4, <3>5, <3>6
    <3> QED BY <2>2, <2>5, <3>7
  <2>7. CASE x \notin set
    <3>1. Kept(r, set) = k
      BY <2>4, <2>7
    <3>2. ASSUME NEW i \in 1..Len(k) PROVE k[i] \in set /\ \E j \in 1..Len(r) : r[j] = k[i]
      BY <2>3, <2>5
    <3>3. Len(k) <= Len(r)
      BY <2>3, <2>5
    <3>4. ~(\A j \in 1..Len(r) : r[j] \in set)
      BY <2>5, <2>7
    <3>5. Good(r)
      BY <2>3, <3>1, <3>2, <3>3, <3>4
    <3> QED BY <2>2, <2>5, <3>5
  <2> QED BY <2>6, <2>7
<1> HIDE DEF Q
<1>3. Seq(S) \subseteq Q
  BY <1>1, <1>2, Tallying!SequenceInduction
<1> QED BY <1>3 DEF Q

\* One list is how another one begins.
Begins(s, t) == Len(s) <= Len(t) /\ \A i \in 1..Len(s) : s[i] = t[i]

LEMMA BeginningIsPrefix ==
    ASSUME NEW S, NEW s \in Seq(S), NEW t \in Seq(S), Begins(s, t)
    PROVE  IsPrefix(s, t)
<1>1. Len(s) \in Nat /\ Len(t) \in Nat /\ Len(s) <= Len(t) /\ \A i \in 1..Len(s) : s[i] = t[i]
  BY DEF Begins
<1>2. PICK u : u = SubSeq(t, 1, Len(s))
  OBVIOUS
<1>3. u \in Seq(S) /\ Len(u) = Len(s) /\ \A i \in 1..Len(s) : u[i] = t[i]
  BY <1>1, <1>2
<1>4. SubSeq(s, 1, Len(s)) = s
  OBVIOUS
<1>5. u = s
  BY <1>1, <1>3
<1> QED BY <1>1, <1>2, <1>4, <1>5 DEF IsPrefix

\* What is kept of the beginning of a list, is kept of the list, and first.
LEMMA KeptBegins ==
    ASSUME NEW S, NEW s \in Seq(S), NEW k \in 0..Len(s), NEW set
    PROVE  Begins(Kept(SubSeq(s, 1, k), set), Kept(s, set))
<1> DEFINE Q == {t \in Seq(S) :
                   \A n \in 0..Len(t) : Begins(Kept(SubSeq(t, 1, n), set), Kept(t, set))}
<1>0. \A t \in Seq(S) : \A y \in S :
         Kept(Append(t, y), set) = IF y \in set THEN Append(Kept(t, set), y) ELSE Kept(t, set)
  BY KeptRounds
<1>1. <<>> \in Q
  <2>1. PICK e : e = <<>>
    OBVIOUS
  <2>2. e \in Seq(S) /\ 0..Len(e) = {0} /\ SubSeq(e, 1, 0) = e
    BY <2>1
  <2>3. Kept(e, set) \in Seq(S)
    BY <2>2, KeptRows
  <2>4. Begins(Kept(e, set), Kept(e, set))
    BY <2>3 DEF Begins
  <2> QED BY <2>1, <2>2, <2>4
<1>2. ASSUME NEW t \in Seq(S), NEW x \in S, t \in Q PROVE Append(t, x) \in Q
  <2>1. PICK r : r = Append(t, x)
    OBVIOUS
  <2>2. /\ r \in Seq(S) /\ Len(t) \in Nat /\ Len(r) = Len(t) + 1
        /\ SubSeq(r, 1, Len(r)) = r
        /\ \A n \in 0..Len(t) : SubSeq(r, 1, n) = SubSeq(t, 1, n)
    <3>1. r \in Seq(S) /\ Len(t) \in Nat /\ Len(r) = Len(t) + 1 /\ \A i \in 1..Len(t) : r[i] = t[i]
      BY <2>1
    <3>2. SubSeq(r, 1, Len(r)) = r
      BY <3>1
    <3>3. ASSUME NEW n \in 0..Len(t) PROVE SubSeq(r, 1, n) = SubSeq(t, 1, n)
      BY <3>1
    <3> QED BY <3>1, <3>2, <3>3
  <2>3. PICK a : a = Kept(t, set)
    OBVIOUS
  <2>4. PICK b : b = Kept(r, set)
    OBVIOUS
  <2>5. a \in Seq(S) /\ b \in Seq(S)
    BY <2>2, <2>3, <2>4, KeptRows
  <2>6. Begins(a, b)
    <3>1. b = IF x \in set THEN Append(a, x) ELSE a
      <4>1. Kept(Append(t, x), set) = IF x \in set THEN Append(Kept(t, set), x) ELSE Kept(t, set)
        BY <1>0
      <4> QED BY <2>1, <2>3, <2>4, <4>1
    <3>2. CASE x \in set
      BY <2>5, <3>1, <3>2 DEF Begins
    <3>3. CASE x \notin set
      BY <2>5, <3>1, <3>3 DEF Begins
    <3> QED BY <3>2, <3>3
  <2>7. ASSUME NEW n \in 0..Len(r) PROVE Begins(Kept(SubSeq(r, 1, n), set), b)
    <3>1. CASE n = Len(r)
      <4>1. Begins(b, b)
        BY <2>5 DEF Begins
      <4>2. Kept(SubSeq(r, 1, n), set) = b
        BY <2>2, <2>4, <3>1
      <4> QED BY <4>1, <4>2
    <3>2. CASE n # Len(r)
      <4>1. n \in 0..Len(t)
        BY <2>2, <3>2
      <4>2. SubSeq(t, 1, n) \in Seq(S)
        BY <4>1
      <4>3. PICK c : c = Kept(SubSeq(t, 1, n), set)
        OBVIOUS
      <4>4. c \in Seq(S)
        BY <4>2, <4>3, KeptRows
      <4>5. Begins(c, a)
        BY <1>2, <2>3, <4>1, <4>3
      <4>6. Begins(c, b)
        BY <2>5, <2>6, <4>4, <4>5 DEF Begins
      <4> QED BY <2>2, <4>1, <4>3, <4>6
    <3> QED BY <3>1, <3>2
  <2> QED BY <2>1, <2>2, <2>4, <2>7
<1>3. Seq(S) \subseteq Q
  <2> HIDE DEF Q
  <2> QED BY <1>1, <1>2, Tallying!SequenceInduction
<1> QED BY <1>3

\* The newest rows, the newest of them first, are how the reversed list begins.
LEMMA NewestFirst ==
    ASSUME NEW S, NEW s \in Seq(S), NEW n \in Nat
    PROVE  /\ Newest(s, n) \in Seq(S) /\ Len(Newest(s, n)) = Lesser(n, Len(s))
           /\ Reverse(s) \in Seq(S) /\ Len(Reverse(s)) = Len(s)
           /\ Lesser(n, Len(s)) \in 0..Len(s)
           /\ Reverse(Newest(s, n)) = SubSeq(Reverse(s), 1, Lesser(n, Len(s)))
<1> DEFINE l == Len(s)
           m == Lesser(n, l)
           from == Greater(1, l - n + 1)
           u == Newest(s, n)
           r == Reverse(s)
           w == Reverse(u)
           v == SubSeq(r, 1, m)
<1>1. l \in Nat /\ m \in 0..l /\ from \in 1..(l + 1) /\ from = l - m + 1
  <2>1. l \in Nat
    OBVIOUS
  <2> HIDE DEF l
  <2>2. CASE n < l
    BY <2>1, <2>2 DEF Lesser, Greater
  <2>3. CASE ~(n < l)
    BY <2>1, <2>3 DEF Lesser, Greater
  <2> QED BY <2>2, <2>3
<1>2. u \in Seq(S) /\ Len(u) = m /\ \A i \in 1..m : u[i] = s[i + from - 1]
  <2>1. u = SubSeq(s, from, l)
    BY DEF Newest
  <2> HIDE DEF u, from, m
  <2> QED BY <1>1, <2>1
<1>3. r \in Seq(S) /\ Len(r) = l /\ \A i \in 1..l : r[i] = s[l - i + 1]
  <2>1. r = [i \in 1..l |-> s[(l - i) + 1]]
    BY DEF Reverse
  <2>2. r \in [1..l -> S]
    BY <2>1
  <2> HIDE DEF r
  <2>3. r \in Seq(S)
    BY <2>2
  <2>4. DOMAIN r = 1..l
    BY <2>2
  <2> QED BY <2>1, <2>3, <2>4
<1>4. w \in Seq(S) /\ Len(w) = m /\ \A i \in 1..m : w[i] = u[m - i + 1]
  <2> HIDE DEF u, m
  <2>1. w = [i \in 1..m |-> u[(m - i) + 1]]
    BY <1>2 DEF Reverse
  <2>2. \A i \in 1..m : (m - i) + 1 \in 1..m
    BY <1>1
  <2>3. w \in [1..m -> S]
    BY <1>2, <2>1, <2>2
  <2> HIDE DEF w
  <2>4. w \in Seq(S) /\ DOMAIN w = 1..m
    BY <1>1, <2>3
  <2> QED BY <1>1, <2>1, <2>4
<1> HIDE DEF u, r, w, from, m
<1>5. v \in Seq(S) /\ Len(v) = m /\ \A i \in 1..m : v[i] = r[i]
  BY <1>1, <1>3
<1>6. ASSUME NEW i \in 1..m PROVE w[i] = v[i]
  <2>1. m - i + 1 \in 1..m /\ i \in 1..l
    BY <1>1
  <2>2. w[i] = s[(m - i + 1) + from - 1]
    BY <1>2, <1>4, <2>1
  <2>3. (m - i + 1) + from - 1 = l - i + 1
    BY <1>1
  <2> QED BY <1>3, <1>5, <2>1, <2>2, <2>3
<1> HIDE DEF v
<1>7. w = v
  BY <1>4, <1>5, <1>6
<1> QED BY <1>1, <1>2, <1>3, <1>7 DEF u, r, w, v, m

\* A list shows how the readable rows begin; the records of a process are its newest ones.
LEMMA ListAnswers ==
    ASSUME QuestionFits, about = "reading" PROVE ListIsNewestReadable
<1> DEFINE who == question.who
           journal == question.journal
           readers == {row \in Row : CanReadRecord(who, row)}
           scope == {row \in Row : IsSystem(row) \/ Owns(who, row)}
           whole == Reverse(journal)
           readable == Kept(whole, readers)
           limit == Lesser(PageCap, question.wanted)
           asked == Lesser(RecentCap, FetchLimit(who, limit))
           recent == Reverse(Newest(journal, asked))
           scoped == ScopedTo(who, recent)
           list == ListNodes(who, journal, question.wanted)
           l == Len(journal)
           m == Lesser(asked, l)
           bound == OverFetch * limit
<1>1. who \in Principal /\ journal \in Seq(Row) /\ question.wanted \in 1..(PageCap + 1)
  <2>1. question \in ReadingQuestions
    BY DEF QuestionFits
  <2> QED BY <2>1, BoundedIsSeq DEF ReadingQuestions
<1>2. /\ PageCap \in Nat /\ RecentCap \in Nat /\ FetchCap \in Nat /\ OverFetch \in Nat
      /\ RecentCap <= FetchCap
  BY ReadScopeAssumption
<1>3. limit \in Nat /\ limit <= PageCap
  BY <1>1, <1>2 DEF Lesser
<1> HIDE DEF who, journal, limit
<1>4. bound \in Nat /\ limit * OverFetch = bound
  BY <1>2, <1>3
<1> HIDE DEF bound
<1>5. /\ l \in Nat
      /\ asked = IF Restricted(who) THEN Lesser(RecentCap, Lesser(FetchCap, bound))
                 ELSE Lesser(RecentCap, limit)
  <2>1. FetchLimit(who, limit) = IF Restricted(who) THEN Lesser(FetchCap, bound) ELSE limit
    BY <1>4 DEF FetchLimit
  <2> QED BY <1>1, <2>1
<1> HIDE DEF asked
<1>6. asked \in Nat
  BY <1>2, <1>3, <1>4, <1>5 DEF Lesser
<1>7. /\ whole \in Seq(Row) /\ Len(whole) = l /\ m \in 0..l
      /\ recent = SubSeq(whole, 1, m)
  BY <1>1, <1>6, NewestFirst
<1> HIDE DEF whole, recent, l, m, readers, readable, scoped, list
<1>8. recent \in Seq(Row) /\ Len(recent) = m /\ \A i \in 1..m : recent[i] = whole[i]
  BY <1>7
<1>9. recent = whole \/ m < l
  BY <1>7, <1>8
<1>10. /\ readable \in Seq(Row) /\ scoped \in Seq(Row) /\ Begins(scoped, readable)
       /\ recent = whole => scoped = readable
       /\ ~Restricted(who) => Len(scoped) = m /\ Len(readable) = l
  <2>1. CASE Restricted(who)
    <3>1. readers = scope
      BY <1>1, <2>1 DEF readers, Principal, CanReadRecord, Restricted, Owns
    <3>2. scoped = Kept(recent, readers)
      BY <2>1, <3>1 DEF scoped, ScopedTo
    <3>3. readable = Kept(whole, readers)
      BY DEF readable
    <3>4. readable \in Seq(Row) /\ scoped \in Seq(Row)
      BY <1>7, <1>8, <3>2, <3>3, KeptRows
    <3>5. Begins(scoped, readable)
      BY <1>7, <3>2, <3>3, KeptBegins
    <3> QED BY <2>1, <3>2, <3>3, <3>4, <3>5
  <2>2. CASE ~Restricted(who)
    <3>1. \A i \in 1..Len(whole) : whole[i] \in readers
      <4>1. who.kind = "ops" \/ (who.kind = "anonymous" /\ who.open)
        BY <1>1, <2>2 DEF Principal, Restricted
      <4>2. \A row \in Row : CanReadRecord(who, row)
        BY <4>1 DEF CanReadRecord
      <4> QED BY <1>7, <4>2 DEF readers
    <3>2. Kept(whole, readers) = whole
      BY <1>7, <3>1, KeptRows
    <3>3. readable = whole /\ scoped = recent
      BY <2>2, <3>2 DEF readable, scoped, ScopedTo
    <3> QED BY <1>7, <1>8, <3>3 DEF Begins
  <2> QED BY <2>1, <2>2
<1>11. list = SubSeq(scoped, 1, Lesser(limit, Len(scoped)))
  BY DEF list, ListNodes, scoped, recent, limit, asked
<1>12. PICK a : a = Len(scoped)
  OBVIOUS
<1>13. PICK b : b = Len(readable)
  OBVIOUS
<1>14. a \in Nat /\ b \in Nat /\ a <= b /\ \A i \in 1..a : scoped[i] = readable[i]
  BY <1>10, <1>12, <1>13 DEF Begins
<1>15. Lesser(limit, a) \in 0..a /\ Lesser(limit, a) <= limit
  BY <1>3, <1>14 DEF Lesser
<1>16. list \in Seq(Row) /\ Len(list) = Lesser(limit, a) /\ Begins(list, readable)
  <2>1. PICK k : k = Lesser(limit, a)
    OBVIOUS
  <2>2. k \in 0..a /\ list = SubSeq(scoped, 1, k)
    BY <1>11, <1>12, <1>15, <2>1
  <2>3. list \in Seq(Row) /\ Len(list) = k /\ \A i \in 1..k : list[i] = scoped[i]
    BY <1>10, <1>12, <2>2
  <2> QED BY <1>13, <1>14, <2>1, <2>2, <2>3 DEF Begins
<1>17. IsPrefix(list, readable) /\ Len(list) <= limit
  BY <1>10, <1>15, <1>16, BeginningIsPrefix
<1>18. Len(list) < Lesser(limit, b) => l > Lesser(RecentCap, bound)
  <2>1. SUFFICES ASSUME ~(l > Lesser(RecentCap, bound)) PROVE ~(Lesser(limit, a) < Lesser(limit, b))
    BY <1>16
  <2>2. l <= RecentCap /\ l <= bound
    BY <1>2, <1>4, <1>5, <2>1 DEF Lesser
  <2>3. CASE recent = whole
    BY <1>3, <1>10, <1>12, <1>13, <1>14, <2>3 DEF Lesser
  <2>4. CASE m < l
    <3>1. asked < l
      BY <1>5, <1>6, <2>4 DEF m, Lesser
    <3>2. ~Restricted(who)
      BY <1>2, <1>4, <1>5, <2>2, <3>1 DEF Lesser
    <3>3. asked = limit /\ limit < l
      BY <1>2, <1>3, <1>5, <2>2, <3>1, <3>2 DEF Lesser
    <3>4. a = limit /\ b = l
      BY <1>5, <1>10, <1>12, <1>13, <3>2, <3>3 DEF m, Lesser
    <3> QED BY <1>3, <1>5, <3>3, <3>4 DEF Lesser
  <2> QED BY <1>9, <2>3, <2>4
<1> QED BY <1>13, <1>17, <1>18
    DEF ListIsNewestReadable, who, journal, readers, whole, readable, limit, list, l, bound

LEMMA ProcessAnswers ==
    ASSUME QuestionFits, about = "reading" PROVE ProcessIsNewestReadable
<1> DEFINE who == question.who
           journal == question.journal
           wanted == question.wanted
<1>1. who \in Principal /\ journal \in Seq(Row) /\ wanted \in 1..(PageCap + 1)
  <2>1. question \in ReadingQuestions
    BY DEF QuestionFits
  <2> QED BY <2>1, BoundedIsSeq DEF ReadingQuestions
<1>2. /\ PageCap \in Nat /\ FetchCap \in Nat /\ PageCap < FetchCap
      /\ NoProcess \notin Owner
  BY ReadScopeAssumption
<1>3. wanted \in Nat /\ Lesser(FetchCap, wanted) = wanted
  BY <1>1, <1>2 DEF Lesser
<1> HIDE DEF who, journal, wanted
<1>4. ASSUME NEW of \in Owner
      PROVE  LET own == Kept(journal, {row \in Row : row.of = of})
                 told == ProcessRecords(journal, of, wanted)
             IN  /\ IsSuffix(told.rows, own) /\ Len(told.rows) = Lesser(wanted, Len(own))
                 /\ \A row \in ToSet(own) :
                       CanReadRecord(who, row) = (CanReadProcess(who, of) \/ row.system)
  <2> DEFINE set == {row \in Row : row.of = of}
             own == Kept(journal, set)
             told == ProcessRecords(journal, of, wanted)
  <2>1. told.rows = Newest(own, wanted)
    BY <1>3 DEF ProcessRecords
  <2>2. own \in Seq(Row) /\ \A i \in 1..Len(own) : own[i] \in set
    BY <1>1, KeptRows
  <2>3. ASSUME NEW row \in ToSet(own)
        PROVE  CanReadRecord(who, row) = (CanReadProcess(who, of) \/ row.system)
    <3>1. row \in set
      BY <2>2 DEF ToSet
    <3>2. row \in Row /\ row.of = of /\ row.of # NoProcess /\ row.system \in BOOLEAN
      BY <1>2, <3>1 DEF Row
    <3>3. IsSystem(row) = row.system
      BY <3>2 DEF IsSystem
    <3> QED BY <1>1, <3>2, <3>3 DEF CanReadRecord, CanReadProcess, Owns, Principal
  <2> HIDE DEF own, told, set
  <2>4. /\ Len(told.rows) = Lesser(wanted, Len(own)) /\ told.rows \in Seq(Row)
        /\ Reverse(own) \in Seq(Row) /\ Len(Reverse(own)) = Len(own)
        /\ Lesser(wanted, Len(own)) \in 0..Len(own)
        /\ Reverse(told.rows) = SubSeq(Reverse(own), 1, Lesser(wanted, Len(own)))
    BY <1>3, <2>1, <2>2, NewestFirst
  <2>5. IsPrefix(Reverse(told.rows), Reverse(own))
    <3>1. PICK a : a = Reverse(told.rows)
      OBVIOUS
    <3>2. PICK b : b = Reverse(own)
      OBVIOUS
    <3>3. PICK k : k = Lesser(wanted, Len(own))
      OBVIOUS
    <3>4. b \in Seq(Row) /\ k \in 0..Len(b) /\ a = SubSeq(b, 1, k)
      BY <2>4, <3>1, <3>2, <3>3
    <3>5. a \in Seq(Row) /\ Begins(a, b)
      BY <3>4 DEF Begins
    <3> QED BY <3>1, <3>2, <3>4, <3>5, BeginningIsPrefix
  <2>6. IsSuffix(told.rows, own)
    BY <2>5 DEF IsSuffix
  <2> QED BY <2>3, <2>4, <2>6 DEF own, told, set
<1> QED BY <1>4 DEF ProcessIsNewestReadable, who, journal, wanted

\* Readers are shown what they could read anyhow, the newest of it, and the core, the edge and
\* its sessions let in the same institutions by the same credentials: for any journal, any
\* institutions, tokens, headers and configuration.
THEOREM PartsSpecAgreesOnAccess == MCSpec => []AccessRulesAgree
<1>1. QuestionFits => AccessRulesAgree
  <2> SUFFICES ASSUME QuestionFits PROVE AccessRulesAgree
    OBVIOUS
  <2>1. ListIsNewestReadable
    <3>1. CASE about = "reading"
      BY <3>1, ListAnswers
    <3> QED BY <3>1 DEF ListIsNewestReadable
  <2>2. ProcessIsNewestReadable
    <3>1. CASE about = "reading"
      BY <3>1, ProcessAnswers
    <3> QED BY <3>1 DEF ProcessIsNewestReadable
  <2> QED BY <2>1, <2>2, AccessAnswers, IdentityAnswers DEF AccessRulesAgree
<1> QED BY <1>1, QuestionsFit, PTL

-----------------------------------------------------------------------------
(***************************************************************************)
(* Amounts: revaluations of the supply, fees, and the velocity.            *)
(***************************************************************************)
\* The community modules' sum is the one of SequenceFolds.
LEMMA SumsAre ==
    /\ \A f, S : SumFunctionOnSet(f, S) = Tallying!Sum(f, S)
    /\ \A f : SumFunction(f) = Tallying!Sum(f, DOMAIN f)
    /\ \A S : IsFiniteSet(S) <=> Tallying!IsFiniteSet(S)
<1>1. \A f, S : SumFunctionOnSet(f, S) = Tallying!Sum(f, S)
  BY DEF Tallying!Sum, SumFunctionOnSet, Tallying!SumFunctionOnSet, FoldFunctionOnSet,
         Tallying!FoldFunctionOnSet, MapThenFoldSet, Tallying!MapThenFoldSet
<1>2. \A S : IsFiniteSet(S) <=> Tallying!IsFiniteSet(S)
  BY DEF IsFiniteSet, Tallying!IsFiniteSet
<1>3. \A f : SumFunction(f) = Tallying!Sum(f, DOMAIN f)
  BY <1>1 DEF SumFunction
<1> QED BY <1>1, <1>2, <1>3

\* What holds of 0 and passes from each number to the next, holds up to n.
LEMMA UpTo ==
    ASSUME NEW n \in Nat, NEW Q, 0 \in Q, \A k \in 1..n : k - 1 \in Q => k \in Q
    PROVE  0..n \subseteq Q
<1> DEFINE T == {k \in 0..n : k \notin Q}
<1>1. SUFFICES ASSUME T # {} PROVE FALSE
  OBVIOUS
<1>2. PICK k \in T : \A m \in T : k <= m
  <2>1. T \in SUBSET Nat
    OBVIOUS
  <2> QED BY <1>1, <2>1, Tallying!LeastNatural
<1>3. k # 0 /\ k \in 1..n /\ k - 1 \in 0..n /\ k - 1 \notin T
  BY <1>2
<1> QED BY <1>2, <1>3

\* A sum over 1..n, number by number.
LEMMA SumUpTo ==
    ASSUME NEW f, NEW n \in Nat, \A i \in 1..n : f[i] \in Int
    PROVE  /\ Tallying!Sum(f, 1..0) = 0
           /\ \A k \in 0..n : Tallying!Sum(f, 1..k) \in Int
           /\ \A k \in 1..n : Tallying!Sum(f, 1..k) = Tallying!Sum(f, 1..(k - 1)) + f[k]
<1>1. Tallying!Sum(f, 1..0) = 0
  <2>1. 1..0 = {} /\ IsFiniteSet({})
    BY FS_EmptySet
  <2>2. Tallying!Sum(f, {}) = 0
    BY <2>1, SumsAre, Tallying!SumRounds
  <2> QED BY <2>1, <2>2
<1>2. ASSUME NEW k \in 0..n PROVE Tallying!Sum(f, 1..k) \in Int
  <2>1. IsFiniteSet(1..k)
    BY FS_Interval
  <2>2. \A i \in 1..k : f[i] \in Int
    OBVIOUS
  <2> QED BY <2>1, <2>2, SumsAre, Tallying!SumAny
<1>3. ASSUME NEW k \in 1..n PROVE Tallying!Sum(f, 1..k) = Tallying!Sum(f, 1..(k - 1)) + f[k]
  <2>1. IsFiniteSet(1..k)
    BY FS_Interval
  <2>2. \A i \in 1..k : f[i] \in Int
    OBVIOUS
  <2>3. k \in 1..k /\ (1..k) \ {k} = 1..(k - 1)
    OBVIOUS
  <2>4. Tallying!Sum(f, 1..k) = f[k] + Tallying!Sum(f, (1..k) \ {k})
    BY <2>1, <2>2, <2>3, SumsAre, Tallying!SumAny
  <2>5. Tallying!Sum(f, 1..(k - 1)) \in Int /\ f[k] \in Int
    BY <1>2, <2>2, <2>3
  <2>6. Tallying!Sum(f, (1..k) \ {k}) = Tallying!Sum(f, 1..(k - 1))
    BY <2>3, Zenon
  <2>7. PICK a \in Int, c \in Int : a = Tallying!Sum(f, 1..(k - 1)) /\ c = f[k]
    BY <2>5
  <2>8. a + c = c + a
    OBVIOUS
  <2> QED BY <2>4, <2>6, <2>7, <2>8
<1> QED BY <1>1, <1>2, <1>3

\* A sum over the elements of a list without repetitions is one along the list.
LEMMA SumAlong ==
    ASSUME NEW n \in Nat, NEW order, DOMAIN order = 1..n,
           \A i, j \in 1..n : i # j => order[i] # order[j],
           NEW b, \A i \in 1..n : b[order[i]] \in Int
    PROVE  Tallying!Sum(b, ToSet(order)) = Tallying!Sum([i \in 1..n |-> b[order[i]]], 1..n)
<1> DEFINE w == [i \in 1..n |-> b[order[i]]]
           Seen(k) == {order[i] : i \in 1..k}
           Q == {k \in 0..n : /\ IsFiniteSet(Seen(k))
                             /\ Tallying!Sum(b, Seen(k)) = Tallying!Sum(w, 1..k)}
<1>1. \A i \in 1..n : w[i] = b[order[i]] /\ w[i] \in Int
  OBVIOUS
<1> HIDE DEF w
<1>2. /\ Tallying!Sum(w, 1..0) = 0
      /\ \A k \in 0..n : Tallying!Sum(w, 1..k) \in Int
      /\ \A k \in 1..n : Tallying!Sum(w, 1..k) = Tallying!Sum(w, 1..(k - 1)) + w[k]
  BY <1>1, SumUpTo
<1>3. 0 \in Q
  <2>1. Seen(0) = {} /\ IsFiniteSet({})
    BY FS_EmptySet
  <2>2. Tallying!Sum(b, {}) = 0
    BY <2>1, SumsAre, Tallying!SumRounds
  <2>3. Tallying!Sum(b, Seen(0)) = 0 /\ IsFiniteSet(Seen(0))
    BY <2>1, <2>2
  <2> HIDE DEF Seen
  <2> QED BY <1>2, <2>3
<1>4. ASSUME NEW k \in 1..n, k - 1 \in Q PROVE k \in Q
  <2>1. IsFiniteSet(Seen(k))
    <3>1. Seen(k) = Seen(k - 1) \cup {order[k]}
      OBVIOUS
    <3>2. IsFiniteSet(Seen(k - 1))
      BY <1>4
    <3> HIDE DEF Seen
    <3>3. IsFiniteSet(Seen(k - 1) \cup {order[k]})
      BY <3>2, FS_AddElement
    <3> QED BY <3>1, <3>3
  <2>2. \A h \in Seen(k) : b[h] \in Int
    OBVIOUS
  <2>3. order[k] \in Seen(k) /\ Seen(k) \ {order[k]} = Seen(k - 1)
    OBVIOUS
  <2>4. Tallying!Sum(b, Seen(k)) = b[order[k]] + Tallying!Sum(b, Seen(k - 1))
    <3> HIDE DEF Seen
    <3>1. Tallying!Sum(b, Seen(k)) = b[order[k]] + Tallying!Sum(b, Seen(k) \ {order[k]})
      BY <2>1, <2>2, <2>3, SumsAre, Tallying!SumAny
    <3> QED BY <2>3, <3>1
  <2>5. Tallying!Sum(b, Seen(k - 1)) = Tallying!Sum(w, 1..(k - 1))
    BY <1>4
  <2>6. Tallying!Sum(w, 1..(k - 1)) \in Int /\ w[k] \in Int /\ w[k] = b[order[k]]
    BY <1>1, <1>2
  <2> HIDE DEF Seen
  <2>7. Tallying!Sum(w, 1..k) = Tallying!Sum(w, 1..(k - 1)) + w[k]
    BY <1>2
  <2> QED BY <2>1, <2>4, <2>5, <2>6, <2>7
<1>5. n \in Q
  <2> HIDE DEF Q
  <2>1. 0..n \subseteq Q
    BY <1>3, <1>4, UpTo
  <2> QED BY <2>1
<1>6. Seen(n) = ToSet(order)
  BY DEF ToSet
<1> QED BY <1>5, <1>6 DEF w

\* Quotients are rounded down.
LEMMA RoundedDown ==
    ASSUME NEW a \in Int, NEW b \in Nat \ {0}
    PROVE  /\ a \div b \in Int /\ b * (a \div b) \in Int
           /\ a - b * (a \div b) \in 0..(b - 1)
           /\ a >= 0 => a \div b \in Nat
OBVIOUS

\* What proRataAllocate gives the holders in an order, of an amount d, by a total of balances.
SharedOut(b, order, d, total) ==
    LET n == Len(order)
        share == ProRata(b, order, d)
    IN  /\ total \in Nat /\ \A i \in 1..n : b[order[i]] <= total
        /\ DOMAIN share = 1..n /\ SumFunction(share) = d
        /\ \A i \in 1..n : share[i] \in Nat
        /\ \A i \in 1..(n - 1) : share[i] = (d * b[order[i]]) \div total
        /\ share[n] * total - d * b[order[n]] \in 0..((total - 1) * (n - 1))

\* The shares of an amount: whole numbers that add up to it, each but the last rounded down,
\* and the last one with what the others have lost by that, which is less than one for each.
LEMMA SharesAre ==
    ASSUME NEW n \in Nat \ {0}, NEW order, DOMAIN order = 1..n, Len(order) = n,
           \A i, j \in 1..n : i # j => order[i] # order[j],
           NEW b, \A i \in 1..n : b[order[i]] \in Nat,
           NEW d \in Nat, SumFunctionOnSet(b, ToSet(order)) > 0
    PROVE  SharedOut(b, order, d, SumFunctionOnSet(b, ToSet(order)))
<1> DEFINE w == [i \in 1..n |-> b[order[i]]]
           W(k) == Tallying!Sum(w, 1..k)
           total == SumFunctionOnSet(b, ToSet(order))
           down == [i \in 1..(n - 1) |-> (d * b[order[i]]) \div total]
           S(k) == Tallying!Sum(down, 1..k)
           share == ProRata(b, order, d)
           Over(k) == d * W(k) - total * S(k)
           Q == {k \in 0..(n - 1) : Over(k) \in 0..((total - 1) * k)}
<1>1. \A i \in 1..n : w[i] = b[order[i]] /\ w[i] \in Nat
  OBVIOUS
<1>2. total = W(n)
  BY SumAlong, SumsAre
<1> HIDE DEF w, total
<1>3. /\ W(0) = 0 /\ \A k \in 0..n : W(k) \in Int
      /\ \A k \in 1..n : W(k) = W(k - 1) + w[k]
  <2>1. n \in Nat /\ \A i \in 1..n : w[i] \in Int
    BY <1>1
  <2> QED BY <2>1, SumUpTo
<1>4. W(n) \in Nat /\ \A i \in 1..n : w[i] <= W(n)
  <2>1. IsFiniteSet(1..n)
    BY FS_Interval
  <2> QED BY <1>1, <2>1, SumsAre, Tallying!SumOfNaturals, Tallying!SumBounds
<1>5. total \in Nat \ {0}
  BY <1>2, <1>4 DEF total
<1>6. \A i \in 1..(n - 1) : down[i] = (d * w[i]) \div total
  BY <1>1
<1>7. \A i \in 1..n : d * w[i] \in Nat
  BY <1>1
<1>8. ASSUME NEW i \in 1..(n - 1)
      PROVE  down[i] \in Nat /\ d * w[i] - total * down[i] \in 0..(total - 1)
  <2>1. PICK a \in Nat : a = d * w[i]
    BY <1>7
  <2>2. down[i] = a \div total
    BY <1>6, <2>1
  <2> HIDE DEF down
  <2>3. a - total * (a \div total) \in 0..(total - 1) /\ a \div total \in Nat
    <3>1. PICK t \in Nat \ {0} : t = total
      BY <1>5
    <3>2. a \in Int /\ a >= 0
      OBVIOUS
    <3>3. a - t * (a \div t) \in 0..(t - 1) /\ a \div t \in Nat
      BY <3>2, RoundedDown
    <3> QED BY <3>1, <3>3
  <2> QED BY <2>1, <2>2, <2>3
<1>9. DOMAIN down = 1..(n - 1)
  OBVIOUS
<1> HIDE DEF down
<1>10. /\ S(0) = 0 /\ \A k \in 0..(n - 1) : S(k) \in Int
       /\ \A k \in 1..(n - 1) : S(k) = S(k - 1) + down[k]
  <2>1. n - 1 \in Nat /\ \A i \in 1..(n - 1) : down[i] \in Int
    BY <1>8
  <2> QED BY <2>1, SumUpTo
<1> HIDE DEF W, S
<1>11. n - 1 \in Q
  <2>1. 0 \in Q
    BY <1>3, <1>5, <1>10
  <2>2. ASSUME NEW k \in 1..(n - 1), k - 1 \in Q PROVE k \in Q
    <3>1. PICK u \in Int, v \in Int, x \in Int, y \in Int :
             u = W(k - 1) /\ v = S(k - 1) /\ x = w[k] /\ y = down[k]
      <4>1. k - 1 \in 0..n /\ k - 1 \in 0..(n - 1) /\ k \in 1..n
        OBVIOUS
      <4>2. W(k - 1) \in Int /\ S(k - 1) \in Int /\ w[k] \in Int /\ down[k] \in Int
        <5>1. W(k - 1) \in Int
          BY <1>3, <4>1
        <5>2. S(k - 1) \in Int
          BY <1>10, <4>1
        <5>3. w[k] \in Int /\ down[k] \in Int
          BY <1>1, <1>8, <4>1
        <5> QED BY <5>1, <5>2, <5>3
      <4> QED BY <4>2
    <3>2. W(k) = u + x /\ S(k) = v + y
      BY <1>3, <1>10, <3>1
    <3>3. d * x - total * y \in 0..(total - 1)
      BY <1>8, <3>1
    <3>4. d * u - total * v \in 0..((total - 1) * (k - 1))
      BY <2>2, <3>1
    <3>5. d * (u + x) - total * (v + y) = (d * u - total * v) + (d * x - total * y)
      BY <1>5
    <3>6. (total - 1) * k = (total - 1) * (k - 1) + (total - 1)
      BY <1>5
    <3>7. PICK p \in Int, q \in Int : p = d * u - total * v /\ q = d * x - total * y
      BY <1>5
    <3>8. (total - 1) * (k - 1) \in Int
      BY <1>5
    <3>9. p + q \in 0..((total - 1) * k)
      BY <1>5, <3>3, <3>4, <3>6, <3>7, <3>8
    <3>10. Over(k) = p + q
      BY <3>2, <3>5, <3>7
    <3> QED BY <3>9, <3>10
  <2> HIDE DEF Q
  <2>3. 0..(n - 1) \subseteq Q
    <3>1. n - 1 \in Nat
      OBVIOUS
    <3> QED BY <2>1, <2>2, <3>1, UpTo
  <2> QED BY <2>3
<1>12. PICK last : last = d - S(n - 1)
  OBVIOUS
<1>13. last \in Int
  BY <1>10, <1>12
<1>14. /\ DOMAIN share = 1..n /\ share[n] = last
       /\ \A i \in 1..(n - 1) : share[i] = down[i]
  <2>1. SumFunction(down) = S(n - 1)
    BY <1>9, SumsAre DEF S
  <2>2. share = [i \in 1..n |-> IF i < n THEN down[i] ELSE d - SumFunction(down)]
    BY DEF ProRata, down, total
  <2> HIDE DEF share
  <2> QED BY <1>12, <2>1, <2>2
<1> HIDE DEF share
<1>15. last * total - d * w[n] = Over(n - 1)
  <2>1. PICK u \in Int, v \in Int, x \in Int : u = W(n - 1) /\ v = S(n - 1) /\ x = w[n]
    BY <1>1, <1>3, <1>10
  <2>2. total = u + x
    BY <1>2, <1>3, <2>1
  <2>3. (d - v) * (u + x) - d * x = d * u - (u + x) * v
    OBVIOUS
  <2> QED BY <1>12, <2>1, <2>2, <2>3
<1>16. last \in Nat
  <2>1. last * total >= 0
    <3>1. Over(n - 1) >= 0 /\ Over(n - 1) \in Int
      BY <1>11
    <3>2. d * w[n] \in Nat /\ last * total \in Int
      BY <1>5, <1>7, <1>13
    <3> HIDE DEF Over
    <3> QED BY <1>15, <3>1, <3>2
  <2>2. CASE last < 0
    <3>1. last * total <= -total
      BY <1>5, <1>13, <2>2
    <3>2. PICK m : m = last * total
      OBVIOUS
    <3>3. m <= -total /\ m >= 0 /\ total > 0 /\ m \in Int /\ total \in Int
      BY <1>5, <1>13, <2>1, <3>1, <3>2
    <3> QED BY <3>3
  <2> QED BY <1>13, <2>2
<1>17. \A i \in 1..n : share[i] \in Nat
  <2>1. \A i \in 1..n : i = n \/ i \in 1..(n - 1)
    OBVIOUS
  <2> QED BY <1>8, <1>14, <1>16, <2>1
<1>18. SumFunction(share) = d
  <2>1. SumFunction(share) = Tallying!Sum(share, 1..n)
    BY <1>14, SumsAre
  <2>2. Tallying!Sum(share, 1..n) = Tallying!Sum(share, 1..(n - 1)) + share[n]
    <3>1. n \in Nat /\ n \in 1..n /\ \A i \in 1..n : share[i] \in Int
      BY <1>17
    <3> QED BY <3>1, SumUpTo
  <2>3. Tallying!Sum(share, 1..(n - 1)) = S(n - 1)
    <3>1. IsFiniteSet(1..(n - 1))
      BY FS_Interval
    <3> QED BY <1>14, <3>1, SumsAre, Tallying!SumSame DEF S
  <2>4. S(n - 1) \in Int
    BY <1>10
  <2> QED BY <1>12, <1>14, <2>1, <2>2, <2>3, <2>4
<1>19. \A i \in 1..(n - 1) : share[i] = (d * b[order[i]]) \div total
  BY <1>1, <1>6, <1>14
<1>20. share[n] * total - d * b[order[n]] \in 0..((total - 1) * (n - 1))
  <2>1. b[order[n]] = w[n]
    BY <1>1
  <2> QED BY <1>11, <1>14, <1>15, <2>1
<1>21. \A i \in 1..n : b[order[i]] <= total
  BY <1>1, <1>2, <1>4
<1> QED BY <1>5, <1>14, <1>17, <1>18, <1>19, <1>20, <1>21 DEF SharedOut, share, total

\* Elements that count nothing can be left out of a sum.
LEMMA SumWithoutZeros ==
    ASSUME NEW S, IsFiniteSet(S), NEW T \in SUBSET S, NEW f, \A x \in S : f[x] \in Int,
           \A x \in S \ T : f[x] = 0
    PROVE  Tallying!Sum(f, S) = Tallying!Sum(f, T)
<1> SUFFICES ASSUME Tallying!Sum(f, S) # Tallying!Sum(f, T) PROVE FALSE
  OBVIOUS
<1>1. PICK B : B = {t \in SUBSET S : Tallying!Sum(f, t) # Tallying!Sum(f, t \cap T)}
  OBVIOUS
<1>2. PICK t \in B : IsFiniteSet(t) /\ \A u \in SUBSET t : u # t => u \notin B
  <2>1. S \cap T = T
    OBVIOUS
  <2>2. B \in SUBSET SUBSET S /\ B # {}
    BY <1>1, <2>1
  <2> QED BY <2>2, SumsAre, Tallying!MinimalSet
<1>3. t \in SUBSET S /\ Tallying!Sum(f, t) # Tallying!Sum(f, t \cap T)
  BY <1>1, <1>2
<1>4. PICK y \in t : y \notin T
  <2>1. CASE t \subseteq T
    <3>1. t \cap T = t
      BY <2>1
    <3> QED BY <1>3, <3>1
  <2> QED BY <2>1
<1>5. Tallying!Sum(f, t) = f[y] + Tallying!Sum(f, t \ {y}) /\ f[y] = 0
  <2>1. \A x \in t : f[x] \in Int
    BY <1>3
  <2>2. Tallying!Sum(f, t) = f[y] + Tallying!Sum(f, t \ {y})
    BY <1>2, <2>1, SumsAre, Tallying!SumAny
  <2> QED BY <1>3, <1>4, <2>2
<1>6. Tallying!Sum(f, t \ {y}) = Tallying!Sum(f, (t \ {y}) \cap T)
  BY <1>1, <1>2, <1>3
<1>7. (t \ {y}) \cap T = t \cap T
  BY <1>4
<1>8. Tallying!Sum(f, t \ {y}) \in Int
  <2>1. IsFiniteSet(t \ {y})
    BY <1>2, FS_Subset
  <2>2. \A x \in t \ {y} : f[x] \in Int
    BY <1>3
  <2> QED BY <2>1, <2>2, SumsAre, Tallying!SumAny
<1>9. Tallying!Sum(f, t) = Tallying!Sum(f, t \ {y})
  <2>1. PICK a \in Int : a = Tallying!Sum(f, t \ {y})
    BY <1>8
  <2>2. 0 + a = a
    OBVIOUS
  <2> QED BY <1>5, <2>1, <2>2
<1> QED BY <1>3, <1>6, <1>7, <1>9

\* The maps of balances.
Holdings == [Holder -> Nat]

\* The supply is a natural number, zero only if nobody has a balance.
LEMMA SupplyOf ==
    ASSUME NEW b \in Holdings
    PROVE  /\ DOMAIN b = Holder /\ \A h \in Holder : b[h] \in Nat
           /\ SumFunction(b) = Tallying!Sum(b, Holder)
           /\ SumFunction(b) \in Nat
           /\ SumFunction(b) > 0 => \E h \in Holder : b[h] > 0
<1>1. DOMAIN b = Holder /\ \A h \in Holder : b[h] \in Nat
  BY DEF Holdings
<1>2. SumFunction(b) = Tallying!Sum(b, Holder)
  BY <1>1, SumsAre
<1>3. /\ Tallying!Sum(b, Holder) \in Nat
      /\ (\A h \in Holder : b[h] = 0) => Tallying!Sum(b, Holder) = 0
  BY <1>1, PartsAssumption, SumsAre, Tallying!SumOfNaturals
<1>4. ASSUME SumFunction(b) > 0 PROVE \E h \in Holder : b[h] > 0
  <2>1. ~(\A h \in Holder : b[h] = 0)
    BY <1>2, <1>3, <1>4
  <2> QED BY <1>1, <2>1
<1> QED BY <1>1, <1>2, <1>3, <1>4

\* An order of the map lists every holder of a balance, and each once.
LEMMA OrderIs ==
    ASSUME NEW b \in Holdings, NEW order \in Orders(b)
    PROVE  /\ Len(order) \in Nat /\ DOMAIN order = 1..Len(order)
           /\ \A i \in 1..Len(order) : order[i] \in Holder /\ b[order[i]] \in Nat
           /\ \A i, j \in 1..Len(order) : i # j => order[i] # order[j]
           /\ SumFunctionOnSet(b, ToSet(order)) = SumFunction(b)
           /\ SumFunction(b) > 0 => Len(order) > 0
<1>1. PICK H : H = {h \in Holder : b[h] > 0}
  OBVIOUS
<1>2. DOMAIN b = Holder /\ \A h \in Holder : b[h] \in Nat
  BY SupplyOf
<1>3. IsFiniteSet(H) /\ H \subseteq Holder
  <2>1. H \subseteq Holder /\ IsFiniteSet(Holder)
    BY <1>1, PartsAssumption
  <2> QED BY <2>1, FS_Subset
<1>4. PICK n \in Nat : n = Cardinality(H)
  BY <1>3, FS_CardinalityType
<1>5. order \in [1..n -> H] /\ \A i, j \in 1..n : i # j => order[i] # order[j]
  BY <1>1, <1>2, <1>4 DEF Orders, SetToSeqs
<1>6. Len(order) = n /\ DOMAIN order = 1..n
  BY <1>5
<1>7. \A i \in 1..n : order[i] \in Holder /\ b[order[i]] \in Nat
  BY <1>2, <1>3, <1>5
<1>8. ToSet(order) = H
  <2>1. IsFiniteSet(1..n) /\ Cardinality(1..n) = Cardinality(H)
    <3>1. IsFiniteSet(1..n) /\ Cardinality(1..n) = IF 1 > n THEN 0 ELSE n - 1 + 1
      BY FS_Interval
    <3> QED BY <1>4, <3>1
  <2>2. order \in Injection(1..n, H)
    BY <1>5 DEF Injection, IsInjective
  <2>3. order \in Surjection(1..n, H)
    BY <1>3, <2>1, <2>2, FS_Injection
  <2>4. \A h \in H : \E i \in 1..n : order[i] = h
    BY <2>3 DEF Surjection
  <2> QED BY <1>5, <1>6, <2>4 DEF ToSet
<1>9. SumFunctionOnSet(b, ToSet(order)) = SumFunction(b)
  <2>1. \A h \in Holder \ H : b[h] = 0
    BY <1>1, <1>2
  <2>2. \A h \in Holder : b[h] \in Int
    BY <1>2
  <2>3. IsFiniteSet(Holder)
    BY PartsAssumption
  <2>4. Tallying!Sum(b, Holder) = Tallying!Sum(b, H)
    BY <1>3, <2>1, <2>2, <2>3, SumWithoutZeros
  <2> QED BY <1>8, <2>4, SumsAre, SupplyOf
<1>10. ASSUME SumFunction(b) > 0 PROVE n > 0
  <2>1. H # {}
    BY <1>1, <1>10, SupplyOf
  <2> QED BY <1>3, <1>4, <2>1, FS_EmptySet
<1> QED BY <1>5, <1>6, <1>7, <1>9, <1>10

\* What a revaluation makes of the supply is a natural number, and no more than the
\* supply if the value falls.
LEMMA RevaluedIs ==
    ASSUME NEW supply \in Nat, NEW previous \in Nat \ {0}, NEW new \in Nat
    PROVE  /\ RevaluedSupply(supply, previous, new) \in Nat
           /\ new < previous => RevaluedSupply(supply, previous, new) <= supply
<1>1. PICK a \in Nat : a = supply * new
  OBVIOUS
<1>2. a \div previous \in Nat /\ previous * (a \div previous) <= a
  <2>1. a \in Int /\ a >= 0
    OBVIOUS
  <2>2. PICK q \in Int, r \in Int : q = a \div previous /\ r = previous * q
    BY <2>1, RoundedDown
  <2>3. a - r \in 0..(previous - 1) /\ q \in Nat
    BY <2>1, <2>2, RoundedDown
  <2> QED BY <2>2, <2>3
<1>3. ASSUME new < previous PROVE a \div previous <= supply
  <2>1. PICK q \in Nat : q = a \div previous /\ previous * q <= supply * new
    BY <1>1, <1>2
  <2>2. CASE q > supply
    <3>1. previous * q >= previous * (supply + 1)
      BY <2>2
    <3>2. previous * (supply + 1) = supply * previous + previous
      OBVIOUS
    <3>3. supply * new <= supply * previous
      BY <1>3
    <3>4. PICK x \in Int, y \in Int, z \in Int :
             x = previous * q /\ y = supply * new /\ z = supply * previous
      OBVIOUS
    <3>5. x <= y /\ y <= z /\ x >= z + previous
      BY <2>1, <3>1, <3>2, <3>3, <3>4
    <3> QED BY <3>5
  <2> QED BY <2>1, <2>2
<1>4. RevaluedSupply(supply, previous, new) \in {supply, a \div previous}
  BY <1>1 DEF RevaluedSupply
<1> QED BY <1>2, <1>3, <1>4

\* What is fair about the shares of an amount.
FairlyShared(b, order, d, total, share) ==
    LET n == Len(order)
    IN  /\ total \in Nat \ {0} /\ n \in Nat \ {0} /\ DOMAIN order = 1..n
        /\ \A i \in 1..n : order[i] \in Holder /\ b[order[i]] \in Nat /\ share[i] \in Nat
        /\ DOMAIN share = 1..n /\ SumFunction(share) = d
        /\ \A i \in 1..(n - 1) : share[i] * total - d * b[order[i]] \in (1 - total)..0
        /\ share[n] * total - d * b[order[n]] \in 0..((total - 1) * (n - 1))

\* The shares of holders in an order of the map.
LEMMA HoldersShares ==
    ASSUME NEW b \in Holdings, NEW order \in Orders(b), NEW d \in Nat, SumFunction(b) > 0
    PROVE  FairlyShared(b, order, d, SumFunction(b), ProRata(b, order, d))
<1> DEFINE total == SumFunction(b)
           n == Len(order)
           share == ProRata(b, order, d)
<1>1. /\ n \in Nat /\ DOMAIN order = 1..n /\ n > 0
      /\ \A i \in 1..n : order[i] \in Holder /\ b[order[i]] \in Nat
      /\ \A i, j \in 1..n : i # j => order[i] # order[j]
      /\ SumFunctionOnSet(b, ToSet(order)) = total
  BY OrderIs
<1>2. /\ total \in Nat
      /\ DOMAIN share = 1..n /\ SumFunction(share) = d
      /\ \A i \in 1..n : share[i] \in Nat
      /\ \A i \in 1..(n - 1) : share[i] = (d * b[order[i]]) \div total
      /\ share[n] * total - d * b[order[n]] \in 0..((total - 1) * (n - 1))
  <2>1. n \in Nat \ {0} /\ SumFunctionOnSet(b, ToSet(order)) > 0
    BY <1>1
  <2>2. \A i \in 1..n : b[order[i]] \in Nat
    BY <1>1
  <2>3. SharedOut(b, order, d, SumFunctionOnSet(b, ToSet(order)))
    <3> HIDE DEF n, total
    <3>1. Len(order) = n
      BY DEF n
    <3> QED BY <1>1, <2>1, <2>2, <3>1, SharesAre
  <2>4. SharedOut(b, order, d, total)
    BY <1>1, <2>3
  <2> HIDE DEF total
  <2> QED BY <2>4 DEF SharedOut
<1> HIDE DEF share, total, n
<1>3. total > 0
  BY DEF total
<1>4. ASSUME NEW i \in 1..(n - 1) PROVE share[i] * total - d * b[order[i]] \in (1 - total)..0
  <2>1. b[order[i]] \in Nat
    BY <1>1
  <2>2. PICK a \in Nat : a = d * b[order[i]]
    BY <2>1
  <2>3. PICK q \in Int : q = share[i] /\ q = a \div total
    BY <1>1, <1>2, <2>2
  <2>4. a - total * q \in 0..(total - 1)
    <3>1. a \in Int /\ total \in Nat \ {0}
      BY <1>2, <1>3
    <3>2. a - total * (a \div total) \in 0..(total - 1)
      BY <3>1, RoundedDown
    <3> QED BY <2>3, <3>2
  <2>5. PICK m \in Int : m = total * q
    BY <1>2
  <2>6. q * total = m
    BY <1>2, <2>5
  <2>7. a - m \in 0..(total - 1) => m - a \in (1 - total)..0
    BY <1>2
  <2> QED BY <2>2, <2>3, <2>4, <2>5, <2>6, <2>7
<1> QED BY <1>1, <1>2, <1>3, <1>4 DEF FairlyShared, share, total, n

\* By how much the supply changes.
LEMMA ChangeIs ==
    ASSUME balances \in Holdings, value \in Nat \ {0}, NEW new \in Nat
    PROVE  /\ Change(new) \in Nat
           /\ new < value => Change(new) <= SumFunction(balances)
<1>1. SumFunction(balances) \in Nat
  BY SupplyOf
<1>2. PICK s \in Nat, r \in Nat : /\ s = SumFunction(balances)
                                  /\ r = RevaluedSupply(SumFunction(balances), value, new)
  BY <1>1, RevaluedIs
<1>3. new < value => r <= s
  BY <1>2, RevaluedIs
<1>4. Change(new) = IF r - s < 0 THEN -(r - s) ELSE r - s
  BY <1>2 DEF Change
<1> QED BY <1>2, <1>3, <1>4

\* Enough is burnt of nobody but the last holder, of whom one less than the others' number
\* may be missing.
LEMMA WithinRounding ==
    ASSUME NEW x \in Nat, NEW total \in Nat \ {0}, NEW d \in 0..total, NEW held \in Nat,
           NEW n \in Nat \ {0}, x * total - d * held \in 0..((total - 1) * (n - 1))
    PROVE  x <= held + (IF n > 2 THEN n - 2 ELSE 0)
<1>1. d * held <= total * held
  OBVIOUS
<1>2. (total - 1) * (n - 1) = total * (n - 1) - (n - 1)
  OBVIOUS
<1>3. PICK y \in Int, z \in Int, w \in Int, v \in Int :
        y = x * total /\ z = d * held /\ w = total * held /\ v = total * (n - 1)
  OBVIOUS
<1>4. y <= w + v - (n - 1)
  <2>1. y - z \in 0..(v - (n - 1)) /\ z <= w
    BY <1>1, <1>2, <1>3
  <2> QED BY <2>1
<1>5. CASE n = 1
  <2>1. v = 0
    BY <1>3, <1>5
  <2>2. y <= w
    BY <1>4, <1>5, <2>1
  <2>3. CASE x > held
    <3>1. x * total >= (held + 1) * total
      BY <2>3
    <3>2. (held + 1) * total = total * held + total
      OBVIOUS
    <3>3. y >= w + total
      BY <1>3, <3>1, <3>2
    <3> QED BY <2>2, <3>3
  <2> QED BY <1>5, <2>3
<1>6. CASE n # 1
  <2>1. CASE x >= held + (n - 1)
    <3>1. x * total >= (held + (n - 1)) * total
      BY <2>1
    <3>2. (held + (n - 1)) * total = total * held + total * (n - 1)
      OBVIOUS
    <3>3. y >= w + v
      BY <1>3, <3>1, <3>2
    <3> QED BY <1>4, <1>6, <3>3
  <2> QED BY <1>6, <2>1
<1> QED BY <1>5, <1>6

\* No arx is lost in the distribution, it is fair, and who cannot pay lacks the rounding.
LEMMA DistributionIsFair ==
    ASSUME balances \in Holdings, value \in Nat
    PROVE  SharesSumToDelta /\ SharesAreFair /\ ShortfallIsRounding
<1> DEFINE total == SumFunction(balances)
<1>1. ASSUME value > 0, total > 0, NEW new \in 0..MaxValue, NEW order \in Orders(balances)
      PROVE  LET share == Shares(new, order)
                 n == Len(order)
                 d == Change(new)
             IN  /\ SumFunction(share) = d /\ \A i \in DOMAIN share : share[i] >= 0
                 /\ \A i \in DOMAIN order :
                        IF i < n THEN share[i] * total - d * balances[order[i]] \in (1 - total)..0
                        ELSE share[i] * total - d * balances[order[i]] \in 0..(total * (n - 1))
                 /\ new < value =>
                        \A i \in DOMAIN order :
                            share[i] <= balances[order[i]] + IF i = n /\ i > 2 THEN i - 2 ELSE 0
  <2> DEFINE share == Shares(new, order)
             n == Len(order)
             d == Change(new)
  <2>1. new \in Nat /\ value \in Nat \ {0}
    BY <1>1, PartsAssumption
  <2>2. d \in Nat /\ (new < value => d <= total)
    BY <2>1, ChangeIs
  <2>3. share = ProRata(balances, order, d)
    BY DEF Shares
  <2> HIDE DEF share, d
  <2>4. /\ total \in Nat \ {0} /\ n \in Nat \ {0} /\ DOMAIN order = 1..n
        /\ \A i \in 1..n : order[i] \in Holder /\ balances[order[i]] \in Nat /\ share[i] \in Nat
        /\ DOMAIN share = 1..n /\ SumFunction(share) = d
        /\ \A i \in 1..(n - 1) : share[i] * total - d * balances[order[i]] \in (1 - total)..0
        /\ share[n] * total - d * balances[order[n]] \in 0..((total - 1) * (n - 1))
    <3>1. FairlyShared(balances, order, d, total, share)
      BY <1>1, <2>2, <2>3, HoldersShares
    <3> HIDE DEF total
    <3> QED BY <3>1 DEF FairlyShared
  <2> HIDE DEF total, n
  <2>5. ASSUME NEW i \in 1..n
        PROVE  IF i < n THEN share[i] * total - d * balances[order[i]] \in (1 - total)..0
               ELSE share[i] * total - d * balances[order[i]] \in 0..(total * (n - 1))
    <3>1. CASE i < n
      <4>1. i \in 1..(n - 1)
        BY <2>4, <3>1
      <4> QED BY <2>4, <3>1, <4>1
    <3>2. CASE i = n
      <4>1. (total - 1) * (n - 1) = total * (n - 1) - (n - 1)
        BY <2>4
      <4>2. PICK e \in Int, v \in Int :
               e = share[n] * total - d * balances[order[n]] /\ v = total * (n - 1)
        BY <2>4
      <4>3. e \in 0..(v - (n - 1))
        BY <2>4, <4>1, <4>2
      <4>4. e \in 0..v
        BY <2>4, <4>3
      <4> QED BY <2>4, <3>2, <4>2, <4>4
    <3> QED BY <2>4, <3>1, <3>2
  <2>6. ASSUME new < value, NEW i \in 1..n
        PROVE  share[i] <= balances[order[i]] + IF i = n /\ i > 2 THEN i - 2 ELSE 0
    <3>1. PICK x \in Nat, held \in Nat : x = share[i] /\ held = balances[order[i]]
      BY <2>4
    <3>2. d \in 0..total
      BY <2>2, <2>4, <2>6
    <3>3. CASE i < n
      <4>1. i \in 1..(n - 1)
        BY <2>4, <3>3
      <4>2. x * total - d * held \in (1 - total)..0
        BY <2>4, <3>1, <4>1
      <4>3. x <= held
        <5>1. PICK y \in Int, z \in Int, w \in Int :
                y = x * total /\ z = d * held /\ w = total * held
          BY <2>4, <3>2
        <5>2. z <= w
          BY <2>4, <3>2, <5>1
        <5>3. y <= z
          BY <2>4, <4>2, <5>1
        <5>4. CASE x > held
          <6>1. x * total >= (held + 1) * total
            BY <2>4, <5>4
          <6>2. (held + 1) * total = total * held + total
            BY <2>4
          <6>3. y >= w + total
            BY <5>1, <6>1, <6>2
          <6> QED BY <2>4, <5>2, <5>3, <6>3
        <5> QED BY <5>4
      <4> QED BY <3>1, <3>3, <4>3
    <3>4. CASE i = n
      <4>1. x * total - d * held \in 0..((total - 1) * (n - 1))
        BY <2>4, <3>1, <3>4
      <4>2. x <= held + (IF n > 2 THEN n - 2 ELSE 0)
        BY <2>4, <3>2, <4>1, WithinRounding
      <4> QED BY <3>1, <3>4, <4>2
    <3> QED BY <2>4, <3>3, <3>4
  <2>7. \A i \in DOMAIN share : share[i] >= 0
    BY <2>4
  <2> QED BY <2>4, <2>5, <2>6, <2>7 DEF share, d, total, n
<1>2. SharesSumToDelta
  BY <1>1 DEF SharesSumToDelta, Revaluations
<1>3. SharesAreFair
  BY <1>1 DEF SharesAreFair, Revaluations
<1>4. ShortfallIsRounding
  BY <1>1 DEF ShortfallIsRounding, Revaluations
<1> QED BY <1>2, <1>3, <1>4

Applying == INSTANCE SequenceFolds WITH op <- ApplyEntry

\* The sum of a finite number of integers, and of natural numbers.
LEMMA SumOfIntegers ==
    ASSUME NEW f, IsFiniteSet(DOMAIN f), \A x \in DOMAIN f : f[x] \in Int
    PROVE  SumFunction(f) \in Int
<1>1. Tallying!Sum(f, DOMAIN f) \in Int
  BY SumsAre, Tallying!SumAny
<1> QED
  BY <1>1, SumsAre DEF SumFunction

\* A sum of natural numbers is one, and at least each of them.
LEMMA SumOfNaturals ==
    ASSUME NEW f, IsFiniteSet(DOMAIN f), \A x \in DOMAIN f : f[x] \in Nat
    PROVE  /\ SumFunction(f) \in Nat
           /\ \A x \in DOMAIN f : f[x] <= SumFunction(f)
           /\ (\A x \in DOMAIN f : f[x] = 0) => SumFunction(f) = 0
<1>1. /\ Tallying!Sum(f, DOMAIN f) \in Nat
      /\ (\A x \in DOMAIN f : f[x] = 0) => Tallying!Sum(f, DOMAIN f) = 0
  BY SumsAre, Tallying!SumOfNaturals
<1>2. \A x \in DOMAIN f : f[x] <= Tallying!Sum(f, DOMAIN f)
  BY SumsAre, Tallying!SumBounds
<1> QED
  BY <1>1, <1>2, SumsAre DEF SumFunction

\* One number of a sum changes.
LEMMA SumChange ==
    ASSUME NEW f, NEW g, IsFiniteSet(DOMAIN f), DOMAIN g = DOMAIN f, NEW x \in DOMAIN f,
           \A y \in DOMAIN f : f[y] \in Int /\ g[y] \in Int,
           \A y \in DOMAIN f \ {x} : f[y] = g[y]
    PROVE  SumFunction(g) = SumFunction(f) + (g[x] - f[x])
<1>1. PICK S : S = DOMAIN f
  OBVIOUS
<1>2. Tallying!Sum(g, S) = Tallying!Sum(f, S) + (g[x] - f[x])
  BY <1>1, SumsAre, Tallying!SumChange
<1> QED
  BY <1>1, <1>2, SumsAre DEF SumFunction

\* A sum with one number more.
LEMMA SumGrows ==
    ASSUME NEW f, NEW g, IsFiniteSet(DOMAIN f), NEW x, x \notin DOMAIN f,
           DOMAIN g = DOMAIN f \cup {x},
           \A y \in DOMAIN f : f[y] \in Int /\ g[y] = f[y], g[x] \in Int
    PROVE  SumFunction(g) = SumFunction(f) + g[x]
<1>1. PICK S : S = DOMAIN f
  OBVIOUS
<1>2. PICK T : T = S \cup {x}
  OBVIOUS
<1>3. IsFiniteSet(T) /\ T \ {x} = S /\ x \in T
  BY <1>1, <1>2, FS_AddElement
<1>4. \A y \in T : g[y] \in Int
  BY <1>1, <1>2
<1>5. Tallying!Sum(g, T) = g[x] + Tallying!Sum(g, S)
  BY <1>3, <1>4, SumsAre, Tallying!SumAny
<1>6. Tallying!Sum(g, S) = Tallying!Sum(f, S)
  BY <1>1, SumsAre, Tallying!SumSame
<1>7. Tallying!Sum(f, S) \in Int
  BY <1>1, SumsAre, Tallying!SumAny
<1> QED
  BY <1>1, <1>2, <1>5, <1>6, <1>7, SumsAre DEF SumFunction

\* The same numbers have the same sum.
LEMMA SumSame ==
    ASSUME NEW f, NEW g, IsFiniteSet(DOMAIN f), DOMAIN g = DOMAIN f,
           \A x \in DOMAIN f : g[x] = f[x]
    PROVE  SumFunction(g) = SumFunction(f)
<1>1. PICK S : S = DOMAIN f
  OBVIOUS
<1>2. Tallying!Sum(g, S) = Tallying!Sum(f, S)
  BY <1>1, SumsAre, Tallying!SumSame
<1> QED
  BY <1>1, <1>2, SumsAre DEF SumFunction
Posting == [holder : Holder, amount : Int]
Applied == [balances : Holdings, ok : BOOLEAN]

\* Apply is a fold, so induction over its entries applies.
LEMMA ApplyIsFold ==
    ASSUME NEW b
    PROVE  /\ Apply(b, <<>>) = [balances |-> b, ok |-> TRUE]
           /\ \A S : \A s \in Seq(S) : \A e : Apply(b, Append(s, e)) = ApplyEntry(Apply(b, s), e)
           /\ \A S, T : \A s \in Seq(S) :
                [balances |-> b, ok |-> TRUE] \in T /\ (\A t \in T, e \in S : ApplyEntry(t, e) \in T)
                    => Apply(b, s) \in T
<1>1. PICK base : base = [balances |-> b, ok |-> TRUE]
  OBVIOUS
<1>2. \A e : Apply(b, e) = Applying!Fold(base, e)
  BY <1>1 DEF Apply, Applying!Fold, FoldLeft, Applying!FoldLeft, MapThenFoldSet,
         Applying!MapThenFoldSet, Max, Applying!Max
<1>3. Applying!Fold(base, <<>>) = base
  BY Applying!FoldEmpty
<1>4. ASSUME NEW S, NEW s \in Seq(S), NEW e
      PROVE  Applying!Fold(base, Append(s, e)) = ApplyEntry(Applying!Fold(base, s), e)
  BY Applying!FoldAppend
<1>5. ASSUME NEW S, NEW T, NEW s \in Seq(S), base \in T, \A t \in T, e \in S : ApplyEntry(t, e) \in T
      PROVE  Applying!Fold(base, s) \in T
  BY <1>5, Applying!FoldKeeps
<1>6. \A S : \A s \in Seq(S) : \A e : Apply(b, Append(s, e)) = ApplyEntry(Apply(b, s), e)
  <2>1. ASSUME NEW S, NEW s \in Seq(S), NEW e
        PROVE  Apply(b, Append(s, e)) = ApplyEntry(Apply(b, s), e)
    BY <1>2, <1>4
  <2> QED
    BY <2>1
<1>7. ASSUME NEW S, NEW T, NEW s \in Seq(S), base \in T, \A t \in T, e \in S : ApplyEntry(t, e) \in T
      PROVE  Apply(b, s) \in T
  BY <1>2, <1>5, <1>7
<1> QED
  BY <1>1, <1>2, <1>3, <1>6, <1>7

\* One entry: applied, or refused because the balance is too small.
LEMMA EntryApplied ==
    ASSUME NEW t \in Applied, NEW e \in Posting
    PROVE  /\ ApplyEntry(t, e) \in Applied
           /\ ApplyEntry(t, e).ok =>
                /\ t.ok
                /\ ApplyEntry(t, e).balances = [t.balances EXCEPT ![e.holder] = @ + e.amount]
<1>1. /\ t.balances \in [Holder -> Nat] /\ e.holder \in Holder /\ e.amount \in Int
      /\ t = [balances |-> t.balances, ok |-> t.ok] /\ t.ok \in BOOLEAN
  BY DEF Applied, Posting, Holdings
<1>2. PICK b, h, n : b = t.balances /\ h = e.holder /\ n = e.amount
  OBVIOUS
<1>3. CASE t.ok /\ b[h] + n >= 0
  <2>1. PICK d : d = [b EXCEPT ![h] = @ + n]
    OBVIOUS
  <2>2. d \in [Holder -> Nat]
    BY <1>1, <1>2, <1>3, <2>1
  <2>3. ApplyEntry(t, e) = [t EXCEPT !.balances[h] = @ + n]
    BY <1>2, <1>3 DEF ApplyEntry
  <2>4. ApplyEntry(t, e) = [balances |-> d, ok |-> TRUE]
    BY <1>1, <1>2, <1>3, <2>1, <2>3
  <2> QED
    BY <1>2, <1>3, <2>1, <2>2, <2>4 DEF Applied, Holdings
<1>4. CASE ~(t.ok /\ b[h] + n >= 0)
  <2>1. ApplyEntry(t, e) = [t EXCEPT !.ok = FALSE]
    BY <1>2, <1>4 DEF ApplyEntry
  <2>2. ApplyEntry(t, e) = [balances |-> b, ok |-> FALSE]
    BY <1>1, <1>2, <2>1
  <2> QED
    BY <1>1, <1>2, <2>2 DEF Applied, Holdings
<1> QED
  BY <1>3, <1>4

\* What Apply returns.
LEMMA ApplyKeeps ==
    ASSUME NEW b \in Holdings, NEW s \in Seq(Posting)
    PROVE  Apply(b, s) \in Applied
<1>1. [balances |-> b, ok |-> TRUE] \in Applied
  BY DEF Applied
<1>2. \A t \in Applied, e \in Posting : ApplyEntry(t, e) \in Applied
  BY EntryApplied
<1> QED
  BY <1>1, <1>2, ApplyIsFold

\* The amounts of a sequence of entries.
Amounts(s) == [i \in DOMAIN s |-> s[i].amount]

\* The sum of one entry more.
LEMMA AmountsGrow ==
    ASSUME NEW s \in Seq(Posting), NEW e \in Posting
    PROVE  /\ SumFunction(Amounts(s)) \in Int
           /\ SumFunction(Amounts(Append(s, e))) = SumFunction(Amounts(s)) + e.amount
<1>1. PICK n, t : n = Len(s) + 1 /\ t = Append(s, e)
  OBVIOUS
<1>2. /\ DOMAIN s = 1..Len(s) /\ Len(s) \in Nat /\ DOMAIN t = DOMAIN s \cup {n} /\ t[n] = e
      /\ n \notin DOMAIN s /\ \A i \in DOMAIN s : t[i] = s[i] /\ s[i] \in Posting
  BY <1>1
<1>3. PICK f, g : f = Amounts(s) /\ g = Amounts(t)
  OBVIOUS
<1>4. /\ DOMAIN f = DOMAIN s /\ DOMAIN g = DOMAIN f \cup {n} /\ n \notin DOMAIN f
      /\ g[n] = e.amount
      /\ \A i \in DOMAIN f : f[i] = s[i].amount /\ g[i] = f[i]
  BY <1>2, <1>3 DEF Amounts
<1>5. IsFiniteSet(DOMAIN f)
  BY <1>2, <1>4, FS_Interval
<1>6. \A x \in Posting : x.amount \in Int
  BY DEF Posting
<1>7. g[n] \in Int /\ \A i \in DOMAIN f : f[i] \in Int
  BY <1>2, <1>4, <1>6
<1>8. SumFunction(f) \in Int /\ SumFunction(g) = SumFunction(f) + g[n]
  BY <1>4, <1>5, <1>7, SumOfIntegers, SumGrows
<1> QED
  BY <1>1, <1>3, <1>4, <1>8

\* One balance changes.
LEMMA SupplyChange ==
    ASSUME NEW b \in Holdings, NEW h \in Holder, NEW n \in Int, b[h] + n \in Nat
    PROVE  /\ [b EXCEPT ![h] = @ + n] \in Holdings
           /\ SumFunction(b) \in Nat
           /\ SumFunction([b EXCEPT ![h] = @ + n]) = SumFunction(b) + n
<1>1. PICK d : d = [b EXCEPT ![h] = @ + n]
  OBVIOUS
<1>2. /\ DOMAIN b = Holder /\ DOMAIN d = Holder /\ d[h] = b[h] + n /\ b[h] \in Nat
      /\ \A k \in Holder : b[k] \in Nat /\ d[k] \in Nat
      /\ \A k \in Holder \ {h} : b[k] = d[k]
      /\ d \in Holdings
  BY <1>1 DEF Holdings
<1>3. SumFunction(b) \in Nat
  BY <1>2, PartsAssumption, SumOfNaturals
<1>4. SumFunction(d) = SumFunction(b) + (d[h] - b[h])
  BY <1>2, PartsAssumption, SumChange
<1>5. PICK v \in Nat, u \in Nat, w \in Int : v = b[h] /\ u = SumFunction(b) /\ w = d[h]
  BY <1>2, <1>3
<1>6. u + (w - v) = u + n
  BY <1>2, <1>5
<1> QED
  BY <1>1, <1>2, <1>3, <1>4, <1>5, <1>6

\* Entries that were all applied change the supply by what they add up to.
LEMMA AppliedSupply ==
    ASSUME NEW b \in Holdings, NEW s \in Seq(Posting), Apply(b, s).ok
    PROVE  /\ SumFunction(b) \in Nat
           /\ SumFunction(Apply(b, s).balances) = SumFunction(b) + SumFunction(Amounts(s))
<1>1. PICK v : v = SumFunction(b)
  OBVIOUS
<1>2. v \in Nat
  <2>1. DOMAIN b = Holder /\ \A h \in Holder : b[h] \in Nat
    BY DEF Holdings
  <2> QED
    BY <1>1, <2>1, PartsAssumption, SumOfNaturals
<1>3. PICK Q : Q = {t \in Seq(Posting) : Apply(b, t).ok =>
                        SumFunction(Apply(b, t).balances) = v + SumFunction(Amounts(t))}
  OBVIOUS
<1>4. <<>> \in Q
  <2>1. PICK t : t = <<>>
    OBVIOUS
  <2>2. t \in Seq(Posting) /\ DOMAIN t = {}
    BY <2>1
  <2>3. PICK f : f = Amounts(t)
    OBVIOUS
  <2>4. DOMAIN f = {}
    BY <2>2, <2>3 DEF Amounts
  <2>5. SumFunction(f) = 0
    BY <2>4, FS_EmptySet, SumOfNaturals
  <2>6. Apply(b, t) = [balances |-> b, ok |-> TRUE]
    BY <2>1, ApplyIsFold
  <2>7. SumFunction(Apply(b, t).balances) = v
    BY <1>1, <2>6
  <2>8. v = v + 0
    BY <1>2
  <2> QED
    BY <1>3, <2>1, <2>2, <2>3, <2>5, <2>7, <2>8
<1>5. ASSUME NEW t \in Seq(Posting), NEW e \in Posting, t \in Q PROVE Append(t, e) \in Q
  <2>1. PICK u, r, x : u = Append(t, e) /\ r = Apply(b, t) /\ x = Apply(b, u)
    OBVIOUS
  <2>2. u \in Seq(Posting)
    BY <2>1
  <2>3. r \in Applied /\ x = ApplyEntry(r, e)
    <3>1. r \in Applied
      BY <2>1, ApplyKeeps
    <3>2. \A S : \A w \in Seq(S) : \A k : Apply(b, Append(w, k)) = ApplyEntry(Apply(b, w), k)
      BY ApplyIsFold
    <3> QED
      BY <2>1, <3>1, <3>2
  <2>4. ASSUME x.ok PROVE SumFunction(x.balances) = v + SumFunction(Amounts(u))
    <3>1. r.ok /\ x.balances = [r.balances EXCEPT ![e.holder] = @ + e.amount] /\ x \in Applied
      BY <2>3, <2>4, EntryApplied
    <3>2. PICK d, h, n : d = r.balances /\ h = e.holder /\ n = e.amount
      OBVIOUS
    <3>3. d \in Holdings /\ h \in Holder /\ n \in Int /\ x.balances \in Holdings
      BY <2>3, <3>1, <3>2 DEF Applied, Posting
    <3>4. d[h] + n \in Nat
      <4>1. x.balances[h] = d[h] + n /\ x.balances[h] \in Nat
        BY <3>1, <3>2, <3>3 DEF Holdings
      <4> QED
        BY <4>1
    <3>5. SumFunction([d EXCEPT ![h] = @ + n]) = SumFunction(d) + n
      BY <3>3, <3>4, SupplyChange
    <3>6. SumFunction(d) = v + SumFunction(Amounts(t))
      BY <1>3, <1>5, <2>1, <3>1, <3>2
    <3>7. SumFunction(Amounts(t)) \in Int /\ SumFunction(Amounts(u)) = SumFunction(Amounts(t)) + n
      BY <2>1, <3>2, AmountsGrow
    <3>8. PICK k \in Int : k = SumFunction(Amounts(t))
      BY <3>7
    <3>9. (v + k) + n = v + (k + n)
      BY <1>2, <3>3
    <3> QED
      BY <3>1, <3>2, <3>5, <3>6, <3>7, <3>8, <3>9
  <2> QED
    BY <1>3, <2>1, <2>2, <2>4
<1>6. s \in Q
  BY <1>4, <1>5, Applying!SequenceInduction
<1> QED
  BY <1>1, <1>2, <1>3, <1>6


\* The sum of the opposites.
Opposites(s) == [i \in DOMAIN s |-> -s[i]]

\* It is the opposite of the sum.
LEMMA SumOfOpposites ==
    ASSUME NEW s \in Seq(Int)
    PROVE  SumFunction(s) \in Int /\ SumFunction(Opposites(s)) = -SumFunction(s)
<1>1. PICK Q : Q = {t \in Seq(Int) : /\ SumFunction(t) \in Int
                                     /\ SumFunction(Opposites(t)) = -SumFunction(t)}
  OBVIOUS
<1>2. <<>> \in Q
  <2>1. PICK t : t = <<>>
    OBVIOUS
  <2>2. t \in Seq(Int) /\ DOMAIN t = {}
    BY <2>1
  <2>3. PICK o : o = Opposites(t)
    OBVIOUS
  <2>4. DOMAIN o = {}
    BY <2>2, <2>3 DEF Opposites
  <2>5. SumFunction(t) = 0 /\ SumFunction(o) = 0
    BY <2>2, <2>4, FS_EmptySet, SumOfNaturals
  <2> QED
    BY <1>1, <2>1, <2>2, <2>3, <2>5
<1>3. ASSUME NEW t \in Seq(Int), NEW e \in Int, t \in Q PROVE Append(t, e) \in Q
  <2>1. PICK n, u : n = Len(t) + 1 /\ u = Append(t, e)
    OBVIOUS
  <2>2. /\ DOMAIN t = 1..Len(t) /\ Len(t) \in Nat /\ DOMAIN u = DOMAIN t \cup {n} /\ u[n] = e
        /\ n \notin DOMAIN t /\ \A i \in DOMAIN t : u[i] = t[i] /\ t[i] \in Int
        /\ u \in Seq(Int)
    BY <2>1
  <2>3. PICK f, g : f = Opposites(t) /\ g = Opposites(u)
    OBVIOUS
  <2>4. /\ DOMAIN f = DOMAIN t /\ DOMAIN g = DOMAIN f \cup {n} /\ n \notin DOMAIN f /\ g[n] = -e
        /\ \A i \in DOMAIN f : f[i] = -t[i] /\ g[i] = f[i]
    BY <2>2, <2>3 DEF Opposites
  <2>5. \A i \in DOMAIN t : -t[i] \in Int
    BY <2>2
  <2>6. IsFiniteSet(DOMAIN t)
    BY <2>2, FS_Interval
  <2>7. SumFunction(u) = SumFunction(t) + u[n]
    BY <2>2, <2>6, SumGrows
  <2>8. SumFunction(g) = SumFunction(f) + g[n]
    <3>1. g[n] \in Int
      BY <2>4
    <3>2. \A i \in DOMAIN f : f[i] \in Int /\ g[i] = f[i]
      BY <2>4, <2>5
    <3>3. IsFiniteSet(DOMAIN f)
      BY <2>4, <2>6
    <3>4. DOMAIN g = DOMAIN f \cup {n} /\ n \notin DOMAIN f
      BY <2>4
    <3> QED
      BY <3>1, <3>2, <3>3, <3>4, SumGrows
  <2>9. PICK k \in Int : k = SumFunction(t)
    BY <1>1, <1>3
  <2>10. SumFunction(f) = -k
    BY <1>1, <1>3, <2>3, <2>9
  <2>11. k + e \in Int /\ (-k) + (-e) = -(k + e)
    BY <2>9
  <2> QED
    BY <1>1, <2>1, <2>2, <2>3, <2>4, <2>7, <2>8, <2>9, <2>10, <2>11
<1>4. s \in Q
  BY <1>2, <1>3, Applying!SequenceInduction
<1> QED
  BY <1>1, <1>4

\* The allocations of a revaluation are postings that add up to the change of the supply.
LEMMA AllocationsAre ==
    ASSUME NEW b \in Holdings, NEW order \in Orders(b), NEW previous \in Nat \ {0}, NEW new \in Nat,
           SumFunction(b) > 0
    PROVE  /\ Allocations(b, order, previous, new) \in Seq(Posting)
           /\ SumFunction(Amounts(Allocations(b, order, previous, new)))
                = RevaluedSupply(SumFunction(b), previous, new) - SumFunction(b)
<1>1. PICK supply, delta, d :
        /\ supply = SumFunction(b) /\ delta = RevaluedSupply(supply, previous, new) - supply
        /\ d = IF delta < 0 THEN -delta ELSE delta
  OBVIOUS
<1>2. supply \in Int /\ delta \in Int /\ d \in Nat
  <2>1. supply \in Nat /\ RevaluedSupply(supply, previous, new) \in Nat
    BY <1>1, SupplyOf, RevaluedIs
  <2> QED BY <1>1, <2>1
<1>3. PICK share, n : share = ProRata(b, order, d) /\ n = Len(order)
  OBVIOUS
<1>4. /\ DOMAIN share = 1..n /\ \A i \in 1..n : share[i] \in Nat /\ order[i] \in Holder
      /\ SumFunction(share) = d /\ n \in Nat /\ DOMAIN order = 1..n
  <2>1. FairlyShared(b, order, d, supply, share)
    BY <1>1, <1>2, <1>3, HoldersShares
  <2> QED BY <1>3, <2>1 DEF FairlyShared
<1>5. PICK e : e = [i \in DOMAIN order |->
                      [holder |-> order[i], amount |-> IF delta < 0 THEN -share[i] ELSE share[i]]]
  OBVIOUS
<1>6. e = Allocations(b, order, previous, new)
  BY <1>1, <1>3, <1>5 DEF Allocations
<1>7. e \in Seq(Posting)
  <2>1. \A i \in 1..n : (IF delta < 0 THEN -share[i] ELSE share[i]) \in Int
    BY <1>4
  <2>2. \A i \in 1..n : e[i] \in Posting
    BY <1>4, <1>5, <2>1 DEF Posting
  <2>3. e \in [1..n -> Posting]
    BY <1>4, <1>5, <2>2
  <2> QED BY <1>4, <2>3
<1>8. PICK a : a = Amounts(e)
  OBVIOUS
<1>9. /\ DOMAIN a = DOMAIN share
      /\ \A i \in DOMAIN share : a[i] = IF delta < 0 THEN -share[i] ELSE share[i]
  BY <1>4, <1>5, <1>8 DEF Amounts
<1>10. IsFiniteSet(DOMAIN share)
  BY <1>4, FS_Interval
<1>11. CASE delta < 0
  <2>1. PICK t : t = [i \in 1..n |-> share[i]]
    OBVIOUS
  <2>2. t \in Seq(Int) /\ DOMAIN t = DOMAIN share /\ \A i \in DOMAIN share : t[i] = share[i]
    BY <1>4, <2>1
  <2>3. PICK o : o = Opposites(t)
    OBVIOUS
  <2>4. DOMAIN o = DOMAIN share /\ \A i \in DOMAIN share : o[i] = a[i]
    BY <1>9, <1>11, <2>2, <2>3 DEF Opposites
  <2>5. SumFunction(a) = SumFunction(o)
    BY <1>9, <1>10, <2>4, SumSame
  <2>6. -d = delta
    BY <1>1, <1>2, <1>11
  <2>7. SumFunction(t) = d
    BY <1>4, <1>10, <2>2, SumSame
  <2>8. SumFunction(o) = -d
    BY <2>2, <2>3, <2>7, SumOfOpposites
  <2> QED BY <1>1, <1>6, <1>7, <1>8, <2>5, <2>6, <2>8
<1>12. CASE ~(delta < 0)
  <2>1. SumFunction(a) = SumFunction(share)
    BY <1>9, <1>10, <1>12, SumSame
  <2> QED BY <1>1, <1>4, <1>6, <1>7, <1>8, <1>12, <2>1
<1> QED BY <1>11, <1>12

\* A revaluation whose debits can all be paid makes the supply what the value makes it.
LEMMA SupplyRevalued ==
    ASSUME NEW b \in Holdings, NEW order \in Orders(b), NEW previous \in Nat \ {0}, NEW new \in Nat,
           SumFunction(b) > 0, Apply(b, Allocations(b, order, previous, new)).ok
    PROVE  SumFunction(Apply(b, Allocations(b, order, previous, new)).balances)
                = RevaluedSupply(SumFunction(b), previous, new)
<1>1. PICK s : s = Allocations(b, order, previous, new)
  OBVIOUS
<1>2. /\ s \in Seq(Posting)
      /\ SumFunction(Amounts(s)) = RevaluedSupply(SumFunction(b), previous, new) - SumFunction(b)
  BY <1>1, AllocationsAre
<1>3. SumFunction(Apply(b, s).balances) = SumFunction(b) + SumFunction(Amounts(s))
  BY <1>1, <1>2, AppliedSupply
<1>4. PICK u \in Nat, r \in Nat : /\ u = SumFunction(b)
                                  /\ r = RevaluedSupply(SumFunction(b), previous, new)
  <2>1. SumFunction(b) \in Nat
    BY SupplyOf
  <2> QED BY <2>1, RevaluedIs
<1>5. u + (r - u) = r
  OBVIOUS
<1> QED BY <1>1, <1>2, <1>3, <1>4, <1>5

\* Balances are of natural numbers, and so is the value.
SupplyFits == balances \in Holdings /\ value \in Nat

\* They are so at the start.
LEMMA SupplyStarts == MCInit => SupplyFits
<1>1. ASSUME SupplyInit PROVE SupplyFits
  BY <1>1, PartsAssumption DEF SupplyInit, SupplyFits, Holdings
<1>2. ASSUME NoSupply PROVE SupplyFits
  BY <1>2 DEF NoSupply, SupplyFits, Holdings
<1> QED BY <1>1, <1>2 DEF MCInit

\* A step of the balances is a revaluation, which keeps them natural numbers, and makes the
\* supply follow the value.
LEMMA SupplyStep ==
    ASSUME SupplyFits,
           [MCNext]_<<about, question, supplyVars, pagesVars, sessionVars, govVars, registryVars>>
    PROVE  /\ SupplyFits'
           /\ [\A order \in Orders(balances) :
                 LET result == Apply(balances, Allocations(balances, order, value, value'))
                 IN  result.ok /\ balances' = result.balances =>
                       SumFunction(balances')
                           = RevaluedSupply(SumFunction(balances), value, value')]_supplyVars
<1>1. CASE UNCHANGED supplyVars
  <2>1. balances' = balances /\ value' = value
    BY <1>1 DEF supplyVars
  <2>2. SupplyFits'
    BY <2>1 DEF SupplyFits, Holdings
  <2> QED BY <1>1, <2>2
<1>2. CASE SupplyNext
  <2>1. PICK new \in 0..MaxValue, order \in Orders(balances) : Revalue(new, order)
    BY <1>2 DEF SupplyNext
  <2>2. new \in Nat /\ value \in Nat \ {0} /\ balances \in Holdings /\ SumFunction(balances) > 0
    BY <2>1, PartsAssumption DEF Revalue, SupplyFits
  <2>3. /\ balances' = Apply(balances, Allocations(balances, order, value, new)).balances
        /\ value' = new
    BY <2>1 DEF Revalue
  <2>4. Allocations(balances, order, value, new) \in Seq(Posting)
    BY <2>2, AllocationsAre
  <2>5. Apply(balances, Allocations(balances, order, value, new)) \in Applied
    BY <2>2, <2>4, ApplyKeeps
  <2>6. balances' \in Holdings
    BY <2>3, <2>5 DEF Applied
  <2>7. SupplyFits'
    BY <2>2, <2>3, <2>6 DEF SupplyFits, Holdings
  <2>8. ASSUME NEW o \in Orders(balances),
               Apply(balances, Allocations(balances, o, value, value')).ok,
               balances' = Apply(balances, Allocations(balances, o, value, value')).balances
        PROVE  SumFunction(balances') = RevaluedSupply(SumFunction(balances), value, value')
    BY <2>2, <2>3, <2>8, SupplyRevalued
  <2> QED BY <2>7, <2>8
<1>3. UNCHANGED supplyVars \/ SupplyNext
  BY DEF MCNext, PagesStep
<1> QED BY <1>1, <1>2, <1>3

\* A part of an amount is no more than the amount.
LEMMA PartOfAmount ==
    ASSUME NEW a \in Nat, NEW u \in Nat \ {0}, NEW k \in 0..u
    PROVE  (a * k) \div u \in 0..a
<1>1. PICK x \in Nat : x = a * k
  OBVIOUS
<1>2. x <= u * a
  <2>1. a * k <= a * u
    OBVIOUS
  <2> QED BY <1>1, <2>1
<1>3. PICK q \in Nat : q = x \div u /\ u * q <= x
  <2>1. x \in Int /\ x >= 0
    OBVIOUS
  <2>2. PICK q \in Int, r \in Int : q = x \div u /\ r = u * q
    BY <2>1, RoundedDown
  <2>3. x - r \in 0..(u - 1) /\ q \in Nat
    BY <2>1, <2>2, RoundedDown
  <2> QED BY <2>2, <2>3
<1>4. q <= a
  <2>1. CASE q > a
    <3>1. u * q >= u * (a + 1)
      BY <2>1
    <3>2. u * (a + 1) = u * a + u
      OBVIOUS
    <3>3. PICK y \in Int, z \in Int : y = u * q /\ z = u * a
      OBVIOUS
    <3>4. y >= z + u /\ y <= z
      BY <1>2, <1>3, <3>1, <3>2, <3>3
    <3> QED BY <3>4
  <2> QED BY <2>1
<1> QED BY <1>1, <1>3, <1>4

\* What rounding down loses of two amounts is less than two.
LEMMA PartsOfAmounts ==
    ASSUME NEW a \in Nat, NEW b \in Nat, NEW u \in Nat \ {0}
    PROVE  /\ (a \div u) + (b \div u) \in {((a + b) \div u) - 1, (a + b) \div u}
           /\ a >= b => a \div u >= b \div u
<1>1. \A x \in Nat : \E q \in Nat : q = x \div u /\ u * q <= x /\ x < u * q + u
  <2> TAKE x \in Nat
  <2>1. x \in Int /\ x >= 0
    OBVIOUS
  <2>2. PICK q \in Int, r \in Int : q = x \div u /\ r = u * q
    BY <2>1, RoundedDown
  <2>3. x - r \in 0..(u - 1) /\ q \in Nat
    BY <2>1, <2>2, RoundedDown
  <2>4. r <= x /\ x < r + u
    BY <2>3
  <2> QED BY <2>2, <2>3, <2>4
<1>2. PICK p \in Nat : p = a \div u /\ u * p <= a /\ a < u * p + u
  BY <1>1
<1>3. PICK q \in Nat : q = b \div u /\ u * q <= b /\ b < u * q + u
  BY <1>1
<1>4. PICK c \in Nat : c = a + b
  OBVIOUS
<1>5. PICK r \in Nat : r = c \div u /\ u * r <= c /\ c < u * r + u
  BY <1>1
<1>6. PICK x \in Int, y \in Int, z \in Int : x = u * p /\ y = u * q /\ z = u * r
  OBVIOUS
<1>7. /\ x <= a /\ a < x + u /\ y <= b /\ b < y + u /\ z <= c /\ c < z + u
  BY <1>2, <1>3, <1>5, <1>6
<1>8. u * (p + q) = x + y
  BY <1>6
<1>9. p + q <= r
  <2>1. CASE p + q >= r + 1
    <3>1. u * (p + q) >= u * (r + 1)
      BY <2>1
    <3>2. u * (r + 1) = z + u
      BY <1>6
    <3>3. x + y >= z + u
      BY <1>8, <3>1, <3>2
    <3> QED BY <1>4, <1>7, <3>3
  <2> QED BY <2>1
<1>10. p + q >= r - 1
  <2>1. CASE r >= p + q + 2
    <3>1. u * r >= u * (p + q + 2)
      BY <2>1
    <3>2. u * (p + q + 2) = u * (p + q) + 2 * u
      OBVIOUS
    <3>3. z >= x + y + 2 * u
      BY <1>6, <1>8, <3>1, <3>2
    <3> QED BY <1>4, <1>7, <3>3
  <2> QED BY <2>1
<1>11. a >= b => p >= q
  <2>1. CASE q >= p + 1
    <3>1. u * q >= u * (p + 1)
      BY <2>1
    <3>2. u * (p + 1) = x + u
      BY <1>6
    <3>3. y >= x + u
      BY <1>6, <3>1, <3>2
    <3> QED BY <1>7, <3>3
  <2> QED BY <2>1
<1> QED BY <1>2, <1>3, <1>4, <1>5, <1>9, <1>10, <1>11

\* What a pool is divided into by weights: all of it, a heavier weight gets no less, and the
\* last one no less than its part.
WellShared(pool, weights, payments) ==
    LET last == Len(weights)
    IN  /\ SumFunction(payments) = pool
        /\ \A i, j \in DOMAIN payments :
              /\ payments[i] >= 0
              /\ i < last /\ j < last /\ weights[i] >= weights[j] => payments[i] >= payments[j]
        /\ payments # <<>> => payments[last] * SumFunction(weights) >= pool * weights[last]

\* It is what distributeByWeight does.
LEMMA PoolIsShared ==
    ASSUME NEW pool \in Nat, NEW weights \in Seq(Nat), weights # <<>>,
           pool > 0 => SumFunction(weights) # 0
    PROVE  WellShared(pool, weights, DistributeByWeight(pool, weights))
<1> DEFINE n == Len(weights)
           order == [i \in DOMAIN weights |-> i]
           total == SumFunction(weights)
           share == ProRata(weights, order, pool)
<1>1. CASE pool <= 0
  <2>1. DistributeByWeight(pool, weights) = <<>> /\ pool = 0
    BY <1>1 DEF DistributeByWeight
  <2>2. PICK none : none = <<>> /\ DOMAIN none = {}
    OBVIOUS
  <2>3. SumFunction(none) = 0
    BY <2>2, FS_EmptySet, SumOfNaturals
  <2>4. WellShared(pool, weights, none)
    BY <2>1, <2>2, <2>3 DEF WellShared
  <2> QED BY <2>1, <2>2, <2>4
<1>2. CASE pool > 0
  <2>1. /\ n \in Nat \ {0} /\ DOMAIN weights = 1..n /\ \A i \in 1..n : weights[i] \in Nat
    OBVIOUS
  <2>2. /\ DOMAIN order = 1..n /\ Len(order) = n /\ \A i \in 1..n : order[i] = i
        /\ ToSet(order) = 1..n
    <3>1. DOMAIN order = 1..n /\ \A i \in 1..n : order[i] = i
      BY <2>1
    <3>2. Len(order) = n
      BY <2>1
    <3>3. ToSet(order) = 1..n
      BY <3>1 DEF ToSet
    <3> QED BY <3>1, <3>2, <3>3
  <2> HIDE DEF order, n
  <2>3. SumFunctionOnSet(weights, ToSet(order)) = total
    BY <2>1, <2>2 DEF SumFunction
  <2>4. total \in Nat /\ total > 0
    <3>1. IsFiniteSet(DOMAIN weights)
      BY <2>1, FS_Interval
    <3>2. total \in Nat
      BY <2>1, <3>1, SumOfNaturals
    <3> QED BY <1>2, <3>2
  <2> HIDE DEF total
  <2>5. SharedOut(weights, order, pool, total)
    <3>1. \A i, j \in 1..n : i # j => order[i] # order[j]
      BY <2>2
    <3>2. \A i \in 1..n : weights[order[i]] \in Nat
      BY <2>1, <2>2
    <3>3. SharedOut(weights, order, pool, SumFunctionOnSet(weights, ToSet(order)))
      BY <2>1, <2>2, <2>3, <2>4, <3>1, <3>2, SharesAre
    <3> QED BY <2>3, <3>3
  <2>6. /\ DOMAIN share = 1..n /\ SumFunction(share) = pool
        /\ \A i \in 1..n : share[i] \in Nat
        /\ \A i \in 1..(n - 1) : share[i] = (pool * weights[i]) \div total
        /\ share[n] * total - pool * weights[n] >= 0
    <3> HIDE DEF share
    <3>1. /\ DOMAIN share = 1..n /\ SumFunction(share) = pool
          /\ \A i \in 1..n : share[i] \in Nat
          /\ \A i \in 1..(n - 1) : share[i] = (pool * weights[order[i]]) \div total
          /\ share[n] * total - pool * weights[order[n]] \in 0..((total - 1) * (n - 1))
      BY <2>2, <2>5 DEF SharedOut, share
    <3>2. \A i \in 1..n : order[i] = i
      BY <2>2
    <3>3. n \in 1..n /\ \A i \in 1..(n - 1) : i \in 1..n
      BY <2>1
    <3>4. \A i \in 1..(n - 1) : share[i] = (pool * weights[i]) \div total
      BY <3>1, <3>2, <3>3
    <3>5. share[n] * total - pool * weights[n] \in 0..((total - 1) * (n - 1))
      BY <3>1, <3>2, <3>3
    <3>6. share[n] * total - pool * weights[n] >= 0
      BY <3>5
    <3> QED BY <3>1, <3>4, <3>6
  <2>7. DistributeByWeight(pool, weights) = share
    BY <1>2 DEF DistributeByWeight, order
  <2> HIDE DEF share
  <2>8. ASSUME NEW i \in 1..n, NEW j \in 1..n, i < n, j < n, weights[i] >= weights[j]
        PROVE  share[i] >= share[j]
    <3>1. i \in 1..(n - 1) /\ j \in 1..(n - 1)
      BY <2>1, <2>8
    <3>2. PICK v \in Nat, w \in Nat : v = weights[i] /\ w = weights[j]
      BY <2>1
    <3>3. PICK x \in Nat, y \in Nat : x = pool * v /\ y = pool * w /\ x >= y
      <4>1. v >= w
        BY <2>8, <3>2
      <4>2. pool * v >= pool * w /\ pool * v \in Nat /\ pool * w \in Nat
        BY <4>1
      <4> QED BY <4>2
    <3>4. x \div total >= y \div total
      <4>1. total \in Nat \ {0}
        BY <2>4
      <4> QED BY <3>3, <4>1, PartsOfAmounts
    <3> QED BY <2>6, <3>1, <3>2, <3>3, <3>4
  <2>9. share[n] * total >= pool * weights[n]
    <3>1. PICK s \in Nat, w \in Nat : s = share[n] /\ w = weights[n]
      BY <2>1, <2>6
    <3>2. s * total \in Int /\ pool * w \in Int
      BY <2>4
    <3> QED BY <2>6, <3>1, <3>2
  <2>10. WellShared(pool, weights, share)
    <3>1. Len(weights) = n /\ SumFunction(weights) = total
      BY DEF n, total
    <3> QED BY <2>6, <2>8, <2>9, <3>1 DEF WellShared
  <2> QED BY <2>7, <2>10
<1> QED BY <1>1, <1>2

\* The fee at a rate of at most one.
LEMMA FeeAt ==
    ASSUME NEW arx \in Nat, NEW rate \in 0..RateUnit
    PROVE  MulRate(arx, rate) = (arx * rate) \div RateUnit /\ MulRate(arx, rate) \in 0..arx
<1>1. RateUnit \in Nat \ {0}
  BY MoneyAssumption
<1>2. PICK x \in Nat : x = arx * rate
  BY <1>1
<1>3. Magnitude(x) = x /\ ~(x < 0)
  BY DEF Magnitude
<1>4. Quotient(x, RateUnit) = x \div RateUnit
  BY <1>3 DEF Quotient, WithSign
<1>5. (arx * rate) \div RateUnit \in 0..arx
  BY <1>1, PartOfAmount
<1> QED BY <1>2, <1>4, <1>5 DEF MulRate

\* Two processes pay what one of their joint worth does, or one arx less.
LEMMA FeesAdd ==
    ASSUME NEW arx \in Nat, NEW rate \in 0..RateUnit, NEW part \in 0..arx
    PROVE  MulRate(part, rate) + MulRate(arx - part, rate)
                \in {MulRate(arx, rate) - 1, MulRate(arx, rate)}
<1>1. RateUnit \in Nat \ {0}
  BY MoneyAssumption
<1>2. part \in Nat /\ arx - part \in Nat /\ rate \in Nat
  BY <1>1
<1>3. PICK x \in Nat, y \in Nat : x = part * rate /\ y = (arx - part) * rate
  BY <1>2
<1>4. x + y = arx * rate
  <2>1. part * rate + (arx - part) * rate = arx * rate
    BY <1>2
  <2> QED BY <1>3, <2>1
<1>5. (x \div RateUnit) + (y \div RateUnit)
        \in {((x + y) \div RateUnit) - 1, (x + y) \div RateUnit}
  BY <1>1, PartsOfAmounts
<1>6. /\ MulRate(part, rate) = x \div RateUnit /\ MulRate(arx - part, rate) = y \div RateUnit
      /\ MulRate(arx, rate) = (x + y) \div RateUnit
  BY <1>2, <1>3, <1>4, FeeAt
<1> QED BY <1>5, <1>6

\* The questions about fees: amounts, and rates, waivers and shares of at most one.
FeeFits(q) ==
    /\ q.arx \in Nat /\ q.rate \in 0..RateUnit /\ q.waived \in 0..ShareUnit
    /\ q.share \in 0..ShareUnit /\ q.weights \in Seq(Nat)

\* A settlement takes a fee within the amount, and shares it between AST and the nodes.
LEMMA SettledIsShared ==
    ASSUME NEW arx \in Nat, NEW rate \in 0..RateUnit, NEW waived \in 0..ShareUnit,
           NEW nodesShare \in 0..ShareUnit, NEW weights \in Seq(Nat),
           Settled(arx, rate, waived, nodesShare, weights).code = "settled"
    PROVE  LET r == Settled(arx, rate, waived, nodesShare, weights)
           IN  /\ r.fee \in 0..arx /\ r.ast \in 0..r.fee /\ r.nodes + r.ast = r.fee
               /\ WellShared(r.nodes, weights, r.payments)
<1>1. ShareUnit \in Nat \ {0}
  BY MoneyAssumption
<1>2. PICK gross \in 0..arx : gross = MulRate(arx, rate)
  BY FeeAt
<1>3. PICK fee \in 0..arx :
        fee = IF waived = 0 THEN gross ELSE (gross * (ShareUnit - waived)) \div ShareUnit
  <2>1. gross \in Nat /\ ShareUnit - waived \in 0..ShareUnit
    BY <1>1
  <2>2. (gross * (ShareUnit - waived)) \div ShareUnit \in 0..gross
    BY <1>1, <2>1, PartOfAmount
  <2>3. (gross * (ShareUnit - waived)) \div ShareUnit \in 0..arx
    BY <2>2
  <2> QED BY <2>3
<1>4. PICK nodes \in 0..fee : nodes = (fee * nodesShare) \div ShareUnit
  <2>1. fee \in Nat
    OBVIOUS
  <2> QED BY <1>1, <2>1, PartOfAmount
<1>5. PICK r : r = Settled(arx, rate, waived, nodesShare, weights)
  OBVIOUS
<1>6. SplitFee(fee, nodesShare) = [nodes |-> nodes, ast |-> fee - nodes]
  BY <1>4 DEF SplitFee
<1>7. /\ weights # <<>> /\ ~(nodes > 0 /\ SumFunction(weights) = 0)
      /\ r = [code |-> "settled", fee |-> fee, nodes |-> nodes, ast |-> fee - nodes,
              payments |-> DistributeByWeight(nodes, weights)]
  <2>1. r = CASE arx <= 0 -> [code |-> "INVALID_VALUATION"]
              [] arx > 0 /\ weights = <<>> -> [code |-> "INVALID_WEIGHTS"]
              [] OTHER ->
                    IF nodes > 0 /\ SumFunction(weights) = 0
                    THEN [code |-> "weights sum to zero"]
                    ELSE [code |-> "settled", fee |-> fee, nodes |-> nodes, ast |-> fee - nodes,
                          payments |-> DistributeByWeight(nodes, weights)]
    <3> DEFINE SettledAs(fees, split) ==
                 CASE arx <= 0 -> [code |-> "INVALID_VALUATION"]
                   [] arx > 0 /\ weights = <<>> -> [code |-> "INVALID_WEIGHTS"]
                   [] OTHER ->
                         IF split.nodes > 0 /\ SumFunction(weights) = 0
                         THEN [code |-> "weights sum to zero"]
                         ELSE [code |-> "settled", fee |-> fees, nodes |-> split.nodes,
                               ast |-> split.ast,
                               payments |-> DistributeByWeight(split.nodes, weights)]
               Fee(g) == IF waived = 0 THEN g ELSE (g * (ShareUnit - waived)) \div ShareUnit
    <3>1. r = SettledAs(Fee(MulRate(arx, rate)), SplitFee(Fee(MulRate(arx, rate)), nodesShare))
      BY <1>5 DEF Settled
    <3>2. Fee(MulRate(arx, rate)) = fee
      BY <1>2, <1>3
    <3> HIDE DEF Fee, SettledAs
    <3>3. r = SettledAs(fee, [nodes |-> nodes, ast |-> fee - nodes])
      BY <1>6, <3>1, <3>2
    <3> QED BY <3>3 DEF SettledAs
  <2>2. r.code = "settled"
    BY <1>5
  <2>3. ~(arx <= 0)
    BY <2>1, <2>2
  <2>4. ~(arx > 0 /\ weights = <<>>)
    BY <2>1, <2>2, <2>3
  <2>5. arx > 0 /\ weights # <<>>
    BY <2>3, <2>4
  <2>6. r = IF nodes > 0 /\ SumFunction(weights) = 0
            THEN [code |-> "weights sum to zero"]
            ELSE [code |-> "settled", fee |-> fee, nodes |-> nodes, ast |-> fee - nodes,
                  payments |-> DistributeByWeight(nodes, weights)]
    BY <2>1, <2>3, <2>4
  <2> QED BY <2>2, <2>5, <2>6
<1>8. WellShared(nodes, weights, DistributeByWeight(nodes, weights))
  <2>1. nodes \in Nat
    OBVIOUS
  <2> QED BY <1>7, <2>1, PoolIsShared
<1>9. /\ r.fee = fee /\ r.nodes = nodes /\ r.ast = fee - nodes
      /\ r.payments = DistributeByWeight(nodes, weights)
  BY <1>7
<1>10. fee \in 0..arx /\ fee - nodes \in 0..fee /\ nodes + (fee - nodes) = fee
  OBVIOUS
<1> QED BY <1>5, <1>8, <1>9, <1>10

\* A fee is within the valuation and shared to the last arx.
LEMMA FeesAreShared ==
    ASSUME about = "fee" => FeeFits(question)
    PROVE  FeeIsShared
<1> SUFFICES ASSUME about = "fee" PROVE FeeIsShared
  BY DEF FeeIsShared
<1>1. /\ question.arx \in Nat /\ question.rate \in 0..RateUnit
      /\ question.waived \in 0..ShareUnit /\ question.share \in 0..ShareUnit
      /\ question.weights \in Seq(Nat)
  BY DEF FeeFits
<1>2. PICK r : r = Settled(question.arx, question.rate, question.waived, question.share,
                           question.weights)
  OBVIOUS
<1>3. ASSUME r.code = "settled"
      PROVE  /\ r.fee \in 0..question.arx /\ r.ast \in 0..r.fee /\ r.nodes + r.ast = r.fee
             /\ WellShared(r.nodes, question.weights, r.payments)
  BY <1>1, <1>2, <1>3, SettledIsShared
<1>4. \A part \in 0..question.arx :
         MulRate(part, question.rate) + MulRate(question.arx - part, question.rate)
            \in {MulRate(question.arx, question.rate) - 1, MulRate(question.arx, question.rate)}
  BY <1>1, FeesAdd
<1> QED BY <1>2, <1>3, <1>4 DEF FeeIsShared, WellShared

\* A list of lists one after the other.
FlattensTo(seqs, flat) ==
    /\ flat[1] = seqs[1]
    /\ \A k \in 2..Len(seqs) : flat[k] = flat[k - 1] \o seqs[k]
    /\ FlattenSeq(seqs) = flat[Len(seqs)]

\* FlattenSeq does that to any lists.
LEMMA FlattenIs ==
    ASSUME NEW S, NEW seqs \in Seq(Seq(S)), Len(seqs) # 0
    PROVE  \E flat : FlattensTo(seqs, flat)
<1> DEFINE n == Len(seqs)
           D == n - 1
           Body(f) == [i \in 1..n |-> IF i = 1 THEN seqs[i] ELSE f[i - 1] \o seqs[i]]
           flat == CHOOSE f : f = Body(f)
<1>1. n \in Nat \ {0} /\ D \in Nat /\ \A i \in 1..n : seqs[i] \in Seq(S)
  OBVIOUS
<1>2. FlattenSeq(seqs) = flat[n]
  BY DEF FlattenSeq
<1> HIDE DEF n
<1>3. PICK H : H = [p \in (1..D) \X Seq(S) |-> p[2] \o seqs[p[1] + 1]]
  OBVIOUS
<1>4. H \in [(1..D) \X Seq(S) -> Seq(S)]
  <2>1. ASSUME NEW k \in 1..D, NEW s \in Seq(S) PROVE s \o seqs[k + 1] \in Seq(S)
    <3>1. seqs[k + 1] \in Seq(S)
      BY <1>1, k + 1 \in 1..n
    <3> QED BY <3>1
  <2> QED BY <1>3, <2>1
<1>5. PICK f \in [0..D -> Seq(S)] : Tallying!Recurses(f, seqs[1], D, H)
  <2>1. seqs[1] \in Seq(S)
    BY <1>1
  <2> QED BY <1>1, <1>4, <2>1, Tallying!RecursionSolves
<1>6. PICK g : g = [i \in 1..n |-> f[i - 1]]
  OBVIOUS
<1>7. g = Body(g)
  <2>1. ASSUME NEW i \in 1..n PROVE g[i] = IF i = 1 THEN seqs[i] ELSE g[i - 1] \o seqs[i]
    <3>1. CASE i = 1
      BY <1>1, <1>5, <1>6, <3>1 DEF Tallying!Recurses
    <3>2. CASE i # 1
      <4>1. i - 1 \in 1..D /\ i - 1 \in 1..n /\ (i - 1) - 1 \in 0..D /\ (i - 1) + 1 = i
        BY <1>1, <3>2
      <4>2. g[i] = f[i - 1] /\ g[i - 1] = f[(i - 1) - 1] /\ f[(i - 1) - 1] \in Seq(S)
        BY <1>6, <4>1
      <4>3. f[i - 1] = H[<<i - 1, f[(i - 1) - 1]>>]
        BY <1>5, <4>1 DEF Tallying!Recurses
      <4>4. PICK s \in Seq(S) : s = f[(i - 1) - 1]
        BY <4>2
      <4>5. H[<<i - 1, s>>] = s \o seqs[i]
        BY <1>3, <4>1
      <4> QED BY <3>2, <4>2, <4>3, <4>4, <4>5
    <3> QED BY <3>1, <3>2
  <2> QED BY <1>6, <2>1
<1>8. flat = Body(flat)
  <2> HIDE DEF Body
  <2> QED BY <1>7
<1> HIDE DEF flat
<1>9. flat[1] = seqs[1]
  BY <1>1, <1>8
<1>10. ASSUME NEW k \in 2..n PROVE flat[k] = flat[k - 1] \o seqs[k]
  <2>1. k \in 1..n /\ k # 1
    BY <1>1
  <2>2. flat[k] = Body(flat)[k]
    BY <1>8, Zenon
  <2> QED BY <2>1, <2>2
<1>11. FlattensTo(seqs, flat)
  BY <1>2, <1>9, <1>10 DEF FlattensTo, n
<1> QED BY <1>11

\* A record as the velocity reads it.
Recordings == {"process_open", "mint_fact", "emission_fact", "revaluation_fact"}
VelocityRow == [kind : Recordings, amount : Int, recent : BOOLEAN]

\* The records of a life are such.
LEMMA VelocityRowIs ==
    ASSUME NEW kind \in Recordings, NEW amount \in Int, NEW recent \in BOOLEAN
    PROVE  [kind |-> kind, amount |-> amount, recent |-> recent] \in VelocityRow
  BY DEF VelocityRow

\* What a row counts.
CountsAs(row) == IF row.kind \in Counted /\ row.recent THEN row.amount ELSE 0

\* The volume of a log is what its records count.
LEMMA VolumeOfOneMore ==
    /\ Volume(<<>>) = 0
    /\ \A log \in Seq(VelocityRow) : Volume(log) \in Int
    /\ \A log \in Seq(VelocityRow), row \in VelocityRow :
          /\ CountsAs(row) \in Int
          /\ Volume(Append(log, row)) = Volume(log) + CountsAs(row)
<1>1. Volume(<<>>) = 0
  <2>1. PICK none : none = <<>> /\ DOMAIN none = {}
    OBVIOUS
  <2>2. PICK f : f = [i \in DOMAIN none |->
                        IF none[i].kind \in Counted /\ none[i].recent THEN none[i].amount ELSE 0]
    OBVIOUS
  <2>3. DOMAIN f = {} /\ Volume(none) = SumFunction(f)
    BY <2>1, <2>2 DEF Volume
  <2>4. SumFunction(f) = 0
    BY <2>3, FS_EmptySet, SumOfNaturals
  <2> QED BY <2>1, <2>3, <2>4
<1>3. ASSUME NEW log \in Seq(VelocityRow) PROVE Volume(log) \in Int
  <2>1. /\ DOMAIN log = 1..Len(log) /\ Len(log) \in Nat
        /\ \A i \in DOMAIN log : CountsAs(log[i]) \in Int
    <3>1. \A x \in VelocityRow : CountsAs(x) \in Int
      BY DEF CountsAs, VelocityRow
    <3> QED BY <3>1
  <2>2. PICK f : f = [i \in DOMAIN log |-> CountsAs(log[i])]
    OBVIOUS
  <2>3. IsFiniteSet(DOMAIN f) /\ \A i \in DOMAIN f : f[i] \in Int
    BY <2>1, <2>2, FS_Interval
  <2>4. SumFunction(f) \in Int
    BY <2>3, SumOfIntegers
  <2> QED BY <2>2, <2>4 DEF Volume, CountsAs
<1>2. ASSUME NEW log \in Seq(VelocityRow), NEW row \in VelocityRow
      PROVE  /\ CountsAs(row) \in Int
             /\ Volume(Append(log, row)) = Volume(log) + CountsAs(row)
  <2>1. PICK n, t : n = Len(log) + 1 /\ t = Append(log, row)
    OBVIOUS
  <2>2. /\ DOMAIN log = 1..Len(log) /\ Len(log) \in Nat /\ DOMAIN t = DOMAIN log \cup {n}
        /\ t[n] = row /\ n \notin DOMAIN log
        /\ \A i \in DOMAIN log : t[i] = log[i] /\ log[i] \in VelocityRow
    BY <2>1
  <2>3. \A x \in VelocityRow : CountsAs(x) \in Int
    BY DEF CountsAs, VelocityRow
  <2>4. PICK f, g : /\ f = [i \in DOMAIN log |-> CountsAs(log[i])]
                    /\ g = [i \in DOMAIN t |-> CountsAs(t[i])]
    OBVIOUS
  <2>5. Volume(log) = SumFunction(f) /\ Volume(t) = SumFunction(g)
    BY <2>4 DEF Volume, CountsAs
  <2>6. /\ DOMAIN f = DOMAIN log /\ DOMAIN g = DOMAIN f \cup {n} /\ n \notin DOMAIN f
        /\ g[n] = CountsAs(row) /\ g[n] \in Int
        /\ \A i \in DOMAIN f : f[i] \in Int /\ g[i] = f[i]
    BY <2>2, <2>3, <2>4
  <2>7. IsFiniteSet(DOMAIN f)
    BY <2>2, <2>6, FS_Interval
  <2>8. SumFunction(f) \in Int
    BY <2>6, <2>7, SumOfIntegers
  <2>9. SumFunction(g) = SumFunction(f) + g[n]
    BY <2>6, <2>7, SumGrows
  <2> QED BY <2>1, <2>3, <2>5, <2>6, <2>8, <2>9
<1> QED BY <1>1, <1>2, <1>3

\* The volume of two logs is that of the one and of the other.
LEMMA VolumeOfBoth ==
    ASSUME NEW log \in Seq(VelocityRow), NEW more \in Seq(VelocityRow)
    PROVE  Volume(log \o more) = Volume(log) + Volume(more)
<1>1. PICK Q : Q = {t \in Seq(VelocityRow) : Volume(log \o t) = Volume(log) + Volume(t)}
  OBVIOUS
<1>2. Volume(log) \in Int
  BY VolumeOfOneMore
<1>3. <<>> \in Q
  <2>0. <<>> \in Seq(VelocityRow)
    OBVIOUS
  <2>1. PICK e : e = <<>> /\ e \in Seq(VelocityRow)
    BY <2>0
  <2>2. log \o e = log
    BY <2>1
  <2>3. Volume(e) = 0
    BY <2>1, VolumeOfOneMore
  <2>4. Volume(log) = Volume(log) + 0
    BY <1>2
  <2> QED BY <1>1, <2>1, <2>2, <2>3, <2>4
<1>4. ASSUME NEW t \in Seq(VelocityRow), NEW x \in VelocityRow, t \in Q PROVE Append(t, x) \in Q
  <2>1. log \o Append(t, x) = Append(log \o t, x) /\ log \o t \in Seq(VelocityRow)
        /\ Append(t, x) \in Seq(VelocityRow)
    OBVIOUS
  <2>2. Volume(Append(log \o t, x)) = Volume(log \o t) + CountsAs(x)
    BY <2>1, VolumeOfOneMore
  <2>3. Volume(Append(t, x)) = Volume(t) + CountsAs(x)
    BY VolumeOfOneMore
  <2>4. Volume(log \o t) = Volume(log) + Volume(t)
    BY <1>1, <1>4
  <2>5. PICK a \in Int, b \in Int, c \in Int : a = Volume(log) /\ b = Volume(t) /\ c = CountsAs(x)
    BY <1>2, VolumeOfOneMore
  <2>6. (a + b) + c = a + (b + c)
    OBVIOUS
  <2> QED BY <1>1, <2>1, <2>2, <2>3, <2>4, <2>5, <2>6
<1>5. more \in Q
  BY <1>3, <1>4, Tallying!SequenceInduction
<1> QED BY <1>1, <1>5

\* A life that does not devalue.
Lived == {life \in [does : {"open", "mint", "revalue"}, value : Nat, before : Nat, old : Nat] :
             life.value >= life.before}

\* What a life is worth, if a record of it of the kinds is recent.
LifeWorth(life, kinds) ==
    IF \E row \in ToSet(Left(life)) : row.recent /\ row.kind \in kinds THEN life.value ELSE 0

\* What a life leaves counts at least what it minted and at most its value three times.
LEMMA LifeCounts ==
    ASSUME NEW life \in Lived
    PROVE  /\ Left(life) \in Seq(VelocityRow)
           /\ LifeWorth(life, {"mint_fact"}) \in Nat /\ LifeWorth(life, Counted) \in Nat
           /\ Volume(Left(life)) \in
                  LifeWorth(life, {"mint_fact"})..(3 * LifeWorth(life, Counted))
<1> DEFINE v == life.value
           old == life.old
<1>1. /\ v \in Nat /\ old \in Nat /\ life.before \in Nat /\ v >= life.before
      /\ life.does \in {"open", "mint", "revalue"}
  BY DEF Lived
<1>a. PICK p : p = [i \in 1..3 |-> i > old]
  OBVIOUS
<1>b. \A i \in 1..3 : p[i] = (i > old) /\ p[i] \in BOOLEAN
  <2>1. ASSUME NEW i \in 1..3 PROVE p[i] = (i > old)
    BY <1>a, Zenon
  <2>2. ASSUME NEW i \in 1..3 PROVE (i > old) \in BOOLEAN
    OBVIOUS
  <2> QED BY <2>1, <2>2, Zenon
<1>2. LifeWorth(life, {"mint_fact"}) \in Nat /\ LifeWorth(life, Counted) \in Nat
  BY <1>1 DEF LifeWorth
<1>3. CASE life.does = "open"
  <2>1. PICK a : a = [kind |-> "process_open", amount |-> v, recent |-> p[1]]
    OBVIOUS
  <2>2. a \in VelocityRow
    BY <1>1, <1>b, <2>1, VelocityRowIs DEF Recordings
  <2>3. Left(life) = <<a>>
    BY <1>3, <1>b, <2>1 DEF Left, Recorded
  <2>4. <<>> \in Seq(VelocityRow) /\ <<a>> = Append(<<>>, a) /\ ToSet(<<a>>) = {a} /\ <<a>> \in Seq(VelocityRow)
    BY <2>2 DEF ToSet
  <2>5. Volume(<<a>>) = CountsAs(a)
    <3>1. Volume(<<a>>) = 0 + CountsAs(a) /\ CountsAs(a) \in Int
      BY <2>2, <2>4, VolumeOfOneMore
    <3> QED BY <3>1
  <2>6. CountsAs(a) = IF 1 > old THEN v ELSE 0
    BY <1>b, <2>1 DEF CountsAs, Counted
  <2>7. LifeWorth(life, Counted) = IF 1 > old THEN v ELSE 0
    BY <1>b, <2>1, <2>3, <2>4 DEF LifeWorth, Counted
  <2>8. LifeWorth(life, {"mint_fact"}) = 0
    BY <1>b, <2>1, <2>3, <2>4 DEF LifeWorth
  <2> QED BY <1>1, <1>2, <2>3, <2>4, <2>5, <2>6, <2>7, <2>8
<1>4. ASSUME NEW a \in VelocityRow, NEW b \in VelocityRow, NEW c \in VelocityRow
      PROVE  /\ <<a, b, c>> \in Seq(VelocityRow) /\ ToSet(<<a, b, c>>) = {a, b, c}
             /\ Volume(<<a, b, c>>) = CountsAs(a) + CountsAs(b) + CountsAs(c)
  <2>1. /\ <<>> \in Seq(VelocityRow) /\ <<a>> \in Seq(VelocityRow) /\ <<a, b>> \in Seq(VelocityRow)
        /\ <<a>> = Append(<<>>, a) /\ <<a, b>> = Append(<<a>>, b)
        /\ <<a, b, c>> = Append(<<a, b>>, c) /\ <<a, b, c>> \in Seq(VelocityRow)
    OBVIOUS
  <2>2. PICK x \in Int, y \in Int, z \in Int : x = CountsAs(a) /\ y = CountsAs(b) /\ z = CountsAs(c)
    BY <2>1, VolumeOfOneMore
  <2>3. Volume(<<a>>) = 0 + x
    BY <2>1, <2>2, VolumeOfOneMore
  <2>4. Volume(<<a, b>>) = (0 + x) + y
    BY <2>1, <2>2, <2>3, VolumeOfOneMore
  <2>5. Volume(<<a, b, c>>) = ((0 + x) + y) + z
    BY <2>1, <2>2, <2>4, VolumeOfOneMore
  <2>6. ((0 + x) + y) + z = x + y + z
    OBVIOUS
  <2>7. ToSet(<<a, b, c>>) = {a, b, c}
    <3>1. DOMAIN <<a, b, c>> = {1, 2, 3}
      OBVIOUS
    <3> QED BY <3>1 DEF ToSet
  <2> QED BY <2>1, <2>2, <2>5, <2>6, <2>7
<1>5. CASE life.does = "mint"
  <2>1. PICK a, b, c : /\ a = [kind |-> "process_open", amount |-> v, recent |-> p[1]]
                       /\ b = [kind |-> "mint_fact", amount |-> v, recent |-> p[2]]
                       /\ c = [kind |-> "emission_fact", amount |-> v, recent |-> p[3]]
    OBVIOUS
  <2>2. a \in VelocityRow /\ b \in VelocityRow /\ c \in VelocityRow
    BY <1>1, <1>b, <2>1, VelocityRowIs DEF Recordings
  <2>3. Left(life) = <<a, b, c>>
    BY <1>5, <1>b, <2>1 DEF Left, Recorded
  <2>4. /\ Left(life) \in Seq(VelocityRow) /\ ToSet(Left(life)) = {a, b, c}
        /\ Volume(Left(life)) = CountsAs(a) + CountsAs(b) + CountsAs(c)
    BY <1>4, <2>2, <2>3
  <2>5. /\ CountsAs(a) = IF 1 > old THEN v ELSE 0
        /\ CountsAs(b) = IF 2 > old THEN v ELSE 0
        /\ CountsAs(c) = IF 3 > old THEN v ELSE 0
    BY <1>b, <2>1 DEF CountsAs, Counted
  <2>6. LifeWorth(life, Counted) = IF 3 > old THEN v ELSE 0
    <3>1. (\E row \in {a, b, c} : row.recent /\ row.kind \in Counted) <=> 3 > old
      BY <1>1, <1>b, <2>1 DEF Counted
    <3> QED BY <2>4, <3>1 DEF LifeWorth
  <2>7. LifeWorth(life, {"mint_fact"}) = IF 2 > old THEN v ELSE 0
    <3>1. (\E row \in {a, b, c} : row.recent /\ row.kind \in {"mint_fact"}) <=> 2 > old
      BY <1>b, <2>1
    <3> QED BY <2>4, <3>1 DEF LifeWorth
  <2> QED BY <1>1, <1>2, <2>4, <2>5, <2>6, <2>7
<1>6. CASE life.does = "revalue"
  <2>1. PICK a, b, c : /\ a = [kind |-> "process_open", amount |-> v, recent |-> p[1]]
                       /\ b = [kind |-> "revaluation_fact", amount |-> v, recent |-> p[2]]
                       /\ c = [kind |-> "emission_fact", amount |-> v - life.before, recent |-> p[3]]
    OBVIOUS
  <2>2. a \in VelocityRow /\ b \in VelocityRow /\ c \in VelocityRow
    BY <1>1, <1>b, <2>1, VelocityRowIs DEF Recordings
  <2>3. Left(life) = <<a, b, c>>
    BY <1>6, <1>b, <2>1 DEF Left, Recorded
  <2>4. /\ Left(life) \in Seq(VelocityRow) /\ ToSet(Left(life)) = {a, b, c}
        /\ Volume(Left(life)) = CountsAs(a) + CountsAs(b) + CountsAs(c)
    BY <1>4, <2>2, <2>3
  <2>5. /\ CountsAs(a) = IF 1 > old THEN v ELSE 0
        /\ CountsAs(b) = 0
        /\ CountsAs(c) = IF 3 > old THEN v - life.before ELSE 0
    BY <1>b, <2>1 DEF CountsAs, Counted
  <2>6. LifeWorth(life, Counted) = IF 3 > old THEN v ELSE 0
    <3>1. (\E row \in {a, b, c} : row.recent /\ row.kind \in Counted) <=> 3 > old
      BY <1>1, <1>b, <2>1 DEF Counted
    <3> QED BY <2>4, <3>1 DEF LifeWorth
  <2>7. LifeWorth(life, {"mint_fact"}) = 0
    <3>1. ~(\E row \in {a, b, c} : row.recent /\ row.kind \in {"mint_fact"})
      BY <1>b, <2>1
    <3> QED BY <2>4, <3>1 DEF LifeWorth
  <2> QED BY <1>1, <1>2, <2>4, <2>5, <2>6, <2>7
<1> QED BY <1>1, <1>3, <1>5, <1>6

\* The velocity counts at least what was minted, and no life more than three times.
LEMMA LivesCount ==
    ASSUME NEW lives \in Seq(Lived)
    PROVE  /\ WorthOf(lives, {"mint_fact"}) \in Nat /\ WorthOf(lives, Counted) \in Nat
           /\ Volume(FlattenSeq([i \in DOMAIN lives |-> Left(lives[i])]))
                \in WorthOf(lives, {"mint_fact"})..(3 * WorthOf(lives, Counted))
<1> DEFINE n == Len(lives)
           seqs == [i \in DOMAIN lives |-> Left(lives[i])]
           minted == [i \in 1..n |-> LifeWorth(lives[i], {"mint_fact"})]
           counted == [i \in 1..n |-> LifeWorth(lives[i], Counted)]
           M(k) == Tallying!Sum(minted, 1..k)
           C(k) == Tallying!Sum(counted, 1..k)
<1>1. n \in Nat /\ DOMAIN lives = 1..n /\ \A i \in 1..n : lives[i] \in Lived
  OBVIOUS
<1>2. WorthOf(lives, {"mint_fact"}) = M(n) /\ WorthOf(lives, Counted) = C(n)
  <2>1. /\ WorthOf(lives, {"mint_fact"}) = SumFunction(minted)
        /\ WorthOf(lives, Counted) = SumFunction(counted)
    BY <1>1 DEF WorthOf, LifeWorth
  <2>2. DOMAIN minted = 1..n /\ DOMAIN counted = 1..n
    OBVIOUS
  <2> HIDE DEF minted, counted, n
  <2> QED BY <2>1, <2>2, SumsAre
<1>3. \A i \in 1..n : /\ seqs[i] = Left(lives[i]) /\ minted[i] = LifeWorth(lives[i], {"mint_fact"})
                      /\ counted[i] = LifeWorth(lives[i], Counted)
  BY <1>1
<1>4. Len(seqs) = n /\ DOMAIN seqs = 1..n
  BY <1>1
<1> HIDE DEF n, seqs, minted, counted
<1>5. \A i \in 1..n : /\ seqs[i] \in Seq(VelocityRow) /\ minted[i] \in Nat /\ counted[i] \in Nat
                      /\ Volume(seqs[i]) \in minted[i]..(3 * counted[i])
  BY <1>1, <1>3, LifeCounts
<1>6. /\ M(0) = 0 /\ \A k \in 0..n : M(k) \in Int
      /\ \A k \in 1..n : M(k) = M(k - 1) + minted[k]
  <2>1. \A i \in 1..n : minted[i] \in Int
    BY <1>5
  <2> QED BY <1>1, <2>1, SumUpTo
<1>7. /\ C(0) = 0 /\ \A k \in 0..n : C(k) \in Int
      /\ \A k \in 1..n : C(k) = C(k - 1) + counted[k]
  <2>1. \A i \in 1..n : counted[i] \in Int
    BY <1>5
  <2> QED BY <1>1, <2>1, SumUpTo
<1>8. M(n) \in Nat /\ C(n) \in Nat
  <2>1. IsFiniteSet(1..n)
    BY <1>1, FS_Interval
  <2> QED BY <1>5, <2>1, SumsAre, Tallying!SumOfNaturals
<1> HIDE DEF M, C
<1>9. CASE n = 0
  <2>1. seqs = <<>>
    <3>1. DOMAIN lives = {}
      BY <1>1, <1>9
    <3> QED BY <3>1 DEF seqs
  <2>2. FlattenSeq(seqs) = <<>>
    BY <2>1 DEF FlattenSeq
  <2>3. Volume(FlattenSeq(seqs)) = 0
    BY <2>2, VolumeOfOneMore
  <2> QED BY <1>2, <1>6, <1>7, <1>8, <1>9, <2>3 DEF seqs
<1>10. CASE n # 0
  <2>1. seqs \in Seq(Seq(VelocityRow))
    <3>1. seqs \in [1..n -> Seq(VelocityRow)]
      <4>1. seqs = [i \in 1..n |-> seqs[i]]
        BY <1>1 DEF seqs
      <4> QED BY <1>5, <4>1
    <3> QED BY <1>1, <3>1
  <2>2. PICK flat : FlattensTo(seqs, flat)
    BY <1>4, <1>10, <2>1, FlattenIs
  <2>3. /\ flat[1] = seqs[1] /\ \A k \in 2..n : flat[k] = flat[k - 1] \o seqs[k]
        /\ FlattenSeq(seqs) = flat[n]
    BY <1>4, <2>2 DEF FlattensTo
  <2> DEFINE Q == {k \in 0..n : k = 0 \/ (flat[k] \in Seq(VelocityRow) /\ Volume(flat[k]) \in M(k)..(3 * C(k)))}
  <2>4. 0 \in Q
    BY <1>1
  <2>5. ASSUME NEW k \in 1..n, k - 1 \in Q PROVE k \in Q
    <3>1. PICK m \in Int, c \in Int, x \in Nat, y \in Nat :
            m = M(k - 1) /\ c = C(k - 1) /\ x = minted[k] /\ y = counted[k]
      <4>1. k - 1 \in 0..n
        BY <1>1
      <4>2. M(k - 1) \in Int /\ C(k - 1) \in Int /\ minted[k] \in Nat /\ counted[k] \in Nat
        BY <1>5, <1>6, <1>7, <4>1
      <4> QED BY <4>2
    <3>2. M(k) = m + x /\ C(k) = c + y
      BY <1>6, <1>7, <3>1
    <3>3. seqs[k] \in Seq(VelocityRow) /\ Volume(seqs[k]) \in x..(3 * y)
      BY <1>5, <3>1
    <3>4. CASE k = 1
      <4>1. m = 0 /\ c = 0
        BY <1>6, <1>7, <3>1, <3>4
      <4>2. flat[k] = seqs[k]
        BY <2>3, <3>4
      <4> QED BY <3>2, <3>3, <4>1, <4>2
    <3>5. CASE k # 1
      <4>1. k \in 2..n /\ k - 1 # 0
        BY <1>1, <3>5
      <4>2. flat[k - 1] \in Seq(VelocityRow) /\ Volume(flat[k - 1]) \in m..(3 * c)
        BY <2>5, <3>1, <4>1
      <4>3. flat[k] = flat[k - 1] \o seqs[k]
        BY <2>3, <4>1
      <4>4. PICK u \in Int, v \in Int : u = Volume(flat[k - 1]) /\ v = Volume(seqs[k])
        BY <3>3, <4>2, VolumeOfOneMore
      <4>5. Volume(flat[k]) = u + v /\ flat[k] \in Seq(VelocityRow)
        BY <3>3, <4>2, <4>3, <4>4, VolumeOfBoth
      <4>6. u + v \in (m + x)..(3 * (c + y))
        <5>1. u \in m..(3 * c) /\ v \in x..(3 * y)
          BY <3>3, <4>2, <4>4
        <5> QED BY <5>1
      <4> QED BY <3>2, <4>5, <4>6
    <3> QED BY <3>4, <3>5
  <2>6. n \in Q
    <3> HIDE DEF Q
    <3>1. 0..n \subseteq Q
      BY <1>1, <2>4, <2>5, UpTo
    <3> QED BY <1>1, <3>1
  <2> QED BY <1>2, <1>8, <1>10, <2>3, <2>6 DEF seqs
<1> QED BY <1>9, <1>10

\* The questions about the velocity: lives, and what circulates and is aimed at.
VelocityFits(q) ==
    /\ q.lives \in Seq([does : {"open", "mint", "revalue"}, value : Nat, before : Nat, old : Nat])
    /\ q.supply \in Nat /\ q.target \in Nat

\* The velocity counts what was processed, and is above its target accordingly.
LEMMA VelocityIsTurnover ==
    ASSUME about = "velocity" => VelocityFits(question)
    PROVE  VolumeWithinThrice /\ TargetIsTurnover
<1> SUFFICES ASSUME about = "velocity", NoDevaluation
             PROVE  VolumeWithinThrice /\ TargetIsTurnover
  BY DEF VolumeWithinThrice, TargetIsTurnover
<1>1. PICK lives, left :
        /\ lives = question.lives
        /\ left = FlattenSeq([i \in DOMAIN question.lives |-> Left(question.lives[i])])
  OBVIOUS
<1>2. lives \in Seq(Lived)
  <2>1. lives \in Seq([does : {"open", "mint", "revalue"}, value : Nat, before : Nat, old : Nat])
    BY <1>1 DEF VelocityFits
  <2>2. \A i \in DOMAIN lives : lives[i].value >= lives[i].before
    BY <1>1 DEF NoDevaluation
  <2>3. \A i \in 1..Len(lives) : lives[i] \in Lived
    <3> TAKE i \in 1..Len(lives)
    <3>1. /\ lives[i] \in [does : {"open", "mint", "revalue"}, value : Nat, before : Nat, old : Nat]
          /\ i \in DOMAIN lives
      <4> DEFINE AnyLife == [does : {"open", "mint", "revalue"}, value : Nat, before : Nat, old : Nat]
      <4> HIDE DEF AnyLife
      <4>1. lives \in Seq(AnyLife)
        BY <2>1 DEF AnyLife
      <4>2. lives[i] \in AnyLife /\ i \in DOMAIN lives
        BY <4>1
      <4> QED BY <4>2 DEF AnyLife
    <3>2. lives[i].value >= lives[i].before
      BY <2>2, <3>1
    <3> QED BY <3>1, <3>2 DEF Lived
  <2>4. lives \in [1..Len(lives) -> Lived] /\ Len(lives) \in Nat
    BY <2>1, <2>3
  <2> QED BY <2>4
<1>3. PICK m \in Nat, c \in Nat : m = WorthOf(lives, {"mint_fact"}) /\ c = WorthOf(lives, Counted)
  BY <1>2, LivesCount
<1>4. Volume(left) \in m..(3 * c)
  BY <1>1, <1>2, <1>3, LivesCount
<1>5. VolumeWithinThrice
  BY <1>1, <1>3, <1>4 DEF VolumeWithinThrice, AskedVolume
<1>6. TargetIsTurnover
  <2>1. PICK s \in Nat, t \in Nat : s = question.supply /\ t = question.target
    BY DEF VelocityFits
  <2>2. PICK vol \in Int : vol = Volume(left)
    BY <1>4
  <2>3. Exceeds(left, s, t) <=> IF s <= 0 THEN vol > 0 \/ 0 > t ELSE vol > t * s
    BY <2>2 DEF Exceeds
  <2>4. PICK x \in Nat : x = t * s
    OBVIOUS
  <2>5. s <= 0 => x = 0
    BY <2>4
  <2>6. m > x => Exceeds(left, s, t)
    BY <1>4, <2>2, <2>3, <2>4, <2>5
  <2>7. Exceeds(left, s, t) => c > 0
    BY <1>4, <2>2, <2>3, <2>4, <2>5
  <2> QED BY <1>1, <1>3, <2>1, <2>4, <2>6, <2>7 DEF TargetIsTurnover
<1> QED BY <1>5, <1>6

\* What is asked about fees and the velocity is about amounts, and never changes.
AmountsFit ==
    /\ about = "fee" => FeeFits(question)
    /\ about = "velocity" => VelocityFits(question)

\* The questions of the run are such.
LEMMA AmountsAsked ==
    /\ \A q \in FeeQuestions : FeeFits(q)
    /\ \A q \in VelocityQuestions : VelocityFits(q)
<1>1. ASSUME NEW q \in FeeQuestions PROVE FeeFits(q)
  <2>1. /\ q.arx \in {0, 1, 2, 5, 8, 9} /\ q.rate \in {0, 1, 5, RateUnit}
        /\ q.waived \in {0, 1, ShareUnit} /\ q.share \in {0, 3, ShareUnit}
        /\ q.weights \in BoundedSeq(0..2, 3)
    BY DEF FeeQuestions
  <2>2. /\ RateUnit \in Nat /\ ShareUnit \in Nat /\ 5 <= RateUnit /\ 3 <= ShareUnit
    BY MoneyAssumption, PartsAssumption
  <2>3. q.weights \in Seq(Nat)
    <3>1. q.weights \in Seq(0..2)
      BY <2>1, BoundedIsSeq
    <3> QED BY <3>1
  <2>4. q.arx \in Nat /\ q.rate \in 0..RateUnit /\ q.waived \in 0..ShareUnit /\ q.share \in 0..ShareUnit
    BY <2>1, <2>2
  <2> QED BY <2>3, <2>4 DEF FeeFits
<1>2. ASSUME NEW q \in VelocityQuestions PROVE VelocityFits(q)
  <2>1. q.lives \in BoundedSeq(Lives, 2) /\ q.supply \in {0, 1, 3} /\ q.target \in {0, 1}
    BY <1>2 DEF VelocityQuestions
  <2>2. q.lives \in Seq(Lives)
    BY <2>1, BoundedIsSeq
  <2>3. Lives \subseteq [does : {"open", "mint", "revalue"}, value : Nat, before : Nat, old : Nat]
    BY DEF Lives
  <2>4. q.lives \in Seq([does : {"open", "mint", "revalue"}, value : Nat, before : Nat, old : Nat])
    <3> DEFINE AnyLife == [does : {"open", "mint", "revalue"}, value : Nat, before : Nat, old : Nat]
    <3> HIDE DEF AnyLife
    <3>1. Lives \subseteq AnyLife
      BY <2>3 DEF AnyLife
    <3>2. q.lives \in Seq(AnyLife)
      BY <2>2, <3>1
    <3> QED BY <3>2 DEF AnyLife
  <2> QED BY <2>1, <2>4 DEF VelocityFits
<1> QED BY <1>1, <1>2

\* Amounts add up: for any holders, balances and series of valuations, whatever order the map
\* is in, the shares of a revaluation sum to the change of the supply, are fair, and what a burn
\* lacks is the rounding; the supply follows the value; fees are shared to the last arx; and the
\* velocity counts what was processed, no process more than three times.
THEOREM PartsSpecAddsUp == MCSpec => AmountsAddUp
<1> DEFINE Inv == SupplyFits /\ AmountsFit
<1>1. MCInit => Inv
  <2> SUFFICES ASSUME MCInit PROVE Inv
    OBVIOUS
  <2>1. SupplyFits
    BY SupplyStarts
  <2>2. AmountsFit
    BY AmountsAsked DEF MCInit, AmountsFit
  <2> QED BY <2>1, <2>2
<1>2. Inv /\ [MCNext]_<<about, question, supplyVars, pagesVars, sessionVars, govVars, registryVars>>
      => Inv'
  <2> SUFFICES ASSUME Inv,
                      [MCNext]_<<about, question, supplyVars, pagesVars, sessionVars, govVars, registryVars>>
               PROVE  Inv'
    OBVIOUS
  <2>1. about' = about /\ question' = question
    BY DEF MCNext
  <2>2. AmountsFit'
    BY <2>1 DEF AmountsFit, FeeFits, VelocityFits
  <2> QED BY <2>2, SupplyStep
<1>3. Inv => SharesSumToDelta /\ SharesAreFair /\ ShortfallIsRounding
  BY DistributionIsFair DEF SupplyFits
<1>4. Inv => VolumeWithinThrice /\ TargetIsTurnover
  BY VelocityIsTurnover DEF AmountsFit
<1>5. Inv => FeeIsShared
  BY FeesAreShared DEF AmountsFit
<1>6. Inv /\ [MCNext]_<<about, question, supplyVars, pagesVars, sessionVars, govVars, registryVars>>
      => [\A order \in Orders(balances) :
            LET result == Apply(balances, Allocations(balances, order, value, value'))
            IN  result.ok /\ balances' = result.balances =>
                  SumFunction(balances')
                      = RevaluedSupply(SumFunction(balances), value, value')]_supplyVars
  BY SupplyStep
<1> QED BY <1>1, <1>2, <1>3, <1>4, <1>5, <1>6, PTL DEF MCSpec, AmountsAddUp, SupplyFollowsValue
=============================================================================
