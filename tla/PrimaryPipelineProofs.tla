------------------------ MODULE PrimaryPipelineProofs ------------------------
(***************************************************************************)
(* MintBacked, ActiveIsRunning and PathIsWalked for any callers, keys and  *)
(* bounds, and StageFollowsJournal for any one caller.                     *)
(*                                                                         *)
(* BackingInv, SlotInv, WalkInv and SerialInv (module PrimaryPipeline) are *)
(* inductive, in that order: each next one may use those before it.  Only  *)
(* Write changes the journal.  Every other step of caller c moves c to a   *)
(* suspended call the invariant accepts, or ends it, and one lemma for     *)
(* each invariant says once that such a step keeps it (QuietStep,          *)
(* MovesKeepSlots, MovesKeepWalk, SerialQuiet).                            *)
(***************************************************************************)
EXTENDS PrimaryPipeline, TokenizationWizard, FiniteSetTheorems, TLAPS

\* The stations of Route, spelt out.
LEMMA RouteStations ==
    ToSet(Route) = {"open", "encoded", "awaiting_pot", "evidence", "verdict",
                    "pot_done", "gate", "mint", "emission", "commission", "pay1",
                    "pay2", "accrual", "settled", "close", "end"}
  BY DEF ToSet, Route

\* The station after one that appends: only the evidence leads to the verdict,
\* and none leads to the mint, which the gate alone admits to.
LEMMA AfterStation ==
    ASSUME NEW s \in Writable \cup Plain, s # "abort"
    PROVE  /\ After(s) \in ToSet(Route)
           /\ After(s) = "verdict" => s = "evidence"
           /\ After(s) # "mint"
<1>1. DOMAIN Route = 1..16
  BY DEF Route
<1>2. \E i \in 1..15 : Route[i] = s
  BY DEF Route, Writable, Plain
<1>3. \A i \in 1..16 : Route[i] = s => i \in 1..15
  BY DEF Route, Writable, Plain
<1>4. PICK i \in 1..15 : Route[i] = s /\ After(s) = Route[i + 1]
  BY <1>1, <1>2, <1>3 DEF After
<1>5. After(s) \in ToSet(Route)
  BY <1>1, <1>4 DEF ToSet
<1>6. i # 4 => Route[i + 1] # "verdict"
  BY DEF Route
<1>7. i = 4 => s = "evidence"
  BY <1>4 DEF Route
<1>8. i # 7
  BY <1>4 DEF Route, Writable, Plain
<1>9. i # 7 => Route[i + 1] # "mint"
  BY DEF Route
<1> QED
  BY <1>4, <1>5, <1>6, <1>7, <1>8, <1>9

\* What a call has read is in the journal.
LEMMA ReadIsJournalled ==
    ASSUME journal \in Seq(Fact), call \in [Caller -> Call], NEW c \in Caller
    PROVE  /\ \A f \in Read(c) : Journalled(f)
           /\ \A i \in DOMAIN History(c) : Journalled(History(c)[i])
<1>1. call[c].seen \in 0..Len(journal)
  BY DEF Call
<1> QED
  BY <1>1 DEF Read, History, ToSet, Journalled

\* An append keeps what is journalled and in which order, and puts its record
\* after everything journalled before.
LEMMA AppendKeepsOrder ==
    ASSUME NEW s \in Seq(Fact), journal = s,
           NEW f \in Fact, journal' = Append(s, f)
    PROVE  /\ journal' \in Seq(Fact) /\ Len(journal') = Len(journal) + 1
           /\ Journalled(f)'
           /\ \A g : Journalled(g) => Journalled(g)'
           /\ \A g : Journalled(g)' => Journalled(g) \/ g = f
           /\ \A e, g : Precedes(e, g) => Precedes(e, g)'
           /\ \A e, g : Journalled(e) /\ ~Journalled(g) => Precedes(e, g)'
<1>1. /\ journal' \in Seq(Fact) /\ Len(journal') = Len(s) + 1
      /\ \A i \in 1..Len(s) : journal'[i] = s[i]
      /\ journal'[Len(s) + 1] = f
  OBVIOUS
<1>2. DOMAIN journal = 1..Len(s) /\ DOMAIN journal' = 1..(Len(s) + 1) /\ Len(s) \in Nat
  BY <1>1
<1>3. /\ \A g : Journalled(g) <=> \E i \in 1..Len(s) : s[i] = g
      /\ \A g : Journalled(g)' <=> \E i \in 1..(Len(s) + 1) : journal'[i] = g
  BY <1>2 DEF Journalled, ToSet
<1>4. \A g : Journalled(g) => Journalled(g)'
  BY <1>1, <1>2, <1>3
<1>5. \A g : Journalled(g)' => Journalled(g) \/ g = f
  BY <1>1, <1>2, <1>3
<1>6. Journalled(f)'
  BY <1>1, <1>2, <1>3
<1>7. ASSUME NEW e, NEW g, Precedes(e, g)
      PROVE  Precedes(e, g)'
  <2>1. PICK i \in 1..Len(s) : s[i] = e /\ \A j \in 1..Len(s) : s[j] = g => i < j
    BY <1>2, <1>7 DEF Precedes
  <2>2. journal'[i] = e /\ \A j \in 1..(Len(s) + 1) : journal'[j] = g => i < j
    BY <1>1, <1>2, <2>1
  <2> QED
    BY <1>2, <2>2 DEF Precedes
<1>8. ASSUME NEW e, NEW g, Journalled(e), ~Journalled(g)
      PROVE  Precedes(e, g)'
  <2>1. PICK i \in 1..Len(s) : s[i] = e
    BY <1>3, <1>8
  <2>2. journal'[i] = e /\ \A j \in 1..(Len(s) + 1) : journal'[j] = g => i < j
    BY <1>1, <1>2, <1>3, <1>8, <2>1
  <2> QED
    BY <1>2, <2>2 DEF Precedes
<1> QED
  BY <1>1, <1>4, <1>5, <1>6, <1>7, <1>8
-----------------------------------------------------------------------------
\* A step of c that leaves the journal alone keeps the invariant if CallBacked
\* holds of the call it moves to.
LEMMA QuietStep ==
    ASSUME BackingInv, NEW c \in Caller, UNCHANGED journal,
           NEW x \in Call, CallBacked(x), call' = [call EXCEPT ![c] = x]
    PROVE  BackingInv'
<1>1. call' \in [Caller -> Call]
  BY DEF BackingInv
<1>2. Call' = Call
  BY DEF Call
<1>3. \A d \in Caller : CallBacked(call'[d])
  BY DEF BackingInv
<1>4. (\A d \in Caller : CallBacked(call[d]))'
  BY <1>3 DEF CallBacked, Journalled
<1> QED
  BY <1>1, <1>2, <1>4 DEF BackingInv, Journalled, Precedes

LEMMA FinishKeeps ==
    ASSUME BackingInv, NEW c \in Caller, UNCHANGED journal, Finish(c)
    PROVE  BackingInv'
<1>1. Idle \in Call /\ CallBacked(Idle)
  BY DEF BackingInv, Idle, Call, Station, CallBacked
<1> QED
  BY <1>1, QuietStep DEF Finish

\* Going to a station keeps the invariant if the station's promise holds.
LEMMA GotoKeeps ==
    ASSUME BackingInv, NEW c \in Caller, UNCHANGED journal,
           NEW s \in Station, NEW where \in {"enter", "check", "write"},
           NEW v \in {0, 1}, GotoWith(c, s, where, v),
           s = "verdict" => Journalled("evidence"),
           s = "mint" => Journalled("evidence") /\ Journalled("verdict1"),
           where = "write" => s \in Writable
    PROVE  BackingInv'
<1> DEFINE x == [at |-> s, phase |-> where, mode |-> call[c].mode,
                 seen |-> IF where = "check" THEN Len(journal) ELSE 0, verdict |-> v]
<1>1. call[c].mode \in {"run", "continue"} /\ Len(journal) \in Nat
  BY DEF BackingInv, Call
<1>2. x \in Call
  BY <1>1 DEF Call
<1>3. CallBacked(x)
  BY DEF CallBacked
<1>4. call' = [call EXCEPT ![c] = x]
  BY DEF GotoWith
<1> QED
  BY <1>2, <1>3, <1>4, QuietStep

LEMMA ProceedKeeps ==
    ASSUME BackingInv, NEW c \in Caller, UNCHANGED journal,
           NEW s \in Station, NEW where \in {"enter", "check", "write"},
           NEW ok \in BOOLEAN, Proceed(c, ok, s, where),
           ok /\ s = "verdict" => Journalled("evidence"),
           ok /\ s = "mint" => Journalled("evidence") /\ Journalled("verdict1"),
           where = "write" => s \in Writable
    PROVE  BackingInv'
<1>1. call[c].verdict \in {0, 1}
  BY DEF BackingInv, Call
<1>2. CASE ok /\ Goto(c, s, where)
  BY <1>1, <1>2, GotoKeeps DEF Goto
<1>3. CASE Finish(c)
  BY <1>3, FinishKeeps
<1> QED
  BY <1>2, <1>3 DEF Proceed
-----------------------------------------------------------------------------
(***************************************************************************)
(* The steps that leave the journal alone.                                 *)
(***************************************************************************)
LEMMA RunKeeps ==
    ASSUME BackingInv, NEW c \in Caller, NEW k \in Key, Run(c, k)
    PROVE  BackingInv'
<1>1. Started \in Call /\ CallBacked(Started)
  BY RouteStations DEF BackingInv, Started, Call, Station, CallBacked
<1>2. CASE call' = [call EXCEPT ![c] = Started]
  BY <1>1, <1>2, QuietStep DEF Run
<1>3. CASE UNCHANGED call
  BY <1>3 DEF Run, BackingInv, CallBacked, Call, Journalled, Precedes
<1> QED
  BY <1>2, <1>3 DEF Run

LEMMA ContinueKeeps ==
    ASSUME BackingInv, NEW c \in Caller, Continue(c)
    PROVE  BackingInv'
<1>1. call[c].verdict \in {0, 1} /\ "resume" \in Station
  BY DEF BackingInv, Call, Station
<1> QED
  BY <1>1, GotoKeeps DEF Continue, Goto

LEMMA BranchKeeps ==
    ASSUME BackingInv, NEW c \in Caller, UNCHANGED journal,
           NEW s, NEW verdict1 \in BOOLEAN, Branch(c, s, verdict1)
    PROVE  BackingInv'
<1>1. /\ call[c].verdict \in {0, 1}
      /\ {"evidence", "pot_done", "gate"} \subseteq Station
  BY RouteStations DEF BackingInv, Call, Station
<1>2. CASE Goto(c, "evidence", "check")
  BY <1>1, <1>2, GotoKeeps DEF Goto
<1>3. CASE Finish(c)
  BY <1>3, FinishKeeps
<1>4. CASE Goto(c, "pot_done", "write")
  BY <1>1, <1>4, GotoKeeps DEF Goto, Writable
<1>5. CASE Goto(c, "gate", "check")
  BY <1>1, <1>5, GotoKeeps DEF Goto
<1> QED
  BY <1>2, <1>3, <1>4, <1>5 DEF Branch

LEMMA ResumeKeeps ==
    ASSUME BackingInv, NEW c \in Caller, Resume(c)
    PROVE  BackingInv'
<1> DEFINE v == IF "verdict1" \in Read(c) THEN 1 ELSE 0
<1>1. UNCHANGED journal /\ "hydrate" \in Station /\ v \in {0, 1}
  BY DEF Resume, Station
<1>2. CASE Finish(c)
  BY <1>1, <1>2, FinishKeeps
<1>3. CASE GotoWith(c, "hydrate", "check", v)
  <2> HIDE DEF v
  <2> QED
    BY <1>1, <1>3, GotoKeeps
<1>4. CASE Branch(c, stage, "verdict1" \in Read(c))
  <2> DEFINE known == "verdict1" \in Read(c)
  <2>1. known \in BOOLEAN
    OBVIOUS
  <2>2. Branch(c, stage, known)
    BY <1>4
  <2> HIDE DEF known
  <2> QED
    BY <1>1, <2>1, <2>2, BranchKeeps
<1> QED
  BY <1>2, <1>3, <1>4 DEF Resume

LEMMA HydrateKeeps ==
    ASSUME BackingInv, NEW c \in Caller, Hydrate(c)
    PROVE  BackingInv'
  BY BranchKeeps DEF Hydrate

LEMMA EnterCheckedKeeps ==
    ASSUME BackingInv, NEW c \in Caller, EnterChecked(c)
    PROVE  BackingInv'
<1>1. UNCHANGED journal /\ call[c].at \in Station /\ call[c].at # "verdict"
  BY DEF EnterChecked, BackingInv, Call, Checked
<1>2. call[c].at = "mint" => Journalled("evidence") /\ Journalled("verdict1")
  BY DEF BackingInv, CallBacked
<1>3. KnownInMemory(call[c].at) \in BOOLEAN
  BY DEF KnownInMemory
<1> QED
  BY <1>1, <1>2, <1>3, ProceedKeeps DEF EnterChecked

\* The checks that go on to an append of their own station.
LEMMA ChecksKeep ==
    ASSUME BackingInv, NEW c \in Caller,
           CheckOpen(c) \/ Mint(c) \/ Settle(c) \/ Accrue(c)
    PROVE  BackingInv'
<1>1. /\ {"open", "mint", "commission", "accrual"} \subseteq Station
      /\ {"open", "mint", "commission", "accrual"} \subseteq Writable
  BY RouteStations DEF Station, Writable
<1>2. CASE CheckOpen(c)
  BY <1>1, <1>2, ProceedKeeps DEF CheckOpen
<1>3. CASE Mint(c)
  <2>1. Journalled("evidence") /\ Journalled("verdict1")
    BY <1>3 DEF Mint, BackingInv, CallBacked
  <2> QED
    BY <1>1, <1>3, <2>1, ProceedKeeps DEF Mint
<1>4. CASE Settle(c)
  BY <1>1, <1>4, ProceedKeeps DEF Settle
<1>5. CASE Accrue(c)
  BY <1>1, <1>5, ProceedKeeps DEF Accrue
<1> QED
  BY <1>2, <1>3, <1>4, <1>5

LEMMA VerifyKeeps ==
    ASSUME BackingInv, NEW c \in Caller, Verify(c)
    PROVE  BackingInv'
<1>1. UNCHANGED journal /\ "evidence" \in Station /\ "evidence" \in Writable
  BY RouteStations DEF Verify, Station, Writable
<1>2. CASE Finish(c)
  BY <1>1, <1>2, FinishKeeps
<1>3. ASSUME NEW v \in Verdicts, GotoWith(c, "evidence", "write", v)
      PROVE  BackingInv'
  BY <1>1, <1>3, GotoKeeps, PipelineAssumption
<1> QED
  BY <1>2, <1>3 DEF Verify

\* The gate admits to the mint what has the records it read.
LEMMA GateKeeps ==
    ASSUME BackingInv, NEW c \in Caller, Gate(c)
    PROVE  BackingInv'
<1>1. /\ UNCHANGED journal /\ {"mint", "abort"} \subseteq Station
      /\ call[c].verdict \in {0, 1}
  BY RouteStations DEF Gate, BackingInv, Call, Station
<1>2. Backed(History(c)) => Journalled("evidence") /\ Journalled("verdict1")
  BY ReadIsJournalled DEF BackingInv, Backed
<1>3. Backed(History(c)) \in BOOLEAN
  BY DEF Backed
<1>4. CASE Proceed(c, Backed(History(c)), "mint", "enter")
  BY <1>1, <1>2, <1>3, <1>4, ProceedKeeps
<1>5. CASE Goto(c, "abort", "enter")
  BY <1>1, <1>5, GotoKeeps DEF Goto
<1> QED
  BY <1>4, <1>5 DEF Gate

LEMMA AdvanceKeeps ==
    ASSUME BackingInv, NEW c \in Caller, Advance(c)
    PROVE  BackingInv'
<1> DEFINE ok == CanTransition(stage, StageAt(call[c].at))
<1>1. UNCHANGED journal /\ call[c].at \in Station
  BY DEF Advance, BackingInv, Call
<1>2. call[c].at \in {"pot_done", "settled", "close", "abort"}
  BY DEF Advance
<1>3. ok \in BOOLEAN
  BY DEF CanTransition
<1>4. Proceed(c, ok, call[c].at, "write")
  BY DEF Advance
<1>5. call[c].at \in Writable
  BY <1>2 DEF Writable
<1> QED
  BY <1>1, <1>2, <1>3, <1>4, <1>5, ProceedKeeps

LEMMA RegisterKeeps ==
    ASSUME BackingInv, NEW c \in Caller, Register(c)
    PROVE  BackingInv'
<1>1. /\ "encoded" \in Station /\ "encoded" \in Writable
      /\ call[c].verdict \in {0, 1}
  BY RouteStations DEF BackingInv, Call, Station, Writable
<1> QED
  BY <1>1, GotoKeeps DEF Register, Goto

LEMMA CrashKeeps ==
    ASSUME BackingInv, Crash
    PROVE  BackingInv'
<1>1. Idle \in Call /\ CallBacked(Idle)
  BY DEF BackingInv, Idle, Call, Station, CallBacked
<1>2. UNCHANGED journal /\ call' = [c \in Caller |-> Idle]
  BY DEF Crash
<1>3. Call' = Call /\ call' \in [Caller -> Call]
  BY <1>1, <1>2 DEF Call
<1>4. (\A c \in Caller : CallBacked(call[c]))'
  BY <1>1, <1>2 DEF CallBacked, Journalled
<1> QED
  BY <1>2, <1>3, <1>4 DEF BackingInv, Journalled, Precedes
-----------------------------------------------------------------------------
(***************************************************************************)
(* The append.                                                             *)
(***************************************************************************)

\* What the append of Write does to the journal: nothing, or one record more.
LEMMA WriteAppends ==
    ASSUME BackingInv, NEW c \in Caller, Write(c)
    PROVE  /\ call[c].at \in Writable \cup Plain
           /\ FactAt(c) \in Fact
           /\ journal' \in Seq(Fact) /\ Len(journal) <= Len(journal')
           /\ \A g : Journalled(g) => Journalled(g)'
           /\ \A g : Journalled(g)' => Journalled(g) \/ g = FactAt(c)
           /\ \A e, g : Precedes(e, g) => Precedes(e, g)'
           /\ \A e, g : Journalled(e) /\ ~Journalled(g) /\ Journalled(g)' => Precedes(e, g)'
           /\ call[c].at = "evidence" => Journalled("evidence")'
<1>1. call[c].at \in Writable \cup Plain
  BY DEF Write, BackingInv, CallBacked
<1>2. FactAt(c) \in Fact
  BY <1>1, RouteStations DEF FactAt, Fact, Writable, Plain
<1>3. journal \in Seq(Fact) /\ Len(journal) \in Nat
  BY DEF BackingInv
<1>4. CASE KeyTaken(call[c].at)
  <2>1. journal' = journal
    BY <1>4 DEF Write
  <2>2. call[c].at = "evidence" => Journalled("evidence")
    BY <1>4 DEF KeyTaken, Journalled
  <2> QED
    BY <1>1, <1>2, <1>3, <2>1, <2>2 DEF Journalled, Precedes
<1>5. CASE ~KeyTaken(call[c].at)
  <2>1. journal' = Append(journal, FactAt(c))
    BY <1>5 DEF Write
  <2>2. call[c].at = "evidence" => FactAt(c) = "evidence"
    BY DEF FactAt
  <2> QED
    BY <1>1, <1>2, <1>3, <2>1, <2>2, AppendKeepsOrder
<1> QED
  BY <1>4, <1>5

LEMMA WriteKeeps ==
    ASSUME BackingInv, NEW c \in Caller, Write(c)
    PROVE  BackingInv'
<1>1. /\ call[c].at \in Writable \cup Plain /\ call[c].at \in Station
      /\ \A g : Journalled(g) => Journalled(g)'
      /\ \A g : Journalled(g)' => Journalled(g) \/ g = FactAt(c)
      /\ \A e, g : Precedes(e, g) => Precedes(e, g)'
      /\ \A e, g : Journalled(e) /\ ~Journalled(g) /\ Journalled(g)' => Precedes(e, g)'
  BY WriteAppends DEF BackingInv, Call
<1>2. (Journalled("verdict1") => Precedes("evidence", "verdict1"))'
  <2>1. FactAt(c) = "verdict1" => call[c].at = "verdict"
    BY <1>1, RouteStations DEF FactAt, Writable, Plain
  <2>2. call[c].at = "verdict" => Journalled("evidence")
    BY DEF BackingInv, CallBacked
  <2> QED
    BY <1>1, <2>1, <2>2 DEF BackingInv
<1>3. (Journalled("mint") => Precedes("verdict1", "mint"))'
  <2>1. FactAt(c) = "mint" => call[c].at = "mint"
    BY DEF FactAt
  <2>2. call[c].at = "mint" => Journalled("verdict1")
    BY DEF BackingInv, CallBacked
  <2> QED
    BY <1>1, <2>1, <2>2 DEF BackingInv
<1>4. journal' \in Seq(Fact) /\ Len(journal) <= Len(journal')
  BY WriteAppends
<1>5. Len(journal) \in Nat /\ Len(journal') \in Nat
  BY <1>4 DEF BackingInv
<1>6. Call \subseteq Call'
  BY <1>4, <1>5 DEF Call
<1>7. PICK x \in Call : /\ call' = [call EXCEPT ![c] = x]
                        /\ x.phase = "enter" /\ x.at # "mint"
                        /\ x.at = "verdict" => call[c].at = "evidence"
  <2>1. call[c].mode \in {"run", "continue"} /\ call[c].verdict \in {0, 1}
    BY DEF BackingInv, Call
  <2>2. CASE Finish(c)
    <3>1. Idle \in Call
      BY <1>5 DEF Idle, Call, Station
    <3> QED
      BY <2>2, <3>1 DEF Finish, Idle
  <2>3. ASSUME NEW s \in Station, Goto(c, s, "enter"), s # "mint",
               s = "verdict" => call[c].at = "evidence"
        PROVE  \E x \in Call : /\ call' = [call EXCEPT ![c] = x]
                               /\ x.phase = "enter" /\ x.at # "mint"
                               /\ x.at = "verdict" => call[c].at = "evidence"
    <3> DEFINE x == [at |-> s, phase |-> "enter", mode |-> call[c].mode,
                     seen |-> 0, verdict |-> call[c].verdict]
    <3>1. x \in Call
      BY <1>5, <2>1 DEF Call
    <3>2. call' = [call EXCEPT ![c] = x]
      BY <2>3 DEF Goto, GotoWith
    <3> QED
      BY <2>3, <3>1, <3>2
  <2>4. CASE Goto(c, "abort", "enter")
    <3>1. "abort" \in Station
      BY DEF Station
    <3> QED
      BY <2>3, <2>4, <3>1
  <2>5. CASE call[c].at # "abort" /\ Goto(c, After(call[c].at), "enter")
    <3>1. /\ After(call[c].at) \in Station /\ After(call[c].at) # "mint"
          /\ After(call[c].at) = "verdict" => call[c].at = "evidence"
      BY <1>1, <2>5, AfterStation DEF Station
    <3> QED
      BY <2>3, <2>5, <3>1
  <2> QED
    BY <2>2, <2>4, <2>5 DEF Write
<1>8. call' \in [Caller -> Call']
  BY <1>6, <1>7 DEF BackingInv
<1>9. (\A d \in Caller : CallBacked(call[d]))'
  <2> SUFFICES ASSUME NEW d \in Caller
               PROVE  CallBacked(call[d])'
    OBVIOUS
  <2>1. CASE d = c
    <3>1. call'[d] = x
      BY <1>7, <2>1 DEF BackingInv
    <3>2. call[c].at = "evidence" => Journalled("evidence")'
      BY WriteAppends
    <3> QED
      BY <1>7, <3>1, <3>2 DEF CallBacked
  <2>2. CASE d # c
    <3>1. call'[d] = call[d] /\ CallBacked(call[d])
      BY <1>7, <2>2 DEF BackingInv
    <3> QED
      BY <1>1, <3>1 DEF CallBacked
  <2> QED
    BY <2>1, <2>2
<1> QED
  BY <1>2, <1>3, <1>4, <1>8, <1>9 DEF BackingInv
-----------------------------------------------------------------------------
LEMMA BackingHoldsInitially == Init => BackingInv
<1> SUFFICES ASSUME Init PROVE BackingInv
  OBVIOUS
<1>1. journal = <<>> /\ call = [c \in Caller |-> Idle]
  BY DEF Init
<1>2. Idle \in Call /\ CallBacked(Idle)
  BY <1>1 DEF Idle, Call, Station, CallBacked
<1>3. \A f : ~Journalled(f)
  BY <1>1 DEF Journalled, ToSet
<1> QED
  BY <1>1, <1>2, <1>3 DEF BackingInv

LEMMA BackingIsKept == BackingInv /\ [Next]_vars => BackingInv'
<1> SUFFICES ASSUME BackingInv, [Next]_vars PROVE BackingInv'
  OBVIOUS
<1>1. CASE UNCHANGED vars
  BY <1>1 DEF vars, BackingInv, CallBacked, Call, Journalled, Precedes
<1>2. CASE Crash
  BY <1>2, CrashKeeps
<1>3. ASSUME NEW c \in Caller, NEW k \in Key, Run(c, k)
      PROVE  BackingInv'
  BY <1>3, RunKeeps
<1>4. ASSUME NEW c \in Caller, Refuse(c) \/ ResumeDone(c) \/ Complete(c) \/ Fail(c)
      PROVE  BackingInv'
  BY <1>4, FinishKeeps DEF Refuse, ResumeDone, Complete, Fail
<1>5. ASSUME NEW c \in Caller, Continue(c)
      PROVE  BackingInv'
  BY <1>5, ContinueKeeps
<1>6. ASSUME NEW c \in Caller, Resume(c) \/ Hydrate(c)
      PROVE  BackingInv'
  BY <1>6, ResumeKeeps, HydrateKeeps
<1>7. ASSUME NEW c \in Caller,
             \/ EnterChecked(c) \/ CheckOpen(c) \/ Verify(c) \/ Gate(c)
             \/ Mint(c) \/ Settle(c) \/ Accrue(c)
      PROVE  BackingInv'
  BY <1>7, EnterCheckedKeeps, ChecksKeep, VerifyKeeps, GateKeeps
<1>8. ASSUME NEW c \in Caller, Register(c) \/ Advance(c)
      PROVE  BackingInv'
  BY <1>8, RegisterKeeps, AdvanceKeeps
<1>9. ASSUME NEW c \in Caller, Write(c)
      PROVE  BackingInv'
  BY <1>9, WriteKeeps
<1> QED
  BY <1>1, <1>2, <1>3, <1>4, <1>5, <1>6, <1>7, <1>8, <1>9 DEF Next, Step

\* The records of the gate stand in their order and every suspended call keeps
\* it: the inductive invariant of runPrimary and continuePrimary.
THEOREM BackingHolds == Spec => []BackingInv
  BY BackingHoldsInitially, BackingIsKept, PTL DEF Spec

\* For any number of overlapping calls, restarts and failing appends, a mint is
\* journalled only above the evidence and the positive verdict of its process.
THEOREM MintsAreBacked == Spec => []MintBacked
<1>1. BackingInv => MintBacked
  <2> SUFFICES ASSUME BackingInv PROVE MintBacked
    OBVIOUS
  <2>1. Precedes("verdict1", "mint") => Journalled("verdict1")
    BY DEF Precedes, Journalled, ToSet
  <2> QED
    BY <2>1 DEF BackingInv, MintBacked
<1> QED
  BY <1>1, BackingHolds, PTL
-----------------------------------------------------------------------------
(***************************************************************************)
(* The slots.                                                              *)
(***************************************************************************)
\* Stations a call may be at with nothing of the path from the mint behind it.
Early == {"idle", "resume", "hydrate", "abort", "open", "encoded", "awaiting_pot",
          "evidence", "verdict", "pot_done", "gate", "mint"}

\* How a step may change the calls and the slots: not at all, by starting c
\* with a slot, by moving c to a station of S, or by ending c.
Moves(c, S) ==
    \/ UNCHANGED <<active, call>>
    \/ /\ call[c].at = "idle" /\ active < MaxConcurrent
       /\ active' = active + 1 /\ call' = [call EXCEPT ![c] = Started]
    \/ /\ UNCHANGED active
       /\ \E x \in Call : /\ call' = [call EXCEPT ![c] = x]
                          /\ x.mode = call[c].mode /\ x.at \in S \ {"idle"}
    \/ /\ call' = [call EXCEPT ![c] = Idle]
       /\ active' = IF call[c].mode = "run" THEN active - 1 ELSE active

LEMMA MovesKeepSlots ==
    ASSUME call \in [Caller -> Call], SlotInv, NEW c \in Caller,
           NEW S, Moves(c, S), keys' \subseteq Key
    PROVE  SlotInv'
<1>1. /\ \A d \in Caller : call[d].mode \in {"run", "continue"}
      /\ active \in Nat /\ active <= MaxConcurrent /\ MaxConcurrent \in Nat
      /\ active = Cardinality(Running) /\ IsFiniteSet(Running)
  BY PipelineAssumption DEF Call, SlotInv, ActiveIsRunning, Running
<1>2. CASE UNCHANGED <<active, call>>
  BY <1>2 DEF SlotInv, ActiveIsRunning, Running
<1>3. CASE /\ call[c].at = "idle" /\ active < MaxConcurrent
           /\ active' = active + 1 /\ call' = [call EXCEPT ![c] = Started]
  <2>1. c \notin Running /\ Running' = Running \cup {c}
    BY <1>3 DEF SlotInv, Running, Started
  <2>2. IsFiniteSet(Running') /\ Cardinality(Running') = active + 1
    BY <1>1, <2>1, FS_AddElement
  <2>3. \A d \in Caller : call'[d].at = "idle" => call'[d].mode = "continue"
    BY <1>3 DEF SlotInv, Started
  <2> QED
    BY <1>1, <1>3, <2>2, <2>3 DEF SlotInv, ActiveIsRunning, Running
<1>4. ASSUME UNCHANGED active, NEW x \in Call, call' = [call EXCEPT ![c] = x],
             x.mode = call[c].mode, x.at # "idle"
      PROVE  SlotInv'
  <2>1. Running' = Running
    BY <1>4 DEF Running
  <2>2. \A d \in Caller : call'[d].at = "idle" => call'[d].mode = "continue"
    BY <1>4 DEF SlotInv
  <2> QED
    BY <1>1, <1>4, <2>1, <2>2 DEF SlotInv, ActiveIsRunning, Running
<1>5. CASE /\ call' = [call EXCEPT ![c] = Idle]
           /\ active' = IF call[c].mode = "run" THEN active - 1 ELSE active
  <2>1. Running' = Running \ {c}
    BY <1>5 DEF Running, Idle
  <2>2. /\ IsFiniteSet(Running')
        /\ Cardinality(Running') = IF c \in Running THEN active - 1 ELSE active
    BY <1>1, <2>1, FS_RemoveElement
  <2>3. c \in Running <=> call[c].mode = "run"
    BY DEF Running
  <2>4. active' = Cardinality(Running') /\ active' <= MaxConcurrent
    BY <1>1, <1>5, <2>2, <2>3
  <2>5. active' \in Nat
    BY <2>2, <2>4, FS_CardinalityType
  <2>6. \A d \in Caller : call'[d].at = "idle" => call'[d].mode = "continue"
    BY <1>5 DEF SlotInv, Idle
  <2> QED
    BY <1>1, <2>2, <2>4, <2>5, <2>6 DEF SlotInv, ActiveIsRunning, Running
<1> QED
  BY <1>2, <1>3, <1>4, <1>5 DEF Moves

LEMMA FinishMoves ==
    ASSUME NEW c \in Caller, NEW S, Finish(c)
    PROVE  Moves(c, S) /\ UNCHANGED keys
  BY DEF Finish, Moves

LEMMA GotoMoves ==
    ASSUME call \in [Caller -> Call], NEW c \in Caller, Len(journal) \in Nat,
           NEW s \in Station \ {"idle"}, NEW where \in {"enter", "check", "write"},
           NEW v \in {0, 1}, GotoWith(c, s, where, v), UNCHANGED admission,
           NEW S, s \in S
    PROVE  Moves(c, S) /\ UNCHANGED keys
<1> DEFINE x == [at |-> s, phase |-> where, mode |-> call[c].mode,
                 seen |-> IF where = "check" THEN Len(journal) ELSE 0, verdict |-> v]
<1>1. x \in Call /\ x.mode = call[c].mode /\ x.at \in S \ {"idle"}
  BY DEF Call
<1>2. call' = [call EXCEPT ![c] = x]
  BY DEF GotoWith
<1> QED
  BY <1>1, <1>2 DEF Moves, admission

LEMMA ProceedMoves ==
    ASSUME BackingInv, NEW c \in Caller, NEW s \in Station \ {"idle"}, NEW ok \in BOOLEAN,
           NEW where \in {"enter", "check", "write"}, Proceed(c, ok, s, where),
           NEW S, s \in S
    PROVE  Moves(c, S) /\ UNCHANGED keys
<1>1. call \in [Caller -> Call] /\ call[c].verdict \in {0, 1} /\ Len(journal) \in Nat
  BY DEF BackingInv, Call
<1>2. CASE Goto(c, s, where) /\ UNCHANGED admission
  BY <1>1, <1>2, GotoMoves DEF Goto
<1>3. CASE Finish(c)
  BY <1>3, FinishMoves
<1> QED
  BY <1>2, <1>3 DEF Proceed

LEMMA BranchMoves ==
    ASSUME BackingInv, NEW c \in Caller, NEW s, NEW verdict1 \in BOOLEAN,
           Branch(c, s, verdict1), NEW S, Early \subseteq S
    PROVE  Moves(c, S) /\ UNCHANGED keys
<1>1. /\ call \in [Caller -> Call] /\ call[c].verdict \in {0, 1} /\ Len(journal) \in Nat
      /\ {"evidence", "pot_done", "gate"} \subseteq Station \ {"idle"}
      /\ {"evidence", "pot_done", "gate"} \subseteq S
  BY RouteStations DEF BackingInv, Call, Station, Early
<1>2. CASE Finish(c)
  BY <1>2, FinishMoves
<1>3. CASE Goto(c, "evidence", "check") /\ UNCHANGED admission
  BY <1>1, <1>3, GotoMoves DEF Goto
<1>4. CASE Goto(c, "pot_done", "write") /\ UNCHANGED admission
  BY <1>1, <1>4, GotoMoves DEF Goto
<1>5. CASE Goto(c, "gate", "check") /\ UNCHANGED admission
  BY <1>1, <1>5, GotoMoves DEF Goto
<1> QED
  BY <1>2, <1>3, <1>4, <1>5 DEF Branch

\* Every step of a call that was made, but for Write, goes no further than the
\* mint or stays where it is.
LEMMA StepMoves ==
    ASSUME BackingInv, NEW c \in Caller,
           Refuse(c) \/ Continue(c) \/ Step(c) \/ Fail(c), ~Write(c)
    PROVE  Moves(c, Early \cup {call[c].at}) /\ UNCHANGED keys
<1> DEFINE S == Early \cup {call[c].at}
<1>1. /\ call \in [Caller -> Call] /\ call[c].verdict \in {0, 1} /\ Len(journal) \in Nat
      /\ call[c].at \in Station
      /\ {"resume", "hydrate", "abort", "open", "encoded", "evidence", "gate", "mint",
          "commission", "accrual"} \subseteq Station \ {"idle"}
      /\ {"resume", "hydrate", "abort", "open", "encoded", "evidence", "gate", "mint",
          call[c].at} \subseteq S
      /\ Early \subseteq S
  BY RouteStations DEF BackingInv, Call, Station, Early
<1>2. CASE Refuse(c) \/ ResumeDone(c) \/ Complete(c) \/ Fail(c)
  BY <1>2, FinishMoves DEF Refuse, ResumeDone, Complete, Fail
<1>3. CASE Continue(c)
  BY <1>1, <1>3, GotoMoves DEF Continue, Goto
<1>4. CASE Resume(c)
  <2> DEFINE v == IF "verdict1" \in Read(c) THEN 1 ELSE 0
             known == "verdict1" \in Read(c)
  <2>1. v \in {0, 1} /\ known \in BOOLEAN
    OBVIOUS
  <2>2. \/ Finish(c)
        \/ GotoWith(c, "hydrate", "check", v) /\ UNCHANGED admission
        \/ Branch(c, stage, known)
    BY <1>4 DEF Resume
  <2> HIDE DEF v, known
  <2> QED
    BY <1>1, <2>1, <2>2, FinishMoves, GotoMoves, BranchMoves
<1>5. CASE Hydrate(c)
  BY <1>5, BranchMoves DEF Hydrate
<1>6. CASE EnterChecked(c)
  <2>1. KnownInMemory(call[c].at) \in BOOLEAN /\ call[c].at # "idle"
    BY <1>6 DEF KnownInMemory, EnterChecked, Checked
  <2> QED
    BY <1>1, <1>6, <2>1, ProceedMoves DEF EnterChecked
<1>7. CASE CheckOpen(c) \/ Mint(c) \/ Settle(c) \/ Accrue(c)
  BY <1>1, <1>7, ProceedMoves DEF CheckOpen, Mint, Settle, Accrue
<1>8. CASE Register(c)
  BY <1>1, <1>8, GotoMoves DEF Register, Goto
<1>9. CASE Verify(c)
  <2>1. ASSUME NEW v \in Verdicts, GotoWith(c, "evidence", "write", v), UNCHANGED admission
        PROVE  Moves(c, S) /\ UNCHANGED keys
    BY <1>1, <2>1, GotoMoves, PipelineAssumption
  <2> QED
    BY <1>9, <2>1, FinishMoves DEF Verify
<1>10. CASE Gate(c)
  <2>1. Backed(History(c)) \in BOOLEAN
    BY DEF Backed
  <2>2. CASE Proceed(c, Backed(History(c)), "mint", "enter")
    BY <1>1, <2>1, <2>2, ProceedMoves
  <2>3. CASE Goto(c, "abort", "enter") /\ UNCHANGED admission
    BY <1>1, <2>3, GotoMoves DEF Goto
  <2> QED
    BY <1>10, <2>2, <2>3 DEF Gate
<1>11. CASE Advance(c)
  <2>1. CanTransition(stage, StageAt(call[c].at)) \in BOOLEAN /\ call[c].at # "idle"
    BY <1>11 DEF CanTransition, Advance
  <2> QED
    BY <1>1, <1>11, <2>1, ProceedMoves DEF Advance
<1> QED
  BY <1>2, <1>3, <1>4, <1>5, <1>6, <1>7, <1>8, <1>9, <1>10, <1>11 DEF Step

LEMMA WriteMoves ==
    ASSUME BackingInv, NEW c \in Caller, Write(c)
    PROVE  Moves(c, Station) /\ UNCHANGED keys
<1>1. /\ call \in [Caller -> Call] /\ call[c].verdict \in {0, 1} /\ Len(journal) \in Nat
      /\ "abort" \in Station
  BY DEF BackingInv, Call, Station
<1>2. CASE Finish(c)
  BY <1>2, FinishMoves
<1>3. CASE Goto(c, "abort", "enter") /\ UNCHANGED admission
  BY <1>1, <1>3, GotoMoves DEF Goto
<1>4. CASE call[c].at # "abort" /\ Goto(c, After(call[c].at), "enter") /\ UNCHANGED admission
  <2>1. After(call[c].at) \in Station \ {"idle"}
    BY <1>4, WriteAppends, AfterStation, RouteStations DEF Station
  <2> QED
    BY <1>1, <1>4, <2>1, GotoMoves DEF Goto
<1> QED
  BY <1>2, <1>3, <1>4 DEF Write

LEMMA SlotsAreKept == BackingInv /\ SlotInv /\ [Next]_vars => SlotInv'
<1> SUFFICES ASSUME BackingInv, SlotInv, [Next]_vars PROVE SlotInv'
  OBVIOUS
<1>1. call \in [Caller -> Call] /\ keys \subseteq Key
  BY DEF BackingInv, SlotInv
<1>2. CASE UNCHANGED vars
  BY <1>2 DEF vars, admission, SlotInv, ActiveIsRunning, Running
<1>3. CASE Crash
  <2>1. Running' = {}
    BY <1>3 DEF Crash, Running, Idle
  <2>2. ActiveIsRunning'
    BY <1>3, <2>1, FS_EmptySet DEF Crash, ActiveIsRunning, Running
  <2> QED
    BY <1>3, <2>1, <2>2, FS_EmptySet, PipelineAssumption DEF Crash, SlotInv, Idle
<1>4. ASSUME NEW c \in Caller, NEW k \in Key, Run(c, k)
      PROVE  SlotInv'
  <2>1. Moves(c, {}) /\ keys' \subseteq Key
    BY <1>1, <1>4 DEF Run, Moves
  <2> QED
    BY <1>1, <2>1, MovesKeepSlots
<1>5. ASSUME NEW c \in Caller, Refuse(c) \/ Continue(c) \/ Step(c) \/ Fail(c)
      PROVE  SlotInv'
  <2>1. CASE Write(c)
    BY <1>1, <2>1, WriteMoves, MovesKeepSlots
  <2>2. CASE ~Write(c)
    BY <1>1, <1>5, <2>2, StepMoves, MovesKeepSlots
  <2> QED
    BY <2>1, <2>2
<1> QED
  BY <1>2, <1>3, <1>4, <1>5 DEF Next

LEMMA SlotsAtFirst == Init => SlotInv
<1> SUFFICES ASSUME Init PROVE SlotInv
  OBVIOUS
<1>1. Running = {}
  BY DEF Init, Running, Idle
<1>2. ActiveIsRunning
  BY <1>1, FS_EmptySet DEF Init, ActiveIsRunning, Running
<1> QED
  BY <1>1, <1>2, FS_EmptySet, PipelineAssumption DEF Init, SlotInv, Idle

\* The slots of an institution are those of its running calls: runPrimary gives
\* its slot back on every way out, and a restart leaves none behind.
THEOREM SlotsAreOfRunningCalls == Spec => []ActiveIsRunning
<1>1. SlotInv => ActiveIsRunning
  BY DEF SlotInv
<1> QED
  BY <1>1, BackingHolds, SlotsAtFirst, SlotsAreKept, PTL DEF Spec
-----------------------------------------------------------------------------
(***************************************************************************)
(* The path from the mint to the close.                                    *)
(***************************************************************************)
\* No station has two places on the route.
LEMMA RoutePlaces ==
    /\ DOMAIN Route = 1..16
    /\ \A i, j \in 1..16 : Route[i] = Route[j] => i = j
    /\ \A i \in 1..16 : Route[i] \in ToSet(Route)
    /\ \A s \in ToSet(Route) : \E i \in 1..16 : Route[i] = s
<1>1. DOMAIN Route = 1..16
  BY DEF Route
<1>2. \A i, j \in 1..16 : Route[i] = Route[j] => i = j
  BY DEF Route
<1> QED
  BY <1>1, <1>2 DEF ToSet

LEMMA AfterPlace ==
    ASSUME NEW i \in 1..15
    PROVE  After(Route[i]) = Route[i + 1]
<1>1. \A j \in DOMAIN Route : Route[j] = Route[i] <=> j = i
  BY RoutePlaces
<1> QED
  BY <1>1, RoutePlaces DEF After

\* From the mint on every station appends a record of its own name.
LEMMA WalkStations ==
    ASSUME NEW i \in MintStation..15
    PROVE  /\ Route[i] \in {"mint", "emission", "commission", "pay1", "pay2",
                            "accrual", "settled", "close"}
           /\ i \in 1..15
<1>1. i \in {8, 9, 10, 11, 12, 13, 14, 15}
  BY DEF MintStation
<1> QED
  BY <1>1 DEF Route

\* A call at one of the early stations has none of the path behind it.
LEMMA EarlyStations ==
    ASSUME NEW x, x.at \in Early
    PROVE  CallWalked(x)
<1>1. \A j \in 9..16 : Route[j] \notin Early
  <2>1. \A j \in 9..16 : j \in {9, 10, 11, 12, 13, 14, 15, 16}
    OBVIOUS
  <2> QED
    BY <2>1 DEF Route, Early
<1> QED
  BY <1>1, RoutePlaces DEF CallWalked, MintStation

\* A step off the journal that goes no further than the mint or stays keeps the
\* path.
LEMMA MovesKeepWalk ==
    ASSUME BackingInv, WalkInv, NEW c \in Caller, UNCHANGED journal,
           Moves(c, Early \cup {call[c].at}), CompletedIsMinted'
    PROVE  WalkInv'
<1>1. /\ \A f : Journalled(f)' <=> Journalled(f)
      /\ \A f, g : Precedes(f, g)' <=> Precedes(f, g)
  BY DEF Journalled, Precedes
<1>2. \A x : CallWalked(x)' <=> CallWalked(x)
  BY <1>1 DEF CallWalked
<1>3. CallWalked(Idle) /\ CallWalked(Started)
  BY EarlyStations DEF Idle, Started, Early
<1>4. ASSUME NEW x, call' = [call EXCEPT ![c] = x], CallWalked(x)
      PROVE  \A d \in Caller : CallWalked(call[d])'
  <2>1. \A d \in Caller : CallWalked(call'[d])
    BY <1>4 DEF BackingInv, WalkInv
  <2> QED
    BY <1>1, <2>1 DEF CallWalked
<1>5. ASSUME NEW x \in Call, x.at \in Early \cup {call[c].at}
      PROVE  CallWalked(x)
  <2>1. CASE x.at \in Early
    BY <2>1, EarlyStations
  <2>2. CASE x.at = call[c].at
    BY <2>2 DEF WalkInv, CallWalked
  <2> QED
    BY <1>5, <2>1, <2>2
<1>6. \A d \in Caller : CallWalked(call[d])'
  <2>1. CASE UNCHANGED call
    BY <1>1, <2>1 DEF WalkInv, CallWalked
  <2> QED
    BY <1>3, <1>4, <1>5, <2>1 DEF Moves
<1>7. \A i, j \in MintStation..15 :
        i < j /\ Journalled(Route[j])' => Precedes(Route[i], Route[j])'
  BY <1>1 DEF WalkInv
<1> QED
  BY <1>6, <1>7 DEF WalkInv

LEMMA WriteWalks ==
    ASSUME BackingInv, WalkInv, NEW c \in Caller, Write(c)
    PROVE  WalkInv'
<1> DEFINE s == call[c].at
<1>1. /\ s \in Writable \cup Plain
      /\ \A g : Journalled(g) => Journalled(g)'
      /\ \A g : Journalled(g)' => Journalled(g) \/ g = FactAt(c)
      /\ \A e, g : Precedes(e, g) => Precedes(e, g)'
      /\ \A e, g : Journalled(e) /\ ~Journalled(g) /\ Journalled(g)' => Precedes(e, g)'
  BY WriteAppends
<1>2. ASSUME NEW i \in MintStation..15, s = Route[i]
      PROVE  Journalled(Route[i])'
  <2>1. FactAt(c) = Route[i] /\ (KeyTaken(s) <=> Journalled(Route[i]))
    BY <1>2, WalkStations DEF FactAt, KeyTaken, Journalled
  <2>2. CASE ~Journalled(Route[i])
    <3>1. /\ journal' = Append(journal, Route[i]) /\ Route[i] \in Fact
          /\ journal \in Seq(Fact)
      BY <2>1, <2>2, WriteAppends DEF Write, BackingInv
    <3> QED
      BY <3>1, AppendKeepsOrder
  <2> QED
    BY <1>1, <2>2
<1>3. ASSUME NEW x \in Call', call' = [call EXCEPT ![c] = x],
             x.at \in Early \/ (s # "abort" /\ x.at = After(s))
      PROVE  \A d \in Caller : CallWalked(call[d])'
  <2>1. CallWalked(x)'
    <3>1. CASE x.at \in Early
      BY <1>1, <3>1, EarlyStations DEF CallWalked
    <3>2. CASE s # "abort" /\ x.at = After(s)
      <4>1. PICK k \in 1..15 : s = Route[k]
        <5>1. s \in ToSet(Route) /\ s # "end"
          BY <1>1, <3>2, RouteStations DEF Writable, Plain
        <5>2. PICK k \in 1..16 : Route[k] = s
          BY <5>1, RoutePlaces
        <5>3. k # 16
          BY <5>1, <5>2 DEF Route
        <5> QED
          BY <5>2, <5>3
      <4>2. x.at = Route[k + 1]
        BY <3>2, <4>1, AfterPlace
      <4> SUFFICES ASSUME NEW j \in DOMAIN Route, NEW i \in MintStation..15,
                          Route[j] = x.at, i < j
                   PROVE  Journalled(Route[i])'
        BY DEF CallWalked
      <4>3. j = k + 1
        BY <4>1, <4>2, RoutePlaces
      <4>4. CASE i = k
        BY <1>2, <4>1, <4>4
      <4>5. CASE i < k
        <5>1. Journalled(Route[i])
          BY <4>1, <4>5, RoutePlaces DEF WalkInv, CallWalked
        <5> QED
          BY <1>1, <5>1
      <4> QED
        BY <4>3, <4>4, <4>5 DEF MintStation
    <3> QED
      BY <1>3, <3>1, <3>2
  <2> SUFFICES ASSUME NEW d \in Caller
               PROVE  CallWalked(call[d])'
    OBVIOUS
  <2>2. CASE d = c
    <3>1. call'[d] = x
      BY <1>3, <2>2 DEF BackingInv
    <3> QED
      BY <2>1, <3>1 DEF CallWalked
  <2>3. CASE d # c
    <3>1. call'[d] = call[d] /\ CallWalked(call[d])
      BY <1>3, <2>3 DEF BackingInv, WalkInv
    <3> QED
      BY <1>1, <3>1 DEF CallWalked
  <2> QED
    BY <2>2, <2>3
<1>4. \A d \in Caller : CallWalked(call[d])'
  <2>1. call[c].mode \in {"run", "continue"} /\ call[c].verdict \in {0, 1}
    BY DEF BackingInv, Call
  <2>2. Len(journal') \in Nat
    BY WriteAppends
  <2>3. CASE Finish(c)
    <3>1. Idle \in Call' /\ Idle.at \in Early
      BY <2>2 DEF Idle, Call, Station, Early
    <3> QED
      BY <1>3, <2>3, <3>1 DEF Finish
  <2>4. ASSUME NEW r \in Station, Goto(c, r, "enter"),
               r \in Early \/ (s # "abort" /\ r = After(s))
        PROVE  \A d \in Caller : CallWalked(call[d])'
    <3> DEFINE y == [at |-> r, phase |-> "enter", mode |-> call[c].mode, seen |-> 0,
                     verdict |-> call[c].verdict]
    <3>1. PICK x : x = y
      OBVIOUS
    <3>2. x \in Call'
      BY <2>1, <2>2, <3>1 DEF Call
    <3>3. call' = [call EXCEPT ![c] = x] /\ x.at = r
      BY <2>4, <3>1 DEF Goto, GotoWith
    <3> QED
      BY <1>3, <2>4, <3>2, <3>3
  <2>5. CASE Goto(c, "abort", "enter")
    BY <2>4, <2>5 DEF Station, Early
  <2>6. CASE s # "abort" /\ Goto(c, After(s), "enter")
    <3>1. After(s) \in Station
      BY <1>1, <2>6, AfterStation DEF Station
    <3> QED
      BY <2>4, <2>6, <3>1
  <2> QED
    BY <2>3, <2>5, <2>6 DEF Write
<1>5. ASSUME NEW i \in MintStation..15, NEW j \in MintStation..15, i < j,
             Journalled(Route[j])'
      PROVE  Precedes(Route[i], Route[j])'
  <2>1. CASE Journalled(Route[j])
    BY <1>1, <1>5, <2>1 DEF WalkInv
  <2>2. CASE ~Journalled(Route[j])
    <3>1. Route[j] = FactAt(c)
      BY <1>1, <1>5, <2>2
    <3>2. s = Route[j]
      BY <3>1, WalkStations DEF FactAt
    <3>3. Journalled(Route[i])
      BY <1>5, <3>2, RoutePlaces, WalkStations DEF WalkInv, CallWalked
    <3> QED
      BY <1>1, <1>5, <2>2, <3>3
  <2> QED
    BY <2>1, <2>2
<1>6. CompletedIsMinted'
  BY <1>1 DEF Write, WalkInv, CompletedIsMinted
<1> QED
  BY <1>4, <1>5, <1>6 DEF WalkInv

LEMMA WalkIsKept == BackingInv /\ WalkInv /\ [Next]_vars => WalkInv'
<1> SUFFICES ASSUME BackingInv, WalkInv, [Next]_vars PROVE WalkInv'
  OBVIOUS
<1>1. CASE UNCHANGED vars
  BY <1>1 DEF vars, WalkInv, CallWalked, CompletedIsMinted, Journalled, Precedes
<1>2. CASE Crash
  <2>1. CallWalked(Idle)
    BY EarlyStations DEF Idle, Early
  <2>2. UNCHANGED <<journal, completed>> /\ call' = [c \in Caller |-> Idle]
    BY <1>2 DEF Crash
  <2>3. (\A c \in Caller : CallWalked(call[c]))'
    BY <2>1, <2>2 DEF CallWalked, Journalled
  <2> QED
    BY <2>2, <2>3 DEF WalkInv, CompletedIsMinted, Journalled, Precedes
<1>3. ASSUME NEW c \in Caller, NEW k \in Key, Run(c, k)
      PROVE  WalkInv'
  <2>1. UNCHANGED <<journal, completed>> /\ Moves(c, Early \cup {call[c].at})
    BY <1>3 DEF Run, Moves
  <2>2. CompletedIsMinted'
    BY <2>1 DEF WalkInv, CompletedIsMinted, Journalled
  <2> QED
    BY <2>1, <2>2, MovesKeepWalk
<1>4. ASSUME NEW c \in Caller, Write(c)
      PROVE  WalkInv'
  BY <1>4, WriteWalks
<1>5. ASSUME NEW c \in Caller, Refuse(c) \/ Continue(c) \/ Step(c) \/ Fail(c), ~Write(c)
      PROVE  WalkInv'
  <2>1. Moves(c, Early \cup {call[c].at})
    BY <1>5, StepMoves
  <2>2. UNCHANGED journal
    BY <1>5 DEF Refuse, Continue, Step, Fail, ResumeDone, Resume, Hydrate, EnterChecked,
                CheckOpen, Register, Verify, Gate, Mint, Settle, Accrue, Advance, Complete
  <2>3. CompletedIsMinted'
    <3>1. CASE ResumeDone(c)
      <4>1. Journalled("mint")
        BY <3>1, ReadIsJournalled DEF ResumeDone, AlreadyDone, BackingInv
      <4> QED
        BY <2>2, <4>1 DEF CompletedIsMinted, Journalled
    <3>2. CASE Complete(c)
      <4>1. Route[16] = call[c].at /\ 16 \in DOMAIN Route /\ Route[8] = "mint"
        BY <3>2 DEF Complete, Route
      <4>2. Journalled(Route[8])
        BY <4>1 DEF WalkInv, CallWalked, MintStation
      <4> QED
        BY <2>2, <4>1, <4>2 DEF CompletedIsMinted, Journalled
    <3>3. CASE UNCHANGED completed
      BY <2>2, <3>3 DEF WalkInv, CompletedIsMinted, Journalled
    <3> QED
      BY <1>5, <3>1, <3>2, <3>3
      DEF Refuse, Continue, Step, Fail, Resume, Hydrate, EnterChecked,
          CheckOpen, Register, Verify, Gate, Mint, Settle, Accrue, Advance
  <2> QED
    BY <2>1, <2>2, <2>3, MovesKeepWalk
<1> QED
  BY <1>1, <1>2, <1>3, <1>4, <1>5 DEF Next, Step
-----------------------------------------------------------------------------
(***************************************************************************)
(* The stage a restart finds, and the types.                               *)
(***************************************************************************)
\* The loop of ProcessService.hydrate over the records of a process.
Loop == INSTANCE SequenceFolds WITH op <- HydrateFact

LEMMA HydratedIsLoop == ASSUME NEW s PROVE HydratedStage(s) = Loop!Fold("awaiting_pot", s)
  BY DEF HydratedStage, Loop!Fold, FoldLeft, Loop!FoldLeft, MapThenFoldSet,
         Loop!MapThenFoldSet, Max, Loop!Max

\* Whatever records a process has, hydrate gives it a stage; without records it
\* is awaiting_pot, and a record more is one round of the loop more.
LEMMA HydratedStages ==
    ASSUME NEW s \in Seq(Fact)
    PROVE  /\ HydratedStage(<<>>) = "awaiting_pot"
           /\ \A f \in Fact : HydratedStage(Append(s, f)) = HydrateFact(HydratedStage(s), f)
           /\ HydratedStage(s) \in Stage
<1>1. HydratedStage(<<>>) = "awaiting_pot"
  BY HydratedIsLoop, Loop!FoldEmpty
<1>2. \A f \in Fact : HydratedStage(Append(s, f)) = HydrateFact(HydratedStage(s), f)
  BY HydratedIsLoop, Loop!FoldAppend
<1>3. "awaiting_pot" \in Stage /\ \A t \in Stage, f \in Fact : HydrateFact(t, f) \in Stage
  BY DEF Stage, HydrateFact
<1>4. HydratedStage(s) \in Stage
  BY <1>3, HydratedIsLoop, Loop!FoldKeeps
<1> QED
  BY <1>1, <1>2, <1>4

\* The part of TypeOK that is not in BackingInv or SlotInv.
MemoryTypes ==
    /\ stage \in Stage \cup {"absent"}
    /\ minted \in BOOLEAN /\ commissioned \in BOOLEAN /\ accrued \in BOOLEAN
    /\ completed \in BOOLEAN
    /\ crashes \in 0..MaxCrashes /\ failures \in 0..MaxFailures

LEMMA BranchTypes ==
    ASSUME NEW c \in Caller, NEW s \in Stage, NEW v, Branch(c, s, v)
    PROVE  stage' \in Stage
  BY DEF Branch, Stage

LEMMA MemoryTypesKept == BackingInv /\ MemoryTypes /\ [Next]_vars => MemoryTypes'
<1> SUFFICES ASSUME BackingInv, MemoryTypes, [Next]_vars PROVE MemoryTypes'
  OBVIOUS
<1> USE DEF MemoryTypes
<1>1. CASE UNCHANGED vars
  BY <1>1 DEF vars, registries, faults
<1>2. CASE Crash
  <2>1. MaxCrashes \in Nat /\ crashes \in 0..MaxCrashes /\ crashes < MaxCrashes
    BY <1>2, PipelineAssumption DEF Crash
  <2>2. crashes' = crashes + 1
    BY <1>2 DEF Crash
  <2>3. crashes' \in 0..MaxCrashes
    BY <2>1, <2>2
  <2> QED
    BY <1>2, <2>3 DEF Crash
<1>3. ASSUME NEW c \in Caller, NEW k \in Key, Run(c, k)
      PROVE  MemoryTypes'
  BY <1>3 DEF Run, registries, faults
<1>4. ASSUME NEW c \in Caller, Fail(c)
      PROVE  MemoryTypes'
  BY <1>4, PipelineAssumption DEF Fail, registries
<1>5. ASSUME NEW c \in Caller, Resume(c)
      PROVE  MemoryTypes'
  <2>1. CASE UNCHANGED stage
    BY <1>5, <2>1 DEF Resume, registries, faults
  <2>2. CASE stage # "absent" /\ Branch(c, stage, "verdict1" \in Read(c))
    BY <1>5, <2>2, BranchTypes DEF Resume, registries, faults
  <2> QED
    BY <1>5, <2>1, <2>2 DEF Resume
<1>6. ASSUME NEW c \in Caller, Hydrate(c)
      PROVE  MemoryTypes'
  <2>1. History(c) \in Seq(Fact)
    BY DEF History, BackingInv, Call
  <2>2. HydratedStage(History(c)) \in Stage
    BY <2>1, HydratedStages
  <2> QED
    BY <1>6, <2>2, BranchTypes DEF Hydrate, registries, faults
<1>7. ASSUME NEW c \in Caller,
             \/ Refuse(c) \/ Continue(c) \/ ResumeDone(c) \/ CheckOpen(c) \/ Verify(c)
             \/ Gate(c) \/ Settle(c) \/ Write(c) \/ Complete(c)
      PROVE  MemoryTypes'
  BY <1>7 DEF Refuse, Continue, ResumeDone, CheckOpen, Verify, Gate, Settle, Write,
              Complete, registries, faults
<1>8. ASSUME NEW c \in Caller, EnterChecked(c) \/ Mint(c) \/ Accrue(c) \/ Register(c)
      PROVE  MemoryTypes'
  BY <1>8 DEF EnterChecked, Mint, Accrue, Register, registries, faults, Stage
<1>9. ASSUME NEW c \in Caller, Advance(c)
      PROVE  MemoryTypes'
  BY <1>9 DEF Advance, StageAt, Stage, registries, faults
<1> QED
  BY <1>1, <1>2, <1>3, <1>4, <1>5, <1>6, <1>7, <1>8, <1>9 DEF Next, Step

LEMMA TypesAtFirst == Init => MemoryTypes
<1> SUFFICES ASSUME Init PROVE MemoryTypes
  OBVIOUS
<1>1. MaxCrashes \in Nat /\ MaxFailures \in Nat
  BY PipelineAssumption
<1>2. 0 \in 0..MaxCrashes /\ 0 \in 0..MaxFailures
  BY <1>1
<1> QED
  BY <1>2 DEF Init, MemoryTypes

\* Whatever overlaps, fails or restarts, a close stands above the whole economic
\* path in its order, and only a minted process is answered "completed".
THEOREM PathsAreWalked == Spec => []PathIsWalked
<1>1. Init => SlotInv /\ WalkInv /\ MemoryTypes
  <2> SUFFICES ASSUME Init PROVE SlotInv /\ WalkInv /\ MemoryTypes
    OBVIOUS
  <2>1. SlotInv
    BY SlotsAtFirst
  <2>2. \A f : ~Journalled(f)
    BY DEF Init, Journalled, ToSet
  <2>3. CallWalked(Idle)
    BY EarlyStations DEF Idle, Early
  <2>4. WalkInv
    BY <2>2, <2>3 DEF Init, WalkInv, CompletedIsMinted
  <2> QED
    BY <2>1, <2>4, TypesAtFirst
<1>2. BackingInv /\ SlotInv /\ WalkInv /\ MemoryTypes => PathIsWalked
  <2> SUFFICES ASSUME BackingInv, SlotInv, WalkInv, MemoryTypes PROVE PathIsWalked
    OBVIOUS
  <2>1. TypeOK
    BY DEF TypeOK, BackingInv, SlotInv, MemoryTypes
  <2>2. ClosedIsComplete
    <3> DEFINE path == <<"mint", "commission", "pay1", "pay2", "accrual", "settled", "close">>
               place == <<8, 10, 11, 12, 13, 14, 15>>
    <3>1. \A i \in 1..7 : place[i] \in MintStation..15 /\ Route[place[i]] = path[i]
      BY DEF Route, MintStation
    <3>2. \A i \in 1..6 : place[i] < place[i + 1]
      OBVIOUS
    <3>3. \A i \in 1..6 : Journalled(path[i + 1]) => Precedes(path[i], path[i + 1])
      BY <3>1, <3>2 DEF WalkInv
    <3>4. Journalled("close") => \A i \in 1..7 : Journalled(path[i])
      <4>1. \A e, g : Precedes(e, g) => Journalled(e)
        BY DEF Precedes, Journalled, ToSet
      <4>2. Route[15] = "close" /\ 15 \in MintStation..15
        BY DEF Route, MintStation
      <4>3. ASSUME Journalled("close"), NEW i \in 1..6 PROVE Journalled(path[i])
        <5>1. place[i] \in MintStation..15 /\ place[i] < 15 /\ Route[place[i]] = path[i]
          BY <3>1
        <5>2. Precedes(Route[place[i]], Route[15])
          BY <4>2, <4>3, <5>1 DEF WalkInv
        <5> QED
          BY <4>1, <5>1, <5>2
      <4>4. path[7] = "close"
        OBVIOUS
      <4>5. \A i \in 1..7 : i \in 1..6 \/ i = 7
        OBVIOUS
      <4> QED
        BY <4>3, <4>4, <4>5
    <3>5. \A i \in 1..6 : i + 1 \in 1..7
      OBVIOUS
    <3> QED
      BY <3>3, <3>4, <3>5 DEF ClosedIsComplete
  <2> QED
    BY <2>1, <2>2 DEF PathIsWalked, WalkInv
<1> QED
  BY <1>1, <1>2, BackingHolds, SlotsAreKept, WalkIsKept, MemoryTypesKept, PTL DEF Spec
-----------------------------------------------------------------------------
(***************************************************************************)
(* One caller whose calls do not fail.                                     *)
(***************************************************************************)
\* The stations after one that appends, for what the registry holds there.
LEMMA AfterSerial ==
    ASSUME NEW s \in Writable \cup Plain, s # "abort"
    PROVE  /\ s = "open" => After(s) = "encoded"
           /\ s = "encoded" => After(s) = "awaiting_pot"
           /\ s \notin {"open", "encoded"} =>
                After(s) \notin {"open", "encoded", "awaiting_pot", "idle", "resume", "hydrate"}
<1>1. PICK i \in 1..15 : Route[i] = s /\ After(s) = Route[i + 1]
  <2>1. \E i \in 1..15 : Route[i] = s
    BY DEF Route, Writable, Plain
  <2> QED
    BY <2>1, AfterPlace
<1>2. (i = 1 => Route[i + 1] = "encoded") /\ (i = 2 => Route[i + 1] = "awaiting_pot")
  BY DEF Route
<1>3. (s = "open" => i = 1) /\ (s = "encoded" => i = 2) /\ (i \in {1, 2} => s \in {"open", "encoded"})
  BY <1>1 DEF Route
<1>4. i \notin {1, 2} => Route[i + 1] \notin {"open", "encoded", "awaiting_pot", "idle", "resume", "hydrate"}
  BY DEF Route
<1> QED
  BY <1>1, <1>2, <1>3, <1>4

\* Where c may go to from a station at which memory and journal agree.
Plainly(x) ==
    /\ x.at \notin {"open", "hydrate", "encoded", "awaiting_pot"}
    /\ x.at \in DOMAIN Pending => x.phase # "write"

LEMMA IdleStage ==
    ASSUME stage \in {"absent", HydratedStage(journal)}
    PROVE  CallStage(Idle)
  BY DEF CallStage, Idle

\* What the registry holds, station by station.
LEMMA StageOf ==
    ASSUME NEW x, CallStage(x)
    PROVE  LET now == HydratedStage(journal) IN
           /\ x.at \in {"idle", "resume"} => stage \in {"absent", now}
           /\ x.at = "open" /\ x.phase = "enter" => stage \in {"absent", now}
           /\ x.at = "open" /\ x.phase = "check" => stage = "absent"
           /\ x.at = "open" /\ x.phase = "write" => stage = "absent" /\ journal = <<>>
           /\ x.at = "hydrate" => stage = "absent" /\ journal # <<>> /\ x.phase = "check"
           /\ x.at = "encoded" /\ x.phase # "write" => journal = <<"open">> /\ stage = "absent"
           /\ x.at = "encoded" /\ x.phase = "write" => journal = <<"open">> /\ stage = "awaiting_pot"
           /\ x.at = "awaiting_pot" =>
                journal = <<"open", "encoded">> /\ stage = "awaiting_pot"
           /\ x.at \in {"pot_done", "settled", "close", "abort"} /\ x.phase = "write" =>
                journal # <<>> /\ stage = StageAt(x.at) /\ now \in Pending[x.at]
           /\ x.at \notin {"idle", "resume"} /\ Plainly(x) => journal # <<>> /\ stage = now
<1> DEFINE now == HydratedStage(journal)
<1> HIDE DEF now
<1>1. DOMAIN Pending = {"pot_done", "settled", "close", "abort"}
  BY DEF Pending
<1> QED
  BY <1>1 DEF CallStage, Plainly, now

LEMMA StageThen ==
    ASSUME NEW x,
           \/ x.at = "open" /\ x.phase = "write" /\ stage' = "absent" /\ journal' = <<>>
           \/ x.at = "encoded" /\ x.phase # "write" /\ stage' = "absent" /\ journal' = <<"open">>
           \/ x.at = "encoded" /\ x.phase = "write" /\ stage' = "awaiting_pot" /\ journal' = <<"open">>
           \/ x.at = "awaiting_pot" /\ stage' = "awaiting_pot" /\ journal' = <<"open", "encoded">>
           \/ Plainly(x) /\ x.at \notin {"idle", "resume"} /\ journal' # <<>>
                /\ stage' = HydratedStage(journal)'
    PROVE  CallStage(x)'
<1>1. DOMAIN Pending = {"pot_done", "settled", "close", "abort"}
  BY DEF Pending
<1> DEFINE now == HydratedStage(journal)'
<1> HIDE DEF now
<1> QED
  BY <1>1 DEF CallStage, Plainly, now

\* The only caller moves to x, and the journal keeps what SerialInv says of it.
LEMMA SerialMove ==
    ASSUME BackingInv, NEW c \in Caller, Caller = {c},
           NEW x, call' = [call EXCEPT ![c] = x],
           (x.phase = "check" => x.seen = Len(journal))', CallStage(x)',
           (journal = <<>> \/ Journalled("open"))',
           (\A f \in DOMAIN Pending \cup {"awaiting_pot"} :
              Journalled(f) => HydratedStage(journal) \in StagesWith(f))'
    PROVE  SerialInv'
<1>1. call'[c] = x /\ \A d \in Caller : d = c
  BY DEF BackingInv
<1> QED
  BY <1>1 DEF SerialInv

LEMMA SerialQuiet ==
    ASSUME BackingInv, SerialInv, failures = 0, NEW c \in Caller, Caller = {c},
           UNCHANGED journal, NEW x, call' = [call EXCEPT ![c] = x],
           x.phase = "check" => x.seen = Len(journal), CallStage(x)'
    PROVE  SerialInv'
<1>1. /\ (journal = <<>> \/ Journalled("open"))'
      /\ (\A f \in DOMAIN Pending \cup {"awaiting_pot"} :
            Journalled(f) => HydratedStage(journal) \in StagesWith(f))'
  BY DEF SerialInv, Journalled
<1>2. (x.phase = "check" => x.seen = Len(journal))'
  OBVIOUS
<1> QED
  BY <1>1, <1>2, SerialMove

LEMMA SerialFinish ==
    ASSUME BackingInv, SerialInv, failures = 0, NEW c \in Caller, Caller = {c},
           UNCHANGED journal, Finish(c), stage' \in {"absent", HydratedStage(journal)}
    PROVE  SerialInv'
<1>1. Idle.phase = "enter" /\ call' = [call EXCEPT ![c] = Idle]
  BY DEF Idle, Finish
<1>2. CallStage(Idle)'
  BY IdleStage DEF CallStage, Idle
<1> QED
  BY <1>1, <1>2, SerialQuiet

\* What a call that goes to a station becomes.
LEMMA GotoCall ==
    ASSUME NEW c \in Caller, NEW s, NEW where, NEW v, GotoWith(c, s, where, v)
    PROVE  \E x : /\ call' = [call EXCEPT ![c] = x] /\ x.at = s /\ x.phase = where
                  /\ where = "check" => x.seen = Len(journal)
                  /\ where # "check" => x.seen = 0
<1> DEFINE y == [at |-> s, phase |-> where, mode |-> call[c].mode,
                 seen |-> IF where = "check" THEN Len(journal) ELSE 0, verdict |-> v]
<1>1. call' = [call EXCEPT ![c] = y]
  BY DEF GotoWith
<1> WITNESS y
<1> QED
  BY <1>1

LEMMA SerialGoto ==
    ASSUME BackingInv, SerialInv, failures = 0, NEW c \in Caller, Caller = {c},
           UNCHANGED journal, NEW s, NEW where, NEW v, GotoWith(c, s, where, v),
           \A x : x.at = s /\ x.phase = where => CallStage(x)'
    PROVE  SerialInv'
<1>1. PICK x : /\ call' = [call EXCEPT ![c] = x] /\ x.at = s /\ x.phase = where
               /\ where = "check" => x.seen = Len(journal)
  BY GotoCall
<1>2. CallStage(x)'
  BY <1>1
<1> QED
  BY <1>1, <1>2, SerialQuiet

LEMMA SerialProceed ==
    ASSUME BackingInv, SerialInv, failures = 0, NEW c \in Caller, Caller = {c},
           UNCHANGED journal, NEW ok \in BOOLEAN, NEW s, NEW where,
           Proceed(c, ok, s, where),
           ok => \A x : x.at = s /\ x.phase = where => CallStage(x)',
           ~ok => stage' \in {"absent", HydratedStage(journal)}
    PROVE  SerialInv'
<1>1. CASE ok /\ Goto(c, s, where)
  BY <1>1, SerialGoto DEF Goto
<1>2. CASE ~ok /\ Finish(c)
  BY <1>2, SerialFinish
<1> QED
  BY <1>1, <1>2 DEF Proceed

LEMMA SerialBranch ==
    ASSUME BackingInv, SerialInv, failures = 0, NEW c \in Caller, Caller = {c},
           UNCHANGED journal, journal # <<>>, NEW v \in BOOLEAN,
           Branch(c, HydratedStage(journal), v)
    PROVE  SerialInv'
<1> DEFINE H == HydratedStage(journal)
<1>1. HydratedStage(journal)' = H
  OBVIOUS
<1>2. CASE stage' = H /\ Finish(c)
  BY <1>2, SerialFinish
<1>3. ASSUME NEW s \in {"evidence", "gate"}, stage' = H, Goto(c, s, "check")
      PROVE  SerialInv'
  <2>1. \A x : x.at = s /\ x.phase = "check" => CallStage(x)'
    BY <1>1, <1>3 DEF CallStage, Pending
  <2> QED
    BY <1>3, <2>1, SerialGoto DEF Goto
<1>4. CASE H = "awaiting_pot" /\ stage' = "pot_done" /\ Goto(c, "pot_done", "write")
  <2>1. \A x : x.at = "pot_done" /\ x.phase = "write" => CallStage(x)'
    BY <1>1, <1>4 DEF CallStage, Pending, StageAt
  <2> QED
    BY <1>4, <2>1, SerialGoto DEF Goto
<1> HIDE DEF H
<1> QED
  BY <1>2, <1>3, <1>4 DEF Branch, H

\* The steps of a call that only change where it stands.
LEMMA SerialCalls ==
    ASSUME BackingInv, SerialInv, failures = 0, NEW c \in Caller, Caller = {c},
           \/ Refuse(c) \/ Continue(c) \/ ResumeDone(c) \/ EnterChecked(c)
           \/ CheckOpen(c) \/ Register(c) \/ Complete(c)
    PROVE  SerialInv'
<1>1. /\ UNCHANGED journal /\ HydratedStage(journal)' = HydratedStage(journal)
      /\ CallStage(call[c])
      /\ call[c].phase = "check" => call[c].seen = Len(journal)
  BY DEF Refuse, Continue, ResumeDone, EnterChecked, CheckOpen, Register, Complete, SerialInv
<1>2. CASE Refuse(c)
  BY <1>1, <1>2, SerialFinish DEF Refuse, CallStage, Pending
<1>3. CASE Continue(c)
  <2>1. stage' \in {"absent", HydratedStage(journal)}
    BY <1>1, <1>3, StageOf DEF Continue
  <2>2. \A x : x.at = "resume" /\ x.phase = "check" => CallStage(x)'
    BY <1>1, <2>1 DEF CallStage
  <2> QED
    BY <1>1, <1>3, <2>2, SerialGoto DEF Continue, Goto
<1>4. CASE ResumeDone(c)
  <2>1. stage' \in {"absent", HydratedStage(journal)}
    BY <1>1, <1>4, StageOf DEF ResumeDone
  <2> QED
    BY <1>1, <1>4, <2>1, SerialFinish DEF ResumeDone
<1>5. CASE Complete(c)
  BY <1>1, <1>5, SerialFinish DEF Complete, CallStage, Pending
<1>6. CASE EnterChecked(c)
  <2> DEFINE s == call[c].at
             ok == ~KnownInMemory(s)
  <2>1. ok \in BOOLEAN
    BY DEF KnownInMemory
  <2>2. stage' = stage /\ stage \in {"absent", HydratedStage(journal)}
    BY <1>1, <1>6 DEF EnterChecked, Checked, CallStage, Pending
  <2>3. ok => \A x : x.at = s /\ x.phase = "check" => CallStage(x)'
    <3>1. CASE s = "open"
      BY <1>1, <2>2, <3>1 DEF KnownInMemory, CallStage
    <3>2. CASE s # "open"
      BY <1>1, <1>6, <2>2, <3>2 DEF EnterChecked, Checked, CallStage, Pending
    <3> QED
      BY <3>1, <3>2
  <2>4. Proceed(c, ok, s, "check")
    BY <1>6 DEF EnterChecked
  <2> HIDE DEF ok, s
  <2> QED
    BY <1>1, <2>1, <2>2, <2>3, <2>4, SerialProceed
<1>7. CASE CheckOpen(c)
  <2> DEFINE ok == "open" \notin Read(c)
  <2>1. stage = "absent" /\ stage' = stage
    BY <1>1, <1>7 DEF CheckOpen, CallStage
  <2>2. Read(c) = ToSet(journal)
    <3>1. History(c) = SubSeq(journal, 1, Len(journal)) /\ journal \in Seq(Fact)
      BY <1>1, <1>7 DEF CheckOpen, History, BackingInv
    <3>2. History(c) = journal
      BY <3>1
    <3> QED
      BY <3>2 DEF Read
  <2>3. ok => journal = <<>>
    BY <2>2 DEF SerialInv, Journalled
  <2>4. ok => \A x : x.at = "open" /\ x.phase = "write" => CallStage(x)'
    BY <1>1, <2>1, <2>3, StageThen
  <2>5. Proceed(c, ok, "open", "write") /\ ok \in BOOLEAN
    BY <1>7 DEF CheckOpen
  <2> HIDE DEF ok
  <2> QED
    BY <1>1, <2>1, <2>4, <2>5, SerialProceed
<1>8. CASE Register(c)
  <2>1. journal = <<"open">> /\ stage' = "awaiting_pot"
    BY <1>1, <1>8 DEF Register, CallStage
  <2>2. \A x : x.at = "encoded" /\ x.phase = "write" => CallStage(x)'
    BY <1>1, <2>1, StageThen
  <2> QED
    BY <1>1, <1>8, <2>2, SerialGoto DEF Register, Goto
<1> QED
  BY <1>2, <1>3, <1>4, <1>5, <1>6, <1>7, <1>8

LEMMA SerialChecks ==
    ASSUME BackingInv, SerialInv, failures = 0, NEW c \in Caller, Caller = {c},
           Resume(c) \/ Hydrate(c) \/ Verify(c) \/ Gate(c) \/ Mint(c) \/ Settle(c) \/ Accrue(c)
    PROVE  SerialInv'
<1>1. /\ UNCHANGED journal /\ HydratedStage(journal)' = HydratedStage(journal)
      /\ CallStage(call[c]) /\ journal \in Seq(Fact)
      /\ call[c].phase = "check" => call[c].seen = Len(journal)
  BY DEF Resume, Hydrate, Verify, Gate, Mint, Settle, Accrue, SerialInv, BackingInv
<1>2. CASE Resume(c)
  <2> DEFINE known == "verdict1" \in Read(c)
             v == IF "verdict1" \in Read(c) THEN 1 ELSE 0
  <2>1. stage \in {"absent", HydratedStage(journal)}
    BY <1>1, <1>2, StageOf DEF Resume
  <2>2. Read(c) # {} => journal # <<>>
    BY ReadIsJournalled DEF BackingInv, Journalled, ToSet
  <2>3. CASE Finish(c) /\ UNCHANGED stage
    BY <1>1, <2>1, <2>3, SerialFinish
  <2>4. CASE Read(c) # {} /\ stage = "absent" /\ stage' = stage /\ GotoWith(c, "hydrate", "check", v)
    <3>1. \A x : x.at = "hydrate" /\ x.phase = "check" => CallStage(x)'
      BY <1>1, <2>2, <2>4 DEF CallStage
    <3> HIDE DEF v
    <3> QED
      BY <1>1, <2>4, <3>1, SerialGoto
  <2>5. CASE Read(c) # {} /\ stage # "absent" /\ Branch(c, stage, known)
    <3>1. known \in BOOLEAN /\ stage = HydratedStage(journal) /\ journal # <<>>
      BY <2>1, <2>2, <2>5
    <3> HIDE DEF known
    <3> QED
      BY <1>1, <2>5, <3>1, SerialBranch
  <2> QED
    BY <1>2, <2>3, <2>4, <2>5 DEF Resume
<1>3. CASE Hydrate(c)
  <2> DEFINE known == call[c].verdict = 1
  <2>0. call[c].at = "hydrate"
    BY <1>3 DEF Hydrate
  <2>1. journal # <<>> /\ call[c].seen = Len(journal)
    BY <1>1, <2>0, StageOf
  <2>2. History(c) = journal
    BY <1>1, <2>1 DEF History
  <2>3. Branch(c, HydratedStage(journal), known) /\ known \in BOOLEAN
    BY <1>3, <2>2 DEF Hydrate
  <2> HIDE DEF known
  <2> QED
    BY <1>1, <2>1, <2>3, SerialBranch
<1>4. ASSUME Verify(c) \/ Gate(c) \/ Mint(c) \/ Settle(c) \/ Accrue(c)
      PROVE  stage' = stage /\ stage = HydratedStage(journal) /\ journal # <<>>
  BY <1>1, <1>4 DEF CallStage, Pending, Verify, Gate, Mint, Settle, Accrue
<1>5. ASSUME stage' = stage, stage = HydratedStage(journal), journal # <<>>, NEW x, Plainly(x)
      PROVE  CallStage(x)'
  BY <1>1, <1>5 DEF CallStage, Plainly
<1>6. CASE Verify(c)
  <2>1. CASE Finish(c)
    BY <1>1, <1>4, <1>6, <2>1, SerialFinish
  <2>2. ASSUME NEW v \in Verdicts, GotoWith(c, "evidence", "write", v)
        PROVE  SerialInv'
    <3>1. \A x : x.at = "evidence" => Plainly(x)
      BY DEF Plainly, Pending
    <3> QED
      BY <1>1, <1>4, <1>5, <1>6, <2>2, <3>1, SerialGoto
  <2> QED
    BY <1>6, <2>1, <2>2 DEF Verify
<1>7. CASE Gate(c)
  <2>1. \A x : x.at = "mint" \/ (x.at = "abort" /\ x.phase = "enter") => Plainly(x)
    BY DEF Plainly, Pending
  <2>2. CASE Proceed(c, Backed(History(c)), "mint", "enter")
    <3>1. Backed(History(c)) \in BOOLEAN
      BY DEF Backed
    <3> QED
      BY <1>1, <1>4, <1>5, <1>7, <2>1, <2>2, <3>1, SerialProceed
  <2>3. CASE Goto(c, "abort", "enter")
    BY <1>1, <1>4, <1>5, <1>7, <2>1, <2>3, SerialGoto DEF Goto
  <2> QED
    BY <1>7, <2>2, <2>3 DEF Gate
<1>8. CASE Mint(c) \/ Settle(c) \/ Accrue(c)
  <2>1. \A x : x.at \in {"mint", "commission", "accrual"} => Plainly(x)
    BY DEF Plainly, Pending
  <2>2. PICK s \in {"mint", "commission", "accrual"} : Proceed(c, s \notin Read(c), s, "write")
    BY <1>8 DEF Mint, Settle, Accrue
  <2> DEFINE ok == s \notin Read(c)
  <2>3. ok \in BOOLEAN /\ Proceed(c, ok, s, "write")
    BY <2>2
  <2> HIDE DEF ok
  <2> QED
    BY <1>1, <1>4, <1>5, <1>8, <2>1, <2>3, SerialProceed
<1> QED
  BY <1>2, <1>3, <1>6, <1>7, <1>8
-----------------------------------------------------------------------------
\* What one record more does to the stage found in the journal.
LEMMA AppendStage ==
    ASSUME BackingInv, NEW f \in Fact, journal' = Append(journal, f)
    PROVE  /\ HydratedStage(journal)' = HydrateFact(HydratedStage(journal), f)
           /\ HydratedStage(journal) \in Stage
           /\ journal' # <<>>
           /\ \A g : Journalled(g)' <=> Journalled(g) \/ g = f
<1>1. PICK s \in Seq(Fact) : s = journal
  BY DEF BackingInv
<1>2. HydratedStage(journal') = HydrateFact(HydratedStage(journal), f)
  BY <1>1, HydratedStages
<1>3. HydratedStage(journal) \in Stage
  BY <1>1, HydratedStages
<1>4. journal' # <<>> /\ (\A g : Journalled(g)' <=> Journalled(g) \/ g = f)
  BY <1>1, AppendKeepsOrder
<1> QED
  BY <1>2, <1>3, <1>4

\* The appends that the stage does not depend on, from a station at which
\* memory and journal agree.
LEMMA SerialPlainWrite ==
    ASSUME BackingInv, SerialInv, failures = 0, NEW c \in Caller, Caller = {c},
           Write(c), call[c].at \notin {"open", "encoded", "awaiting_pot"} \cup DOMAIN Pending
    PROVE  SerialInv'
<1> DEFINE s == call[c].at
           H == HydratedStage(journal)
<1>1. /\ s \in Writable \cup Plain /\ FactAt(c) \in Fact
      /\ s \notin {"idle", "resume", "hydrate", "open", "encoded", "awaiting_pot"}
      /\ s \notin {"pot_done", "settled", "close", "abort"}
  BY WriteAppends DEF Writable, Plain, Pending
<1>2. FactAt(c) \notin {"encoded", "awaiting_pot", "pot_done", "settled", "close", "abort"}
  BY <1>1 DEF FactAt
<1>3. journal # <<>> /\ stage = H /\ stage' = stage /\ UNCHANGED failures
  <2>1. Plainly(call[c]) /\ CallStage(call[c])
    BY <1>1 DEF Plainly, SerialInv
  <2> QED
    BY <1>1, <2>1, StageOf DEF Write, faults
<1>4. /\ journal' # <<>> /\ HydratedStage(journal)' = H
      /\ \A f \in DOMAIN Pending \cup {"awaiting_pot", "open"} : Journalled(f)' <=> Journalled(f)
  <2>1. CASE UNCHANGED journal
    BY <1>3, <2>1 DEF Journalled
  <2>2. CASE journal' = Append(journal, FactAt(c))
    <3>1. HydrateFact(H, FactAt(c)) = H
      BY <1>2 DEF HydrateFact
    <3>2. FactAt(c) \notin DOMAIN Pending \cup {"awaiting_pot", "open"}
      BY <1>1, <1>2 DEF Pending, FactAt
    <3> QED
      BY <1>1, <2>2, <3>1, <3>2, AppendStage
  <2> QED
    BY <2>1, <2>2 DEF Write
<1>5. /\ (journal = <<>> \/ Journalled("open"))'
      /\ (\A f \in DOMAIN Pending \cup {"awaiting_pot"} :
            Journalled(f) => HydratedStage(journal) \in StagesWith(f))'
  BY <1>3, <1>4 DEF SerialInv
<1>6. CASE Finish(c)
  <2>1. CallStage(Idle)'
    BY <1>3, <1>4 DEF CallStage, Idle
  <2>2. call' = [call EXCEPT ![c] = Idle] /\ Idle.phase = "enter"
    BY <1>6 DEF Finish, Idle
  <2> QED
    BY <1>5, <2>1, <2>2, SerialMove
<1>7. ASSUME NEW r, Goto(c, r, "enter"),
             r \notin {"idle", "resume", "open", "hydrate", "encoded", "awaiting_pot"}
      PROVE  SerialInv'
  <2>1. PICK x : call' = [call EXCEPT ![c] = x] /\ x.at = r /\ x.phase = "enter"
    BY <1>7, GotoCall DEF Goto
  <2>2. CallStage(x)'
    BY <1>3, <1>4, <1>7, <2>1, StageThen DEF Plainly
  <2> QED
    BY <1>5, <2>1, <2>2, SerialMove
<1> QED
  BY <1>1, <1>6, <1>7, AfterSerial DEF Write

\* The appends that bring the journal to the stage set in memory.
LEMMA SerialStageWrite ==
    ASSUME BackingInv, SerialInv, failures = 0, NEW c \in Caller, Caller = {c},
           Write(c), call[c].at \in DOMAIN Pending
    PROVE  SerialInv'
<1> DEFINE s == call[c].at
           H == HydratedStage(journal)
<1>1. s \in {"pot_done", "settled", "close", "abort"} /\ call[c].phase = "write"
  BY DEF Write, Pending, Plain
<1>2. journal # <<>> /\ stage = StageAt(s) /\ H \in Pending[s] /\ stage' = stage
  BY <1>1, StageOf DEF Write, SerialInv
<1>3. FactAt(c) = s /\ s \in Fact /\ (KeyTaken(s) <=> Journalled(s))
  BY <1>1, WriteAppends DEF FactAt, KeyTaken, Journalled
<1>4. ~Journalled(s)
  <2>1. Journalled(s) => H \in StagesWith(s)
    BY DEF SerialInv
  <2> QED
    BY <1>1, <1>2, <2>1 DEF StagesWith, Pending, Stage, Terminal
<1>5. journal' = Append(journal, s)
  BY <1>3, <1>4 DEF Write
<1>6. /\ HydratedStage(journal)' = HydrateFact(H, s) /\ H \in Stage /\ journal' # <<>>
      /\ \A g : Journalled(g)' <=> Journalled(g) \/ g = s
  BY <1>3, <1>5, AppendStage
<1>7. HydratedStage(journal)' = StageAt(s)
  BY <1>1, <1>2, <1>6 DEF HydrateFact, Pending, StageAt, Stage, Terminal
<1>8. (journal = <<>> \/ Journalled("open"))'
  BY <1>2, <1>6 DEF SerialInv
<1>9. (\A f \in DOMAIN Pending \cup {"awaiting_pot"} :
         Journalled(f) => HydratedStage(journal) \in StagesWith(f))'
  <2> SUFFICES ASSUME NEW f \in DOMAIN Pending \cup {"awaiting_pot"}, Journalled(f)'
               PROVE  StageAt(s) \in StagesWith(f)
    BY <1>7
  <2>1. CASE f = s
    BY <1>1, <2>1 DEF StageAt, StagesWith, Stage, Terminal
  <2>2. CASE f # s
    <3>1. H \in StagesWith(f)
      BY <1>6, <2>2 DEF SerialInv
    <3>2. f \in {"pot_done", "settled", "close", "abort", "awaiting_pot"}
      BY DEF Pending
    <3> HIDE DEF H
    <3>3. CASE s = "pot_done"
      BY <1>2, <3>1, <3>2, <3>3 DEF StageAt, StagesWith, Stage, Terminal, Pending
    <3>4. CASE s = "settled"
      BY <1>2, <2>2, <3>1, <3>2, <3>4 DEF StageAt, StagesWith, Stage, Terminal, Pending
    <3>5. CASE s \in {"close", "abort"}
      BY <1>2, <3>1, <3>2, <3>5 DEF StageAt, StagesWith, Stage, Terminal, Pending
    <3> QED
      BY <1>1, <3>3, <3>4, <3>5
  <2> QED
    BY <2>1, <2>2
<1>10. CASE s = "abort"
  <2>1. CallStage(Idle)'
    BY <1>2, <1>7 DEF CallStage, Idle
  <2>2. call' = [call EXCEPT ![c] = Idle] /\ Idle.phase = "enter"
    BY <1>10 DEF Write, Finish, Idle
  <2> QED
    BY <1>8, <1>9, <2>1, <2>2, SerialMove
<1>11. CASE s # "abort"
  <2>1. Goto(c, After(s), "enter")
    BY <1>1, <1>11 DEF Write
  <2>2. PICK x : call' = [call EXCEPT ![c] = x] /\ x.at = After(s) /\ x.phase = "enter"
    BY <2>1, GotoCall DEF Goto
  <2>3. After(s) \notin {"open", "encoded", "awaiting_pot", "idle", "resume", "hydrate"}
    BY <1>1, <1>11, AfterSerial DEF Writable
  <2>4. CallStage(x)'
    BY <1>2, <1>6, <1>7, <2>2, <2>3, StageThen DEF Plainly
  <2> QED
    BY <1>8, <1>9, <2>2, <2>4, SerialMove
<1> QED
  BY <1>10, <1>11

\* The first records, process_open and its two stages.
LEMMA SerialFirstWrite ==
    ASSUME BackingInv, SerialInv, failures = 0, NEW c \in Caller, Caller = {c},
           Write(c), call[c].at \in {"open", "encoded", "awaiting_pot"}
    PROVE  SerialInv'
<1> DEFINE s == call[c].at
<1>1. s \in Writable \cup Plain /\ (s # "awaiting_pot" => call[c].phase = "write")
  BY WriteAppends DEF Write, Plain
<1>2. /\ s = "open" => journal = <<>> /\ stage = "absent"
      /\ s = "encoded" => journal = <<"open">> /\ stage = "awaiting_pot"
      /\ s = "awaiting_pot" => journal = <<"open", "encoded">> /\ stage = "awaiting_pot"
      /\ stage' = stage
  BY <1>1, StageOf DEF SerialInv, Write
<1>3. FactAt(c) = s /\ s \in Fact /\ ~KeyTaken(s)
  BY <1>2, WriteAppends DEF FactAt, KeyTaken, ToSet
<1>4. journal' = Append(journal, s)
  BY <1>3 DEF Write
<1>5. /\ s = "open" => journal' = <<"open">>
      /\ s = "encoded" => journal' = <<"open", "encoded">>
  <2>1. <<"open">> = Append(<<>>, "open") /\ <<"open", "encoded">> = Append(<<"open">>, "encoded")
    OBVIOUS
  <2> QED
    BY <1>2, <1>4, <2>1
<1>6. /\ HydratedStage(journal)' = HydrateFact(HydratedStage(journal), s)
      /\ HydratedStage(journal) \in Stage /\ journal' # <<>>
      /\ \A g : Journalled(g)' <=> Journalled(g) \/ g = s
  BY <1>3, <1>4, AppendStage
<1>7. Journalled("open")'
  <2>1. s # "open" => Journalled("open")
    BY <1>2 DEF SerialInv
  <2> QED
    BY <1>6, <2>1
<1>8. \A f \in DOMAIN Pending : ~Journalled(f) /\ ~Journalled(f)'
  <2>1. \A f \in DOMAIN Pending : f \in {"pot_done", "settled", "close", "abort"}
    BY DEF Pending
  <2>2. \A f \in {"pot_done", "settled", "close", "abort"} : ~Journalled(f)
    BY <1>2 DEF Journalled, ToSet
  <2> QED
    BY <1>6, <2>1, <2>2
<1>9. s = "awaiting_pot" => HydratedStage(journal)' = "awaiting_pot"
  <2>1. s = "awaiting_pot" => HydratedStage(journal) \in {"awaiting_pot", "encoded"}
    <3>1. /\ HydratedStage(<<"open">>) = HydrateFact(HydratedStage(<<>>), "open")
          /\ HydratedStage(<<"open", "encoded">>) = HydrateFact(HydratedStage(<<"open">>), "encoded")
      <4>1. <<>> \in Seq(Fact) /\ <<"open">> \in Seq(Fact) /\ {"open", "encoded"} \subseteq Fact
        BY RouteStations DEF Fact
      <4>2. <<"open">> = Append(<<>>, "open") /\ <<"open", "encoded">> = Append(<<"open">>, "encoded")
        OBVIOUS
      <4> QED
        BY <4>1, <4>2, HydratedStages
    <3>2. HydratedStage(<<>>) = "awaiting_pot"
      BY HydratedIsLoop, Loop!FoldEmpty
    <3>3. HydratedStage(<<"open">>) = "awaiting_pot"
      BY <3>1, <3>2 DEF HydrateFact
    <3> QED
      BY <1>2, <3>1, <3>3 DEF HydrateFact
  <2> QED
    BY <1>6, <2>1 DEF HydrateFact, Terminal
<1>10. (\A f \in DOMAIN Pending \cup {"awaiting_pot"} :
         Journalled(f) => HydratedStage(journal) \in StagesWith(f))'
  <2>1. s # "awaiting_pot" => ~Journalled("awaiting_pot")'
    <3>1. ~Journalled("awaiting_pot")
      BY <1>2 DEF Journalled, ToSet
    <3> QED
      BY <1>6, <3>1
  <2>2. "awaiting_pot" \in StagesWith("awaiting_pot")
    BY DEF StagesWith, Stage
  <2> QED
    BY <1>8, <1>9, <2>1, <2>2
<1>11. Goto(c, After(s), "enter")
  BY DEF Write
<1>12. PICK x : call' = [call EXCEPT ![c] = x] /\ x.at = After(s) /\ x.phase = "enter"
  BY <1>11, GotoCall DEF Goto
<1>13. CallStage(x)'
  <2>1. s = "open" => After(s) = "encoded"
    BY <1>1, AfterSerial
  <2>2. s = "encoded" => After(s) = "awaiting_pot"
    BY <1>1, AfterSerial
  <2>3. s = "awaiting_pot" => Plainly(x) /\ x.at \notin {"idle", "resume"}
    BY <1>1, <1>12, AfterSerial DEF Plainly
  <2> QED
    BY <1>2, <1>5, <1>6, <1>9, <1>12, <2>1, <2>2, <2>3, StageThen
<1> QED
  BY <1>7, <1>10, <1>12, <1>13, SerialMove

LEMMA SerialAdvance ==
    ASSUME BackingInv, SerialInv, failures = 0, NEW c \in Caller, Caller = {c}, Advance(c)
    PROVE  SerialInv'
<1> DEFINE s == call[c].at
           to == StageAt(s)
           ok == CanTransition(stage, to)
<1>1. /\ s \in {"pot_done", "settled", "close", "abort"} /\ call[c].phase = "enter"
      /\ UNCHANGED journal /\ HydratedStage(journal)' = HydratedStage(journal)
      /\ ok \in BOOLEAN /\ Proceed(c, ok, s, "write")
      /\ stage' = IF ok THEN to ELSE stage
  BY DEF Advance, CanTransition
<1>2. journal # <<>> /\ stage = HydratedStage(journal)
  <2>1. CallStage(call[c]) /\ Plainly(call[c])
    BY <1>1 DEF SerialInv, Plainly
  <2> QED
    BY <1>1, <2>1, StageOf
<1>3. ok => stage \in Pending[s]
  BY <1>1 DEF CanTransition, Allowed, StageAt, Pending, Stage, Terminal
<1>4. ok => \A x : x.at = s /\ x.phase = "write" => CallStage(x)'
  <2> DEFINE now == HydratedStage(journal)'
  <2>1. s \in DOMAIN Pending
    BY <1>1 DEF Pending
  <2> SUFFICES ASSUME ok, NEW x, x.at = s, x.phase = "write" PROVE CallStage(x)'
    OBVIOUS
  <2>2. journal' # <<>> /\ stage' = StageAt(x.at) /\ now \in Pending[x.at]
    BY <1>1, <1>2, <1>3
  <2> HIDE DEF now, ok
  <2> QED
    BY <1>1, <2>1, <2>2 DEF CallStage, now
<1> HIDE DEF ok, s
<1> QED
  BY <1>1, <1>2, <1>4, SerialProceed

LEMMA SerialIsKept ==
    ASSUME NEW c, Caller = {c}
    PROVE  BackingInv /\ MemoryTypes /\ SerialInv /\ [Next]_vars => SerialInv'
<1> SUFFICES ASSUME BackingInv, MemoryTypes, SerialInv, [Next]_vars PROVE SerialInv'
  OBVIOUS
<1>1. c \in Caller /\ \A d \in Caller : d = c
  OBVIOUS
<1>2. failures' = 0 => failures = 0
  <2>1. failures \in Nat
    BY PipelineAssumption DEF MemoryTypes
  <2>2. CASE UNCHANGED failures
    BY <2>2
  <2>3. CASE failures' = failures + 1
    BY <2>1, <2>3
  <2> QED
    BY <2>2, <2>3
    DEF Next, vars, faults, Crash, Run, Refuse, Continue, Step, Fail, ResumeDone, Resume,
        Hydrate, EnterChecked, CheckOpen, Register, Verify, Gate, Mint, Settle, Accrue,
        Advance, Write, Complete
<1>3. SUFFICES ASSUME failures = 0, failures' = 0 PROVE SerialInv'
  BY <1>2 DEF SerialInv
<1>4. CASE UNCHANGED vars
  BY <1>4 DEF vars, faults, SerialInv, Journalled, CallStage
<1>5. CASE Crash
  <2>1. call'[c] = Idle /\ Idle.phase = "enter" /\ stage' = "absent" /\ UNCHANGED journal
    BY <1>1, <1>5 DEF Crash, Idle
  <2>2. CallStage(Idle)'
    BY <2>1 DEF CallStage, Idle
  <2>3. /\ (journal = <<>> \/ Journalled("open"))'
        /\ (\A f \in DOMAIN Pending \cup {"awaiting_pot"} :
              Journalled(f) => HydratedStage(journal) \in StagesWith(f))'
    BY <1>3, <2>1 DEF SerialInv, Journalled
  <2> QED
    BY <1>1, <2>1, <2>2, <2>3 DEF SerialInv
<1>6. ASSUME NEW k \in Key, Run(c, k)
      PROVE  SerialInv'
  <2>1. /\ stage \in {"absent", HydratedStage(journal)} /\ UNCHANGED <<stage, journal>>
    BY <1>1, <1>3, <1>6, StageOf DEF Run, SerialInv
  <2>2. CASE call' = [call EXCEPT ![c] = Started]
    <3>1. CallStage(Started)' /\ Started.phase = "enter"
      BY <2>1 DEF CallStage, Started
    <3> QED
      BY <1>1, <1>3, <2>1, <2>2, <3>1, SerialQuiet
  <2>3. CASE UNCHANGED call
    <3>1. UNCHANGED <<stage, journal, call, failures>>
      BY <1>3, <2>1, <2>3
    <3> QED
      BY <3>1 DEF SerialInv, Journalled, CallStage
  <2> QED
    BY <1>6, <2>2, <2>3 DEF Run
<1>7. ASSUME Fail(c)
      PROVE  FALSE
  BY <1>3, <1>7 DEF Fail
<1>8. ASSUME Write(c)
      PROVE  SerialInv'
  BY <1>1, <1>3, <1>8, SerialPlainWrite, SerialStageWrite, SerialFirstWrite
<1>9. ASSUME Refuse(c) \/ Continue(c) \/ (Step(c) /\ ~Write(c))
      PROVE  SerialInv'
  BY <1>1, <1>3, <1>9, SerialCalls, SerialChecks, SerialAdvance DEF Step
<1> QED
  BY <1>1, <1>4, <1>5, <1>6, <1>7, <1>8, <1>9 DEF Next, Step

\* With one caller at a time, between its calls and unless one has failed, a
\* process in memory has the stage a restart would find: every change of the
\* stage is journalled, and no append finds its key taken with another stage.
THEOREM MemoryFollowsJournal ==
    ASSUME NEW c, Caller = {c}
    PROVE  Spec => []StageFollowsJournal
<1>1. Init => MemoryTypes /\ SerialInv
  <2> SUFFICES ASSUME Init PROVE SerialInv
    BY TypesAtFirst
  <2>1. journal = <<>> /\ stage = "absent" /\ call = [d \in Caller |-> Idle]
    BY DEF Init
  <2>2. \A f : ~Journalled(f)
    BY <2>1 DEF Journalled, ToSet
  <2>3. CallStage(Idle) /\ Idle.phase = "enter"
    BY <2>1 DEF CallStage, Idle
  <2> QED
    BY <2>1, <2>2, <2>3 DEF SerialInv
<1>2. SerialInv => StageFollowsJournal
  <2> SUFFICES ASSUME SerialInv, stage # "absent", failures = 0,
                      \A d \in Caller : call[d].at = "idle"
               PROVE  stage = HydratedStage(journal)
    BY DEF StageFollowsJournal
  <2>1. CallStage(call[c]) /\ call[c].at = "idle"
    BY DEF SerialInv
  <2> QED
    BY <2>1, StageOf
<1>3. BackingInv /\ MemoryTypes /\ SerialInv /\ [Next]_vars => SerialInv'
  BY SerialIsKept
<1> QED
  BY <1>1, <1>2, <1>3, BackingHolds, MemoryTypesKept, PTL DEF Spec
-----------------------------------------------------------------------------
(***************************************************************************)
(* The tokenization page (module TokenizationWizard), from which a run of  *)
(* the pipeline starts. WizardInv adds to the two properties what the page *)
(* shows before anything is sent: each field is of the package chosen, or  *)
(* of an answer named as late, or the choice is empty.                     *)
(***************************************************************************)

NoLoads == [t \in Type |-> 0]

\* What the page shows is of one package, but for the answers that came too late.
PageFits ==
    /\ documentPackageHash # Nil /\ "hash" \notin late =>
          documentPackageHash = slotFiles \/ slotFiles = Empty
    /\ sigVerify # Nil /\ "hash" \notin late /\ "signature" \notin late =>
          sigVerify = documentPackageHash \/ slotFiles = Empty
    /\ enrichment # Nil /\ "hash" \notin late /\ "enrichment" \notin late =>
          enrichment = documentPackageHash \/ slotFiles = Empty
    /\ "catalogue" \notin late => evidenceDef = assetType \/ loads # NoLoads

\* What was sent off, as it was on the page when it was sent.
SubmissionFits ==
    FingerprintIsOfPackage /\ SubmittedIsVerified /\ SignalsAreOfPackage /\ EvidenceIsOfType

\* An accepted submission is all its key stands for, and only the wizard that was
\* left has gone to a process.
\* What the edge has opened was sent by this page under the key it is filed under.
AcceptedIsOwn ==
    /\ opened # Nil => step = Gone
    /\ submission # Nil /\ submission.at = "answered" =>
          \A p \in Known(submission.by, submission.key) :
              p.by = submission.by /\ p.body = submission.body

WizardInv == WizardTypeOK /\ PageFits /\ SubmissionFits /\ AcceptedIsOwn /\ OpenedIsSubmitted

LEMMA EmptyIsPackage == Empty \in Package
BY DEF Empty, Package

LEMMA WizardStarts == WizardInit => WizardInv
<1> SUFFICES ASSUME WizardInit PROVE WizardInv OBVIOUS
<1>1. WizardTypeOK
  <2>1. loads \in [Type -> Nat] /\ hashing \in [1..MaxFiles -> Package \cup {Nil}]
    BY DEF WizardInit
  <2>2. /\ types \in 0..MaxTypes /\ selections \in 0..MaxFiles /\ starts \in 0..MaxStarts
        /\ outages \in 0..MaxOutages /\ backs \in 0..MaxBacks /\ step \in 0..Gone
    BY WizardAssumption DEF WizardInit, Gone
  <2> QED BY <2>1, <2>2, WizardAssumption, EmptyIsPackage DEF WizardInit, WizardTypeOK
<1>2. PageFits
  BY DEF WizardInit, PageFits
<1>3. SubmissionFits /\ AcceptedIsOwn /\ OpenedIsSubmitted
  BY DEF WizardInit, SubmissionFits, FingerprintIsOfPackage, SubmittedIsVerified,
         SignalsAreOfPackage, EvidenceIsOfType, AcceptedIsOwn, OpenedIsSubmitted
<1> QED BY <1>1, <1>2, <1>3 DEF WizardInv

\* The page's own steps: nothing is submitted, and a page that was left stays so.
LEMMA PageKeeps ==
    ASSUME WizardInv, UNCHANGED <<submission, edgeState>>, step = Gone => step' = Gone,
           WizardTypeOK', PageFits'
    PROVE  WizardInv'
<1>1. submission' = submission /\ processes' = processes /\ opened' = opened
  BY DEF edgeState
<1>2. SubmissionFits'
  BY <1>1 DEF WizardInv, SubmissionFits, FingerprintIsOfPackage, SubmittedIsVerified,
         SignalsAreOfPackage, EvidenceIsOfType
<1>3. AcceptedIsOwn' /\ OpenedIsSubmitted'
  BY <1>1 DEF WizardInv, AcceptedIsOwn, OpenedIsSubmitted, Known
<1> QED BY <1>2, <1>3 DEF WizardInv

LEMMA SelectTypeKeeps ==
    ASSUME WizardInv, NEW t \in Type, SelectType(t)
    PROVE  WizardInv'
<1> USE DEF choice, package, signature, enriched, session, edgeState, counters, awaited
<1>0. loads' \in [Type -> Nat] /\ types' \in 0..MaxTypes
  <2>1. loads' \in [Type -> Nat]
    BY DEF WizardInv, WizardTypeOK, SelectType
  <2>2. types \in 0..MaxTypes /\ MaxTypes \in Nat
    BY WizardAssumption DEF WizardInv, WizardTypeOK
  <2>3. types < MaxTypes /\ types' = types + 1
    BY DEF SelectType
  <2> QED BY <2>1, <2>2, <2>3
<1>1. UNCHANGED <<submission, edgeState>> /\ (step = Gone => step' = Gone)
  BY DEF SelectType, Turn, Gone
<1>2. WizardTypeOK'
  BY <1>0, EmptyIsPackage, WizardAssumption DEF WizardInv, WizardTypeOK, SelectType, Turn, Back, TooLate, LateKind, Gone
<1>3. PageFits'
  BY DEF WizardInv, WizardTypeOK, PageFits, Empty, NoLoads, TooLate, Turn, SelectType
<1> QED BY <1>1, <1>2, <1>3, PageKeeps

LEMMA ContinueToEvidenceKeeps ==
    ASSUME WizardInv, ContinueToEvidence
    PROVE  WizardInv'
<1> USE DEF choice, package, signature, enriched, session, edgeState, counters, awaited
<1>1. UNCHANGED <<submission, edgeState>> /\ (step = Gone => step' = Gone)
  BY DEF ContinueToEvidence, Turn, Gone
<1>2. WizardTypeOK'
  BY WizardAssumption DEF WizardInv, WizardTypeOK, ContinueToEvidence, Turn, Back, TooLate, LateKind, Gone
<1>3. PageFits'
  BY DEF WizardInv, WizardTypeOK, PageFits, Empty, NoLoads, TooLate, Turn, ContinueToEvidence
<1> QED BY <1>1, <1>2, <1>3, PageKeeps

LEMMA CatalogueAnswersKeeps ==
    ASSUME WizardInv, NEW t \in Type, CatalogueAnswers(t)
    PROVE  WizardInv'
<1> USE DEF choice, package, signature, enriched, session, edgeState, counters, awaited
<1>1. UNCHANGED <<submission, edgeState>> /\ (step = Gone => step' = Gone)
  BY DEF CatalogueAnswers, Turn, Gone
<1>2. WizardTypeOK'
  BY WizardAssumption DEF WizardInv, WizardTypeOK, CatalogueAnswers, Turn, Back, TooLate, LateKind, Gone
<1>3. PageFits'
  BY DEF WizardInv, WizardTypeOK, PageFits, Empty, NoLoads, TooLate, Turn, CatalogueAnswers
<1> QED BY <1>1, <1>2, <1>3, PageKeeps

LEMMA SelectFilesKeeps ==
    ASSUME WizardInv, NEW s \in Slot, NEW f \in File \cup {Nil}, SelectFiles(s, f)
    PROVE  WizardInv'
<1> USE DEF choice, package, signature, enriched, session, edgeState, counters, awaited
<1>0. /\ [slotFiles EXCEPT ![s] = f] \in Package
      /\ hashing' \in [1..MaxFiles -> Package \cup {Nil}] /\ selections' \in 0..MaxFiles
  <2>1. [slotFiles EXCEPT ![s] = f] \in Package
    BY DEF WizardInv, WizardTypeOK, Package
  <2>2. selections \in 0..MaxFiles /\ MaxFiles \in Nat
    BY WizardAssumption DEF WizardInv, WizardTypeOK
  <2>3. selections < MaxFiles /\ selections' = selections + 1
    BY DEF SelectFiles
  <2> QED BY <2>1, <2>2, <2>3 DEF WizardInv, WizardTypeOK, SelectFiles
<1>1. UNCHANGED <<submission, edgeState>> /\ (step = Gone => step' = Gone)
  BY DEF SelectFiles, Turn, Gone
<1>2. WizardTypeOK'
  BY <1>0, EmptyIsPackage, WizardAssumption DEF WizardInv, WizardTypeOK, SelectFiles, Turn, Back, TooLate, LateKind, Gone
<1>3. PageFits'
  BY DEF WizardInv, WizardTypeOK, PageFits, Empty, NoLoads, TooLate, Turn, SelectFiles
<1> QED BY <1>1, <1>2, <1>3, PageKeeps

LEMMA HashedKeeps ==
    ASSUME WizardInv, NEW i \in 1..MaxFiles, Hashed(i)
    PROVE  WizardInv'
<1> USE DEF choice, package, signature, enriched, session, edgeState, counters, awaited
<1>1. UNCHANGED <<submission, edgeState>> /\ (step = Gone => step' = Gone)
  BY DEF Hashed, Turn, Gone
<1>2. WizardTypeOK'
  BY WizardAssumption DEF WizardInv, WizardTypeOK, Hashed, Turn, Back, TooLate, LateKind, Gone
<1>3. PageFits'
  BY DEF WizardInv, WizardTypeOK, PageFits, Empty, NoLoads, TooLate, Turn, Hashed
<1> QED BY <1>1, <1>2, <1>3, PageKeeps

LEMMA TurnPageKeeps ==
    ASSUME WizardInv, TurnPage
    PROVE  WizardInv'
<1> USE DEF choice, package, signature, enriched, session, edgeState, counters, awaited
<1>0. step' \in 0..Gone /\ backs' \in 0..MaxBacks
  <2>1. backs \in 0..MaxBacks /\ MaxBacks \in Nat
    BY WizardAssumption DEF WizardInv, WizardTypeOK
  <2>2. backs' = backs \/ Back
    BY DEF TurnPage
  <2>3. step' \in 0..Gone
    BY DEF TurnPage, Turn, Gone
  <2> QED BY <2>1, <2>2, <2>3 DEF Back
<1>1. UNCHANGED <<submission, edgeState>> /\ (step = Gone => step' = Gone)
  BY DEF TurnPage, Turn, Gone
<1>2. WizardTypeOK'
  BY <1>0, WizardAssumption DEF WizardInv, WizardTypeOK, TurnPage, Turn, Back, TooLate, LateKind, Gone
<1>3. PageFits'
  BY DEF WizardInv, WizardTypeOK, PageFits, Empty, NoLoads, TooLate, Turn, TurnPage
<1> QED BY <1>1, <1>2, <1>3, PageKeeps

LEMMA TickSignatureKeeps ==
    ASSUME WizardInv, NEW b \in BOOLEAN, TickSignature(b)
    PROVE  WizardInv'
<1> USE DEF choice, package, signature, enriched, session, edgeState, counters, awaited
<1>1. UNCHANGED <<submission, edgeState>> /\ (step = Gone => step' = Gone)
  BY DEF TickSignature, Turn, Gone
<1>2. WizardTypeOK'
  BY WizardAssumption DEF WizardInv, WizardTypeOK, TickSignature, Turn, Back, TooLate, LateKind, Gone
<1>3. PageFits'
  BY DEF WizardInv, WizardTypeOK, PageFits, Empty, NoLoads, TooLate, Turn, TickSignature
<1> QED BY <1>1, <1>2, <1>3, PageKeeps

LEMMA BackToEvidenceKeeps ==
    ASSUME WizardInv, BackToEvidence
    PROVE  WizardInv'
<1> USE DEF choice, package, signature, enriched, session, edgeState, counters, awaited
<1>1. UNCHANGED <<submission, edgeState>> /\ (step = Gone => step' = Gone)
  BY DEF BackToEvidence, Turn, Gone
<1>2. WizardTypeOK'
  BY WizardAssumption DEF WizardInv, WizardTypeOK, BackToEvidence, Turn, Back, TooLate, LateKind, Gone
<1>3. PageFits'
  BY DEF WizardInv, WizardTypeOK, PageFits, Empty, NoLoads, TooLate, Turn, BackToEvidence
<1> QED BY <1>1, <1>2, <1>3, PageKeeps

LEMMA ConfirmSignatureKeeps ==
    ASSUME WizardInv, ConfirmSignature
    PROVE  WizardInv'
<1> USE DEF choice, package, signature, enriched, session, edgeState, counters, awaited
<1>1. UNCHANGED <<submission, edgeState>> /\ (step = Gone => step' = Gone)
  BY DEF ConfirmSignature, Turn, Gone
<1>2. WizardTypeOK'
  BY WizardAssumption DEF WizardInv, WizardTypeOK, ConfirmSignature, Turn, Back, TooLate, LateKind, Gone
<1>3. PageFits'
  BY DEF WizardInv, WizardTypeOK, PageFits, Empty, NoLoads, TooLate, Turn, ConfirmSignature
<1> QED BY <1>1, <1>2, <1>3, PageKeeps

LEMMA SignatureAnswersKeeps ==
    ASSUME WizardInv, SignatureAnswers
    PROVE  WizardInv'
<1> USE DEF choice, package, signature, enriched, session, edgeState, counters, awaited
<1>1. UNCHANGED <<submission, edgeState>> /\ (step = Gone => step' = Gone)
  BY DEF SignatureAnswers, Turn, Gone
<1>2. WizardTypeOK'
  BY WizardAssumption DEF WizardInv, WizardTypeOK, SignatureAnswers, Turn, Back, TooLate, LateKind, Gone, Verification
<1>3. PageFits'
  BY DEF WizardInv, WizardTypeOK, PageFits, TooLate, Verification, SignatureAnswers
<1> QED BY <1>1, <1>2, <1>3, PageKeeps

LEMMA DeclareFieldsKeeps ==
    ASSUME WizardInv, NEW b \in BOOLEAN, DeclareFields(b)
    PROVE  WizardInv'
<1> USE DEF choice, package, signature, enriched, session, edgeState, counters, awaited
<1>1. UNCHANGED <<submission, edgeState>> /\ (step = Gone => step' = Gone)
  BY DEF DeclareFields, Turn, Gone
<1>2. WizardTypeOK'
  BY WizardAssumption DEF WizardInv, WizardTypeOK, DeclareFields, Turn, Back, TooLate, LateKind, Gone
<1>3. PageFits'
  BY DEF WizardInv, WizardTypeOK, PageFits, Empty, NoLoads, TooLate, Turn, DeclareFields
<1> QED BY <1>1, <1>2, <1>3, PageKeeps

LEMMA RunEnrichmentKeeps ==
    ASSUME WizardInv, RunEnrichment
    PROVE  WizardInv'
<1> USE DEF choice, package, signature, enriched, session, edgeState, counters, awaited
<1>1. UNCHANGED <<submission, edgeState>> /\ (step = Gone => step' = Gone)
  BY DEF RunEnrichment, Turn, Gone
<1>2. WizardTypeOK'
  BY WizardAssumption DEF WizardInv, WizardTypeOK, RunEnrichment, Turn, Back, TooLate, LateKind, Gone
<1>3. PageFits'
  BY DEF WizardInv, WizardTypeOK, PageFits, Empty, NoLoads, TooLate, Turn, RunEnrichment
<1> QED BY <1>1, <1>2, <1>3, PageKeeps

LEMMA EnrichmentAnswersKeeps ==
    ASSUME WizardInv, EnrichmentAnswers
    PROVE  WizardInv'
<1> USE DEF choice, package, signature, enriched, session, edgeState, counters, awaited
<1>1. UNCHANGED <<submission, edgeState>> /\ (step = Gone => step' = Gone)
  BY DEF EnrichmentAnswers, Turn, Gone
<1>2. WizardTypeOK'
  BY WizardAssumption DEF WizardInv, WizardTypeOK, EnrichmentAnswers, Turn, Back, TooLate, LateKind, Gone, Signals
<1>3. PageFits'
  BY DEF WizardInv, WizardTypeOK, PageFits, TooLate, Signals, EnrichmentAnswers
<1> QED BY <1>1, <1>2, <1>3, PageKeeps

LEMMA SkipEnrichmentKeeps ==
    ASSUME WizardInv, SkipEnrichment
    PROVE  WizardInv'
<1> USE DEF choice, package, signature, enriched, session, edgeState, counters, awaited
<1>1. UNCHANGED <<submission, edgeState>> /\ (step = Gone => step' = Gone)
  BY DEF SkipEnrichment, Turn, Gone
<1>2. WizardTypeOK'
  BY WizardAssumption DEF WizardInv, WizardTypeOK, SkipEnrichment, Turn, Back, TooLate, LateKind, Gone
<1>3. PageFits'
  BY DEF WizardInv, WizardTypeOK, PageFits, Empty, NoLoads, TooLate, Turn, SkipEnrichment
<1> QED BY <1>1, <1>2, <1>3, PageKeeps

LEMMA ReviewEnrichmentKeeps ==
    ASSUME WizardInv, NEW b \in BOOLEAN, ReviewEnrichment(b)
    PROVE  WizardInv'
<1> USE DEF choice, package, signature, enriched, session, edgeState, counters, awaited
<1>1. UNCHANGED <<submission, edgeState>> /\ (step = Gone => step' = Gone)
  BY DEF ReviewEnrichment, Turn, Gone
<1>2. WizardTypeOK'
  BY WizardAssumption DEF WizardInv, WizardTypeOK, ReviewEnrichment, Turn, Back, TooLate, LateKind, Gone
<1>3. PageFits'
  BY DEF WizardInv, WizardTypeOK, PageFits, Empty, NoLoads, TooLate, Turn, ReviewEnrichment
<1> QED BY <1>1, <1>2, <1>3, PageKeeps

LEMMA EditKeyKeeps ==
    ASSUME WizardInv, NEW k \in IdempotencyKey, EditKey(k)
    PROVE  WizardInv'
<1> USE DEF choice, package, signature, enriched, session, edgeState, counters, awaited
<1>1. UNCHANGED <<submission, edgeState>> /\ (step = Gone => step' = Gone)
  BY DEF EditKey, Turn, Gone
<1>2. WizardTypeOK'
  BY WizardAssumption DEF WizardInv, WizardTypeOK, EditKey, Turn, Back, TooLate, LateKind, Gone
<1>3. PageFits'
  BY DEF WizardInv, WizardTypeOK, PageFits, Empty, NoLoads, TooLate, Turn, EditKey
<1> QED BY <1>1, <1>2, <1>3, PageKeeps

LEMMA SignInKeeps ==
    ASSUME WizardInv, NEW institution \in Institution, SignIn(institution)
    PROVE  WizardInv'
<1> USE DEF choice, package, signature, enriched, session, edgeState, counters, awaited
<1>1. UNCHANGED <<submission, edgeState>> /\ (step = Gone => step' = Gone)
  BY DEF SignIn, Turn, Gone
<1>2. WizardTypeOK'
  BY WizardAssumption DEF WizardInv, WizardTypeOK, SignIn, Turn, Back, TooLate, LateKind, Gone
<1>3. PageFits'
  BY DEF WizardInv, WizardTypeOK, PageFits, Empty, NoLoads, TooLate, Turn, SignIn
<1> QED BY <1>1, <1>2, <1>3, PageKeeps

LEMMA RedirectKeeps ==
    ASSUME WizardInv, Redirect
    PROVE  WizardInv'
<1> USE DEF choice, package, signature, enriched, session, edgeState, counters, awaited
<1>1. UNCHANGED <<submission, edgeState>> /\ (step = Gone => step' = Gone)
  BY DEF Redirect, Turn, Gone
<1>2. WizardTypeOK'
  BY WizardAssumption DEF WizardInv, WizardTypeOK, Redirect, Turn, Back, TooLate, LateKind, Gone
<1>3. PageFits'
  BY DEF WizardInv, WizardTypeOK, PageFits, Empty, NoLoads, TooLate, Turn, Redirect
<1> QED BY <1>1, <1>2, <1>3, PageKeeps

\* The steps of a submission leave the page as it is.
PageStays ==
    UNCHANGED <<choice, package, signature, fieldsFromDocument, enriched, idempotencyKey,
                awaited, types, selections, backs, late>>

LEMMA SubmissionMoves ==
    ASSUME WizardInv, PageStays, step' \in 0..Gone,
           submission' \in Submission \cup {Nil}, opened' \in processes' \cup {Nil},
           processes' \subseteq [by : Institution, key : IdempotencyKey, body : Body],
           browser' \in Institution \cup {Nil}, live' \in BOOLEAN,
           starts' \in 0..MaxStarts, outages' \in 0..MaxOutages,
           SubmissionFits', AcceptedIsOwn', OpenedIsSubmitted'
    PROVE  WizardInv'
<1>1. WizardTypeOK'
  BY DEF WizardInv, WizardTypeOK, PageStays, choice, package, signature, enriched, awaited
<1>2. PageFits'
  BY DEF WizardInv, PageFits, PageStays, choice, package, signature, enriched, awaited
<1> QED BY <1>1, <1>2 DEF WizardInv

\* Only where a submission is changes.
LEMMA FitsStay ==
    ASSUME WizardInv, submission # Nil, submission' # Nil,
           submission'.body = submission.body, submission'.late = submission.late
    PROVE  SubmissionFits'
BY DEF WizardInv, SubmissionFits, FingerprintIsOfPackage, SubmittedIsVerified, SignalsAreOfPackage,
       EvidenceIsOfType

LEMMA SubmissionAt ==
    ASSUME NEW s \in Submission, NEW at \in {"sent", "answered", "failed", "closed"}
    PROVE  /\ [s EXCEPT !.at = at] \in Submission
           /\ [s EXCEPT !.at = at].at = at
           /\ [s EXCEPT !.at = at].body = s.body /\ [s EXCEPT !.at = at].by = s.by
           /\ [s EXCEPT !.at = at].key = s.key /\ [s EXCEPT !.at = at].late = s.late
BY DEF Submission

LEMMA SubmitKeeps ==
    ASSUME WizardInv, Submit
    PROVE  WizardInv'
<1>1. /\ PageStays /\ step = 5 /\ step' = step /\ browser' = browser /\ live' = live
      /\ processes' = processes /\ opened' = opened /\ outages' = outages
      /\ starts < MaxStarts /\ starts' = starts + 1 /\ browser # Nil /\ canSubmit
  BY DEF Submit, PageStays, session, edgeState, awaited
<1>2. PICK body : body = [package |-> slotFiles, type |-> assetType, hash |-> documentPackageHash,
                          verified |-> sigVerify, enrichment |-> enrichment]
  OBVIOUS
<1>3. PICK unanswered : unanswered = late \cup (IF loads = NoLoads THEN {} ELSE {"catalogue"})
  OBVIOUS
<1>4. PICK at : at = IF live THEN "sent" ELSE "failed"
  OBVIOUS
<1>5. submission' = [body |-> body, key |-> idempotencyKey, by |-> browser, at |-> at,
                     late |-> unanswered]
  BY <1>2, <1>3, <1>4 DEF Submit, NoLoads
<1>6. /\ slotFiles \in Package /\ documentPackageHash \in Package /\ sigVerify \in Package
      /\ enrichment \in Package \cup {Nil} /\ assetType \in Type /\ browser \in Institution
      /\ idempotencyKey \in IdempotencyKey /\ late \subseteq LateKind
      /\ documentPackageHash # Nil /\ sigVerify # Nil /\ slotFiles # Empty
      /\ \A s \in Required[evidenceDef] : slotFiles[s] # Nil
  BY <1>1 DEF WizardInv, WizardTypeOK, canSubmit, step1Ok, step2Ok
<1>7. body \in Body
  BY <1>2, <1>6 DEF Body
<1>8. unanswered \subseteq LateKind /\ at \in {"sent", "failed"}
  BY <1>3, <1>4, <1>6 DEF LateKind
<1>9. /\ submission' \in Submission /\ submission'.body = body /\ submission'.late = unanswered
      /\ submission'.at # "answered"
  BY <1>5, <1>6, <1>7, <1>8 DEF Submission
<1>10. /\ body.package = slotFiles /\ body.type = assetType /\ body.hash = documentPackageHash
       /\ body.verified = sigVerify /\ body.enrichment = enrichment
  BY <1>2
<1>11. /\ late \subseteq unanswered
       /\ "catalogue" \notin unanswered => "catalogue" \notin late /\ loads = NoLoads
  BY <1>3
<1>12. SubmissionFits'
  <2>1. "hash" \notin unanswered => documentPackageHash = slotFiles
    BY <1>6, <1>11 DEF WizardInv, PageFits
  <2>2. "hash" \notin unanswered /\ "signature" \notin unanswered => sigVerify = documentPackageHash
    BY <1>6, <1>11 DEF WizardInv, PageFits
  <2>3. "hash" \notin unanswered /\ "enrichment" \notin unanswered =>
            enrichment \in {Nil, documentPackageHash}
    BY <1>6, <1>11 DEF WizardInv, PageFits
  <2>4. "catalogue" \notin unanswered => evidenceDef = assetType
    BY <1>11 DEF WizardInv, PageFits
  <2> QED
    BY <2>1, <2>2, <2>3, <2>4, <1>6, <1>9, <1>10
    DEF SubmissionFits, FingerprintIsOfPackage, SubmittedIsVerified, SignalsAreOfPackage,
        EvidenceIsOfType
<1>13. opened = Nil
  BY <1>1 DEF WizardInv, AcceptedIsOwn, Gone
<1>14. AcceptedIsOwn' /\ OpenedIsSubmitted'
  BY <1>1, <1>9, <1>13 DEF AcceptedIsOwn, OpenedIsSubmitted
<1>15. starts' \in 0..MaxStarts
  <2>1. starts \in 0..MaxStarts /\ MaxStarts \in Nat
    BY WizardAssumption DEF WizardInv, WizardTypeOK
  <2> QED BY <2>1, <1>1
<1> QED
  BY <1>1, <1>9, <1>12, <1>14, <1>15, SubmissionMoves DEF WizardInv, WizardTypeOK

LEMMA EdgeAcceptsKeeps ==
    ASSUME WizardInv, EdgeAccepts
    PROVE  WizardInv'
<1>1. /\ PageStays /\ step # Gone /\ step' = step /\ browser' = browser /\ live' = live
      /\ opened' = opened /\ outages' = outages /\ starts' = starts
      /\ submission # Nil /\ submission \in Submission
  BY DEF EdgeAccepts, PageStays, session, edgeState, awaited, counters, InFlight, WizardInv,
         WizardTypeOK
<1>2. PICK p : p = [by |-> submission.by, key |-> submission.key, body |-> submission.body]
  OBVIOUS
<1>3. /\ p \in [by : Institution, key : IdempotencyKey, body : Body]
      /\ p.by = submission.by /\ p.key = submission.key /\ p.body = submission.body
  BY <1>1, <1>2 DEF Submission
<1>4. \/ /\ Known(p.by, p.key) \subseteq {p}
         /\ processes' = processes \cup {p}
         /\ \E at \in {"answered", "failed"} : submission' = [submission EXCEPT !.at = at]
      \/ processes' = processes /\ submission' = [submission EXCEPT !.at = "failed"]
  BY <1>2 DEF EdgeAccepts
<1>5. PICK at \in {"answered", "failed"} : submission' = [submission EXCEPT !.at = at]
  BY <1>4
<1>6. /\ submission' \in Submission /\ submission'.at = at /\ submission'.body = submission.body
      /\ submission'.by = submission.by /\ submission'.key = submission.key
      /\ submission'.late = submission.late
  <2>1. at \in {"sent", "answered", "failed", "closed"}
    OBVIOUS
  <2> QED BY <2>1, <1>1, <1>5, SubmissionAt
<1>7. opened = Nil
  BY <1>1 DEF WizardInv, AcceptedIsOwn
<1>8. at = "answered" => Known(p.by, p.key) \subseteq {p} /\ processes' = processes \cup {p}
  <2>1. [submission EXCEPT !.at = "failed"].at = "failed"
    BY <1>1, SubmissionAt
  <2> QED BY <2>1, <1>4, <1>6
<1>9. AcceptedIsOwn' /\ OpenedIsSubmitted'
  <2>1. ASSUME submission'.at = "answered", NEW q \in processes',
               q.by = submission'.by, q.key = submission'.key
        PROVE  q.body = submission'.body
    <3>1. q \in Known(p.by, p.key) \/ q = p
      BY <2>1, <1>3, <1>6, <1>8 DEF Known
    <3> QED BY <3>1, <2>1, <1>3, <1>6, <1>8
  <2> QED BY <2>1, <1>1, <1>7 DEF AcceptedIsOwn, OpenedIsSubmitted, Known
<1>10. submission' # Nil => SubmissionFits'
  BY <1>1, <1>6, FitsStay
<1>11. SubmissionFits'
  BY <1>10 DEF SubmissionFits, FingerprintIsOfPackage, SubmittedIsVerified, SignalsAreOfPackage,
               EvidenceIsOfType
<1>12. /\ processes' \subseteq [by : Institution, key : IdempotencyKey, body : Body]
       /\ opened' \in processes' \cup {Nil}
  BY <1>1, <1>3, <1>4, <1>7 DEF WizardInv, WizardTypeOK
<1> QED
  BY <1>1, <1>6, <1>9, <1>11, <1>12, SubmissionMoves DEF WizardInv, WizardTypeOK

LEMMA SubmissionAnswersKeeps ==
    ASSUME WizardInv, SubmissionAnswers
    PROVE  WizardInv'
<1>1. /\ PageStays /\ step # Gone /\ browser' = browser /\ live' = live
      /\ processes' = processes /\ outages' = outages /\ starts' = starts
      /\ submission # Nil /\ submission \in Submission
      /\ submission' = [submission EXCEPT !.at = "closed"]
  BY DEF SubmissionAnswers, PageStays, session, awaited, counters, InFlight, WizardInv, WizardTypeOK
<1>2. /\ submission' \in Submission /\ submission'.at = "closed"
      /\ submission'.body = submission.body /\ submission'.by = submission.by
      /\ submission'.late = submission.late
  BY <1>1, SubmissionAt
<1>3. opened = Nil
  BY <1>1 DEF WizardInv, AcceptedIsOwn
<1>4. /\ step' \in 0..Gone /\ opened' \in processes \cup {Nil}
      /\ opened' # Nil => /\ step' = Gone /\ opened'.by = submission.by
                          /\ opened'.body = submission.body
  <2>1. CASE submission.at = "answered"
    <3>1. step' = Gone
      BY <2>1 DEF SubmissionAnswers
    <3>2. PICK p \in Known(submission.by, submission.key) : opened' = p
      BY <2>1 DEF SubmissionAnswers
    <3>3. p \in processes /\ p.by = submission.by /\ p.body = submission.body
      BY <2>1, <1>1 DEF WizardInv, AcceptedIsOwn, Known
    <3> QED BY <3>1, <3>2, <3>3 DEF Gone
  <2>2. CASE submission.at # "answered"
    BY <2>2, <1>3 DEF SubmissionAnswers, WizardInv, WizardTypeOK
  <2> QED BY <2>1, <2>2
<1>5. AcceptedIsOwn' /\ OpenedIsSubmitted'
  BY <1>2, <1>4 DEF AcceptedIsOwn, OpenedIsSubmitted
<1>6. submission' # Nil => SubmissionFits'
  BY <1>1, <1>2, FitsStay
<1>7. SubmissionFits'
  BY <1>6 DEF SubmissionFits, FingerprintIsOfPackage, SubmittedIsVerified, SignalsAreOfPackage,
              EvidenceIsOfType
<1> QED
  BY <1>1, <1>2, <1>4, <1>5, <1>7, SubmissionMoves DEF WizardInv, WizardTypeOK

\* A submission on its way when the session ends is answered with an error.
LEMMA OutageKeeps ==
    ASSUME WizardInv, Logout \/ EdgeForgets
    PROVE  WizardInv'
<1>1. /\ PageStays /\ step # Gone /\ step' = step /\ SessionEnds
      /\ processes' = processes /\ opened' = opened /\ starts' = starts
      /\ browser' \in Institution \cup {Nil} /\ live' \in BOOLEAN
      /\ outages < MaxOutages /\ outages' = outages + 1
  BY DEF Logout, EdgeForgets, PageStays, awaited, edgeState, WizardInv, WizardTypeOK
<1>2. opened = Nil
  BY <1>1 DEF WizardInv, AcceptedIsOwn
<1>3. outages' \in 0..MaxOutages
  <2>1. outages \in 0..MaxOutages /\ MaxOutages \in Nat
    BY WizardAssumption DEF WizardInv, WizardTypeOK
  <2> QED BY <2>1, <1>1
<1>4. CASE InFlight /\ submission.at = "sent"
  <2>1. /\ submission \in Submission /\ submission # Nil
        /\ submission' = [submission EXCEPT !.at = "failed"]
    BY <1>1, <1>4 DEF SessionEnds, InFlight, WizardInv, WizardTypeOK
  <2>2. /\ submission' \in Submission /\ submission'.at = "failed"
        /\ submission'.body = submission.body /\ submission'.late = submission.late
    BY <2>1, SubmissionAt
  <2>3. AcceptedIsOwn' /\ OpenedIsSubmitted'
    BY <2>2, <1>1, <1>2 DEF AcceptedIsOwn, OpenedIsSubmitted
  <2>4. submission' # Nil => SubmissionFits'
    BY <2>1, <2>2, FitsStay
  <2>5. SubmissionFits'
    BY <2>4 DEF SubmissionFits, FingerprintIsOfPackage, SubmittedIsVerified, SignalsAreOfPackage,
                EvidenceIsOfType
  <2> QED
    BY <2>2, <2>3, <2>5, <1>1, <1>3, SubmissionMoves DEF WizardInv, WizardTypeOK
<1>5. CASE ~(InFlight /\ submission.at = "sent")
  <2>1. submission' = submission
    BY <1>1, <1>5 DEF SessionEnds
  <2>2. SubmissionFits'
    BY <2>1 DEF WizardInv, SubmissionFits, FingerprintIsOfPackage, SubmittedIsVerified,
                SignalsAreOfPackage, EvidenceIsOfType
  <2>3. AcceptedIsOwn' /\ OpenedIsSubmitted'
    BY <2>1, <1>1 DEF WizardInv, AcceptedIsOwn, OpenedIsSubmitted, Known
  <2> QED
    BY <2>1, <2>2, <2>3, <1>1, <1>3, SubmissionMoves DEF WizardInv, WizardTypeOK
<1> QED BY <1>4, <1>5

LEMMA WizardStep == WizardInv /\ [WizardNext]_wizardVars => WizardInv'
<1> SUFFICES ASSUME WizardInv, [WizardNext]_wizardVars PROVE WizardInv' OBVIOUS
<1>1. CASE UNCHANGED wizardVars
  <2>1. PageFits' /\ WizardTypeOK' /\ UNCHANGED <<submission, edgeState>> /\ step' = step
    BY <1>1 DEF wizardVars, choice, package, signature, enriched, session, edgeState, counters,
                awaited, WizardInv, WizardTypeOK, PageFits
  <2> QED BY <2>1, PageKeeps
<1>2. CASE User
  BY <1>2, SelectTypeKeeps, ContinueToEvidenceKeeps, SelectFilesKeeps, TurnPageKeeps,
     TickSignatureKeeps, DeclareFieldsKeeps, ReviewEnrichmentKeeps, BackToEvidenceKeeps,
     ConfirmSignatureKeeps, RunEnrichmentKeeps, SkipEnrichmentKeeps, EditKeyKeeps, SubmitKeeps
  DEF User
<1>3. CASE Answers
  BY <1>3, CatalogueAnswersKeeps, HashedKeeps, SignatureAnswersKeeps, EnrichmentAnswersKeeps,
     EdgeAcceptsKeeps, SubmissionAnswersKeeps DEF Answers
<1>4. CASE Sessions
  BY <1>4, OutageKeeps, RedirectKeeps, SignInKeeps DEF Sessions
<1> QED BY <1>1, <1>2, <1>3, <1>4 DEF WizardNext

\* What the wizard submits fits together: files, fingerprint, confirmed signature, signals and the
\* documents of the type are of one package, however choices, requests still under way and answers
\* interleave, unless an answer that came after the choice had changed is the named exception.
THEOREM WizardSpecKeepsSubmittedFits == WizardSpec => []SubmittedFits
<1>1. WizardInv => SubmittedFits
  BY DEF WizardInv, SubmissionFits, SubmittedFits
<1> QED BY <1>1, WizardStarts, WizardStep, PTL DEF WizardSpec

\* The process whose page the wizard opens is of the institution that submitted and carries what it
\* submitted last, although the edge may have accepted earlier submissions with the same key whose
\* answers were lost, and sign-ins and outages came in between.
THEOREM WizardSpecKeepsOpenedIsSubmitted == WizardSpec => []OpenedIsSubmitted
<1>1. WizardInv => OpenedIsSubmitted
  BY DEF WizardInv
<1> QED BY <1>1, WizardStarts, WizardStep, PTL DEF WizardSpec
=============================================================================
