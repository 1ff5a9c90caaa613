--------------------------- MODULE PrimaryPipeline ---------------------------
(***************************************************************************)
(* One process on its way through the orchestrator: runPrimary and         *)
(* continuePrimary (src/src/orchestrator/orchestrator.service.ts) with     *)
(* what they change in the process registry, the PoT, the token ledger,    *)
(* the commission and the reserve.                                         *)
(*                                                                         *)
(* Both go through the same stations; most append one fact.  call[c].at is *)
(* the station of caller c and call[c].phase the await it is suspended at: *)
(*   enter   the append of the station before, or one of the records in    *)
(*           between that nobody reads                                     *)
(*   check   a read of the journal that returned its first .seen facts     *)
(*   write   the append of a fact, after what is set in memory before it   *)
(* Stage, minted and accrued are set before their append, the memory of    *)
(* the commission after the last payment.                                  *)
(*                                                                         *)
(* An append is one step: it writes, or answers a known key with the       *)
(* record of that key.  How two appends with one key overlap is modelled   *)
(* in NodeChainService and, for mints, in TokenLedger.                     *)
(*                                                                         *)
(* Bounds: Key, the idempotency keys of runPrimary; two confirmers are     *)
(* paid; MaxCrashes restarts; MaxFailures calls that fail for reasons of   *)
(* the journal (storage, a lost height, a read-only switch).               *)
(***************************************************************************)
EXTENDS Integers, FiniteSets, ProcessStages

CONSTANTS Caller, Key,
          Verdicts,       \* the verdicts the criteria and the quorum can give
          HighValue,      \* the valuation reaches highValueThreshold
          MaxConcurrent,  \* maxConcurrentPerInstitution
          MaxCrashes, MaxFailures

ASSUME PipelineAssumption ==
    /\ Verdicts \subseteq {0, 1} /\ HighValue \in BOOLEAN
    /\ MaxConcurrent \in Nat /\ MaxCrashes \in Nat /\ MaxFailures \in Nat

VARIABLES stage,         \* ProcessService: the stage in memory, or "absent"
          minted,        \* TokenService.mintedProcess
          commissioned,  \* CommissionService.settled
          accrued,       \* ReserveService.accruedProcesses
          keys, active,  \* OrchestratorService.idempotency, activeByInstitution
          journal,       \* the facts of the process, in the order of heights
          call,          \* the suspended calls
          completed,     \* ghost: a call has answered "completed"
          crashes, failures

registries == <<minted, commissioned, accrued>>
admission == <<keys, active>>
faults == <<crashes, failures>>
vars == <<stage, registries, admission, journal, call, completed, faults>>

\* The stations in their order.
Route == <<"open", "encoded", "awaiting_pot", "evidence", "verdict", "pot_done",
           "gate", "mint", "emission", "commission", "pay1", "pay2",
           "accrual", "settled", "close", "end">>

\* Stations that begin with a read of the journal.
Checked == {"open", "evidence", "gate", "mint", "commission", "accrual"}

Station == ToSet(Route) \cup {"idle", "resume", "hydrate", "abort"}

Fact == (ToSet(Route) \ {"verdict", "gate", "end"})
        \cup {"verdict0", "verdict1", "abort"}

Call == [at : Station, phase : {"enter", "check", "write"},
         mode : {"run", "continue"}, seen : 0..Len(journal),
         verdict : {0, 1}]   \* to be journalled, or known to be journalled

Idle == [at |-> "idle", phase |-> "enter", mode |-> "continue", seen |-> 0,
         verdict |-> 0]

Started == [at |-> "open", phase |-> "enter", mode |-> "run", seen |-> 0,
            verdict |-> 0]

TypeOK ==
    /\ stage \in Stage \cup {"absent"}
    /\ minted \in BOOLEAN /\ commissioned \in BOOLEAN /\ accrued \in BOOLEAN
    /\ keys \subseteq Key /\ active \in 0..MaxConcurrent
    /\ journal \in Seq(Fact)
    /\ call \in [Caller -> Call]
    /\ completed \in BOOLEAN
    /\ crashes \in 0..MaxCrashes /\ failures \in 0..MaxFailures

Init ==
    /\ stage = "absent"
    /\ minted = FALSE /\ commissioned = FALSE /\ accrued = FALSE
    /\ keys = {} /\ active = 0
    /\ journal = <<>>
    /\ call = [c \in Caller |-> Idle]
    /\ completed = FALSE
    /\ crashes = 0 /\ failures = 0
-----------------------------------------------------------------------------
\* What the last read of c returned, and the facts in it.
History(c) == SubSeq(journal, 1, call[c].seen)
Read(c) == ToSet(History(c))

\* Faulty variant of Backed: a verdict of any kind is accepted.
BackedByAnyVerdict(records) ==
    \E i, j \in DOMAIN records :
        i < j /\ records[i] = "evidence" /\ records[j] \in {"verdict0", "verdict1"}

\* resolveOkToEmit: the first evidence is below the last positive verdict.
Backed(records) ==
    \E i, j \in DOMAIN records :
        i < j /\ records[i] = "evidence" /\ records[j] = "verdict1"

\* Faulty variant of After: the payments are skipped.
AfterUnpaid(s) ==
    IF s = "commission" THEN "accrual"
    ELSE Route[(CHOOSE i \in DOMAIN Route : Route[i] = s) + 1]

After(s) == Route[(CHOOSE i \in DOMAIN Route : Route[i] = s) + 1]

\* The fact a caller appends at a station, and whether its key is taken: both
\* verdicts have the key pot-verdict:<processId>.
FactAt(c) ==
    IF call[c].at # "verdict" THEN call[c].at
    ELSE IF call[c].verdict = 1 THEN "verdict1" ELSE "verdict0"

KeyTaken(s) ==
    IF s = "verdict" THEN {"verdict0", "verdict1"} \cap ToSet(journal) # {}
    ELSE s \in ToSet(journal)

GotoWith(c, s, where, v) ==
    call' = [call EXCEPT ![c] =
        [at |-> s, phase |-> where, mode |-> call[c].mode,
         seen |-> IF where = "check" THEN Len(journal) ELSE 0, verdict |-> v]]

Goto(c, s, where) == GotoWith(c, s, where, call[c].verdict)

\* Faulty variant of Finish: the slot is kept.
FinishHoldsSlot(c) ==
    /\ call' = [call EXCEPT ![c] = Idle]
    /\ UNCHANGED admission

\* A call ends; runPrimary's finally block releases its slot.
Finish(c) ==
    /\ call' = [call EXCEPT ![c] = Idle]
    /\ active' = IF call[c].mode = "run" THEN active - 1 ELSE active
    /\ UNCHANGED keys

\* c goes on if ok, and ends with an error if not.
Proceed(c, ok, s, where) ==
    \/ ok /\ Goto(c, s, where) /\ UNCHANGED admission
    \/ ~ok /\ Finish(c)
-----------------------------------------------------------------------------
(***************************************************************************)
(* The beginning of runPrimary.                                            *)
(***************************************************************************)

\* A used key is refused at once and changes nothing.  Beyond the limit the
\* call is refused too, but its key stays used.
Run(c, k) ==
    /\ call[c].at = "idle" /\ k \notin keys
    /\ keys' = keys \cup {k}
    /\ \/ /\ active >= MaxConcurrent
          /\ UNCHANGED <<active, call>>
       \/ /\ active < MaxConcurrent
          /\ active' = active + 1
          /\ call' = [call EXCEPT ![c] = Started]
    /\ UNCHANGED <<stage, registries, journal, completed, faults>>

\* L1 or L2 fail before the process is opened, the oracle after it.
Refuse(c) ==
    /\ call[c].mode = "run" /\ call[c].phase = "enter"
    /\ call[c].at \in {"open", "evidence"}
    /\ Finish(c)
    /\ UNCHANGED <<stage, registries, journal, completed, faults>>
-----------------------------------------------------------------------------
(***************************************************************************)
(* The beginning of continuePrimary.                                       *)
(***************************************************************************)
Continue(c) ==
    /\ call[c].at = "idle"
    /\ Goto(c, "resume", "check")
    /\ UNCHANGED <<stage, registries, admission, journal, completed, faults>>

\* The history of a completed process, as continuePrimary sees it.
AlreadyDone(facts) == "mint" \in facts

\* Faulty variant of Verifiable: the stage between two appends of open.
VerifiableNotEncoded == {"awaiting_pot", "opened"}

\* The stages from which continuePrimary runs the PoT.
Verifiable == {"awaiting_pot", "encoded", "opened"}

\* What continuePrimary does in stage s, given the verdict in its history.
Branch(c, s, verdict1) ==
    \/ /\ ~verdict1 /\ s \in Verifiable
       /\ stage' = s
       /\ Goto(c, "evidence", "check")
       /\ UNCHANGED admission
    \/ /\ \/ ~verdict1 /\ s \notin Verifiable
          \/ verdict1 /\ s = "encoded"     \* markPotDone refuses
       /\ stage' = s
       /\ Finish(c)
    \/ /\ verdict1 /\ s = "awaiting_pot"
       /\ stage' = "pot_done"
       /\ Goto(c, "pot_done", "write")
       /\ UNCHANGED admission
    \/ /\ verdict1 /\ s \notin {"awaiting_pot", "encoded"}
       /\ stage' = s
       /\ Goto(c, "gate", "check")
       /\ UNCHANGED admission

ResumeDone(c) ==
    /\ call[c].at = "resume" /\ AlreadyDone(Read(c))
    /\ completed' = TRUE
    /\ Finish(c)
    /\ UNCHANGED <<stage, registries, journal, faults>>

Resume(c) ==
    /\ call[c].at = "resume" /\ ~AlreadyDone(Read(c))
    /\ \/ /\ Read(c) = {}                  \* NOT_FOUND
          /\ Finish(c) /\ UNCHANGED stage
       \/ /\ Read(c) # {} /\ stage = "absent"
          /\ GotoWith(c, "hydrate", "check", IF "verdict1" \in Read(c) THEN 1 ELSE 0)
          /\ UNCHANGED <<stage, admission>>
       \/ /\ Read(c) # {} /\ stage # "absent"
          /\ Branch(c, stage, "verdict1" \in Read(c))
    /\ UNCHANGED <<registries, journal, completed, faults>>

\* The registry takes the stage of the records read, whatever it holds by now;
\* the verdict is that of the history read before.
Hydrate(c) ==
    /\ call[c].at = "hydrate"
    /\ Branch(c, HydratedStage(History(c)), call[c].verdict = 1)
    /\ UNCHANGED <<registries, journal, completed, faults>>
-----------------------------------------------------------------------------
(***************************************************************************)
(* The stations both share.                                                *)
(***************************************************************************)

\* What a service's memory says before it reads the journal.
KnownInMemory(s) ==
    \/ s = "open" /\ stage # "absent"
    \/ s = "mint" /\ minted
    \/ s = "commission" /\ commissioned
    \/ s = "accrual" /\ accrued

\* The payments have been journalled when the reserve is reached.
EnterChecked(c) ==
    /\ call[c].phase = "enter" /\ call[c].at \in Checked
    /\ commissioned' = (commissioned \/ call[c].at = "accrual")
    /\ Proceed(c, ~KnownInMemory(call[c].at), call[c].at, "check")
    /\ UNCHANGED <<stage, minted, accrued, journal, completed, faults>>

\* ProcessService.open: not on the journal from an earlier run.
CheckOpen(c) ==
    /\ call[c].at = "open" /\ call[c].phase = "check"
    /\ Proceed(c, "open" \notin Read(c), "open", "write")
    /\ UNCHANGED <<stage, registries, journal, completed, faults>>

\* PotService.verify.
Verify(c) ==
    /\ call[c].at = "evidence" /\ call[c].phase = "check"
    /\ \/ /\ "verdict1" \in Read(c)
          /\ Finish(c)
       \/ /\ "verdict1" \notin Read(c)
          /\ \E v \in Verdicts : GotoWith(c, "evidence", "write", v)
          /\ UNCHANGED admission
    /\ UNCHANGED <<stage, registries, journal, completed, faults>>

\* okToEmit, then L3: its failure is hard by default if the value is high, and
\* on request of runPrimary.  mintAfterPot resolves okToEmit once more.
Gate(c) ==
    /\ call[c].at = "gate" /\ call[c].phase = "check"
    /\ \/ Proceed(c, Backed(History(c)), "mint", "enter")
       \/ /\ Backed(History(c)) /\ (HighValue \/ call[c].mode = "run")
          /\ Goto(c, "abort", "enter")
          /\ UNCHANGED admission
    /\ UNCHANGED <<stage, registries, journal, completed, faults>>

\* Credit, mark and append.
Mint(c) ==
    /\ call[c].at = "mint" /\ call[c].phase = "check"
    /\ minted' = (minted \/ "mint" \notin Read(c))
    /\ Proceed(c, "mint" \notin Read(c), "mint", "write")
    /\ UNCHANGED <<stage, commissioned, accrued, journal, completed, faults>>

\* CommissionService.settle.
Settle(c) ==
    /\ call[c].at = "commission" /\ call[c].phase = "check"
    /\ Proceed(c, "commission" \notin Read(c), "commission", "write")
    /\ UNCHANGED <<stage, registries, journal, completed, faults>>

\* ReserveService.accrueFromCommission.
Accrue(c) ==
    /\ call[c].at = "accrual" /\ call[c].phase = "check"
    /\ accrued' = (accrued \/ "accrual" \notin Read(c))
    /\ Proceed(c, "accrual" \notin Read(c), "accrual", "write")
    /\ UNCHANGED <<stage, minted, commissioned, journal, completed, faults>>

\* The stage a station moves the process to.
StageAt(s) ==
    CASE s = "pot_done" -> "pot_done" [] s = "settled" -> "settled"
      [] s = "close" -> "closed" [] s = "abort" -> "aborted"

\* markPotDone, markSettled, close and abort.
Advance(c) ==
    LET to == StageAt(call[c].at) IN
    /\ call[c].phase = "enter"
    /\ call[c].at \in {"pot_done", "settled", "close", "abort"}
    /\ stage' = IF CanTransition(stage, to) THEN to ELSE stage
    /\ Proceed(c, CanTransition(stage, to), call[c].at, "write")
    /\ UNCHANGED <<registries, journal, completed, faults>>

\* open puts the process into the registry before the first stage record.
Register(c) ==
    /\ call[c].at = "encoded" /\ call[c].phase = "enter"
    /\ stage' = "awaiting_pot"
    /\ Goto(c, "encoded", "write")
    /\ UNCHANGED <<registries, admission, journal, completed, faults>>

\* Appends that nothing in memory comes before.
Plain == {"awaiting_pot", "verdict", "emission", "pay1", "pay2"}

\* A rejection aborts the process in runPrimary and ends continuePrimary.
Write(c) ==
    LET rejected == call[c].at = "verdict" /\ call[c].verdict = 0 IN
    /\ call[c].phase = "write" \/ call[c].at \in Plain
    /\ journal' = IF KeyTaken(call[c].at) THEN journal ELSE Append(journal, FactAt(c))
    /\ \/ /\ call[c].at = "abort" \/ (rejected /\ call[c].mode = "continue")
          /\ Finish(c)
       \/ /\ rejected /\ call[c].mode = "run"
          /\ Goto(c, "abort", "enter") /\ UNCHANGED admission
       \/ /\ call[c].at # "abort" /\ ~rejected
          /\ Goto(c, After(call[c].at), "enter") /\ UNCHANGED admission
    /\ UNCHANGED <<stage, registries, completed, faults>>

Complete(c) ==
    /\ call[c].at = "end"
    /\ completed' = TRUE
    /\ Finish(c)
    /\ UNCHANGED <<stage, registries, journal, faults>>
-----------------------------------------------------------------------------
\* An append or a read throws; what was set in memory before it stays.
Fail(c) ==
    /\ call[c].at # "idle" /\ failures < MaxFailures
    /\ failures' = failures + 1
    /\ Finish(c)
    /\ UNCHANGED <<stage, registries, journal, completed, crashes>>

\* The process restarts: everything but the journal is lost.
Crash ==
    /\ crashes < MaxCrashes
    /\ crashes' = crashes + 1
    /\ stage' = "absent"
    /\ minted' = FALSE /\ commissioned' = FALSE /\ accrued' = FALSE
    /\ keys' = {} /\ active' = 0
    /\ call' = [c \in Caller |-> Idle]
    /\ UNCHANGED <<journal, completed, failures>>

\* What the event loop does by itself for a call that was made.
Step(c) ==
    \/ ResumeDone(c) \/ Resume(c) \/ Hydrate(c) \/ EnterChecked(c)
    \/ CheckOpen(c) \/ Register(c) \/ Verify(c) \/ Gate(c) \/ Mint(c)
    \/ Settle(c) \/ Accrue(c) \/ Advance(c) \/ Write(c)
    \/ Complete(c)

Next ==
    \/ \E c \in Caller :
          \/ \E k \in Key : Run(c, k)
          \/ Refuse(c) \/ Continue(c) \/ Step(c) \/ Fail(c)
    \/ Crash

Spec == Init /\ [][Next]_vars
-----------------------------------------------------------------------------
(***************************************************************************)
(* Fairness.                                                               *)
(***************************************************************************)

Journalled(fact) == fact \in ToSet(journal)

\* The first record of a fact comes before every one of another.
Precedes(f, g) ==
    \E i \in DOMAIN journal :
        journal[i] = f /\ \A j \in DOMAIN journal : journal[j] = g => i < j

\* The process page reads the process every few seconds until it is verified
\* and minted, and the portal continues what it then finds unverified.
Polled ==
    /\ journal # <<>> /\ ~Journalled("mint")
    /\ stage \notin {"settled", "closed"}
    /\ ~Precedes("verdict1", "verdict0")

PolledContinue(c) == Polled /\ Continue(c)

\* The event loop runs what is ready, and the page keeps polling.
PolledSpec ==
    Spec /\ \A c \in Caller : WF_vars(Step(c)) /\ WF_vars(PolledContinue(c))
-----------------------------------------------------------------------------
\* Every mint_fact stands above pot_evidence and a positive pot_verdict,
\* whatever overlaps, fails or restarts (the ok-to-emit gate).
MintBacked ==
    Journalled("mint") => Precedes("evidence", "verdict1") /\ Precedes("verdict1", "mint")

\* A process_close stands above the whole economic path, in its order: the
\* mint, the commission, every payment, the accrual and process_stage settled.
ClosedIsComplete ==
    LET path == <<"mint", "commission", "pay1", "pay2", "accrual", "settled", "close">>
    IN Journalled("close") => \A i \in 1..6 : Precedes(path[i], path[i + 1])

\* The slots of an institution are those of its running calls: none leaks when
\* a call is refused, fails or dies with the process.
ActiveIsRunning == active = Cardinality({c \in Caller : call[c].mode = "run"})

\* Only a minted process is answered "completed".
CompletedIsMinted == completed => Journalled("mint")

\* The economic path is walked to its end: a close stands above all of it, and
\* what is answered "completed" was minted.
PathIsWalked ==
    /\ TypeOK
    /\ ClosedIsComplete
    /\ CompletedIsMinted

\* With no call under way and none failed, a process in memory has the stage
\* that a restart would find in its journal (ProcessService sets the stage
\* before its append; hydrate sets what it has read).
StageFollowsJournal ==
    (stage # "absent" /\ failures = 0 /\ \A c \in Caller : call[c].at = "idle")
        => stage = HydratedStage(journal)

\* A process that was opened gets a verdict, across restarts and failed calls:
\* the page's polls continue it from wherever its run was cut.
OpenedGetsVerdict ==
    Journalled("open") ~> (Journalled("verdict0") \/ Journalled("verdict1"))
-----------------------------------------------------------------------------
(***************************************************************************)
(* Why MintBacked is kept.  It is not inductive: it does not say what a    *)
(* suspended call relies on.                                               *)
(***************************************************************************)

\* The stations with an append that something in memory comes before.
Writable == {"open", "encoded", "evidence", "pot_done", "mint", "commission",
             "accrual", "settled", "close", "abort"}

\* A call about to append a verdict has journalled the evidence; one that may
\* mint has read the evidence and the verdict; both are there for good.
CallBacked(x) ==
    /\ x.at = "verdict" => Journalled("evidence")
    /\ x.at = "mint" => Journalled("evidence") /\ Journalled("verdict1")
    /\ x.phase = "write" => x.at \in Writable

\* The gate's records stand in their order, and each suspended call keeps it.
BackingInv ==
    /\ journal \in Seq(Fact) /\ call \in [Caller -> Call]
    /\ \A c \in Caller : CallBacked(call[c])
    /\ Journalled("verdict1") => Precedes("evidence", "verdict1")
    /\ Journalled("mint") => Precedes("verdict1", "mint")
-----------------------------------------------------------------------------
(***************************************************************************)
(* Why ActiveIsRunning and PathIsWalked are kept.                          *)
(***************************************************************************)
Running == {c \in Caller : call[c].mode = "run"}

\* A slot is taken and given back with the mode of its call.
SlotInv ==
    /\ keys \subseteq Key /\ active \in 0..MaxConcurrent
    /\ IsFiniteSet(Running) /\ ActiveIsRunning
    /\ \A c \in Caller : call[c].at = "idle" => call[c].mode = "continue"

\* From the mint on, a call at a station has every station before it on the
\* journal, and a station's record stands above those of the stations before.
MintStation == 8

CallWalked(x) ==
    \A j \in DOMAIN Route, i \in MintStation..15 :
        Route[j] = x.at /\ i < j => Journalled(Route[i])

WalkInv ==
    /\ \A c \in Caller : CallWalked(call[c])
    /\ \A i, j \in MintStation..15 :
         i < j /\ Journalled(Route[j]) => Precedes(Route[i], Route[j])
    /\ CompletedIsMinted

\* Of one caller whose calls do not fail, between a change of the stage in
\* memory and its append: the stages the journal may still have.
Pending == [pot_done |-> {"awaiting_pot"}, settled |-> {"pot_done"},
            close |-> {"pot_done", "settled"}, abort |-> Stage \ Terminal]

\* The stages of a journal with a fact, in every order a process can take.
StagesWith(fact) ==
    CASE fact = "awaiting_pot" -> Stage \ {"encoded"}
      [] fact = "pot_done" -> {"pot_done", "settled"} \cup Terminal
      [] fact = "settled" -> {"settled"} \cup Terminal
      [] fact \in {"close", "abort"} -> Terminal

\* What the registry holds at each await of the only caller.
CallStage(x) ==
    LET now == HydratedStage(journal) IN
    CASE x.at \in {"idle", "resume"} \/ (x.at = "open" /\ x.phase = "enter") ->
             stage \in {"absent", now}
      [] x.at = "open" /\ x.phase = "check" -> stage = "absent"
      [] x.at = "open" /\ x.phase = "write" -> stage = "absent" /\ journal = <<>>
      [] x.at = "hydrate" ->
             stage = "absent" /\ journal # <<>> /\ x.phase = "check"
      [] x.at = "encoded" ->
             /\ journal = <<"open">>
             /\ stage = IF x.phase = "write" THEN "awaiting_pot" ELSE "absent"
      [] x.at = "awaiting_pot" ->
             journal = <<"open", "encoded">> /\ stage = "awaiting_pot"
      [] x.at \in DOMAIN Pending /\ x.phase = "write" ->
             journal # <<>> /\ stage = StageAt(x.at) /\ now \in Pending[x.at]
      [] OTHER -> journal # <<>> /\ stage = now

SerialInv ==
    failures = 0 =>
        /\ journal = <<>> \/ Journalled("open")
        /\ \A f \in DOMAIN Pending \cup {"awaiting_pot"} :
             Journalled(f) => HydratedStage(journal) \in StagesWith(f)
        /\ \A c \in Caller :
             /\ call[c].phase = "check" => call[c].seen = Len(journal)
             /\ CallStage(call[c])
=============================================================================
