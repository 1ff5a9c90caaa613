----------------------------- MODULE PotVerdict -----------------------------
(***************************************************************************)
(* Proof of Transaction for one process: PotService.verify and             *)
(* commitVerdict, the challenges, the registry of validators, and the two  *)
(* callers of verify, runPrimary (aborts on a rejection) and               *)
(* continuePrimary (leaves the process as it is).                          *)
(*                                                                         *)
(* The journal is a sequence of records; its tip is its length: two tips   *)
(* are the same exactly when no record was appended between.  An append    *)
(* under a key the journal has changes nothing and answers with the old    *)
(* record; its lookup and its write are different turns                    *)
(* (NodeChainService), so two calls may both find the key of a verdict     *)
(* unused.                                                                 *)
(*                                                                         *)
(* A call is one action per piece between two awaits; pc is the await it   *)
(* is in:                                                                  *)
(*   "history"   verify reads the history of the process                   *)
(*   "build"     buildEvidence reads history and tip again                 *)
(*   "challenge" hasOpenChallenge reads the history                        *)
(*   "evidence"  the append of pot_evidence                                *)
(*   "verdict"   append looks up the key of pot_verdict                    *)
(*   "verdict+"  append writes pot_verdict                                 *)
(*   "told"      back in the caller with an answer                         *)
(*   "gate"      marked pot_done, before the gate                          *)
(*                                                                         *)
(* The flags of process_open never change, so P1 to P4 are one Boolean,    *)
(* sound.  getFinalVerdict and the history read after it refuse on the     *)
(* same records: one read stands for both.                                 *)
(*                                                                         *)
(* The records of other processes are left out: they move the tip as a     *)
(* challenge does.                                                         *)
(*                                                                         *)
(* Bounds: MaxChallenges opened, MaxSuspensions of a Suspendable           *)
(* validator, MaxFaults restarts and failing appends.                      *)
(***************************************************************************)
EXTENDS Naturals, FiniteSets, Sequences, SequencesExt

CONSTANTS
    Node,           \* the validators every caller proposes
    Run,            \* the calls of runPrimary: it opened the process itself
    Resume,         \* the callers of continuePrimary, any number of times
    Closer,         \* who may close a challenge
    KMin,           \* defaultPotConfig.kMin
    Suspendable,    \* the validators that may be suspended
    Groups,         \* the sets of confirmers runPrimary may be called with
    MaxChallenges, MaxSuspensions, MaxFaults

ASSUME NodeAssumption == IsFiniteSet(Node) /\ Suspendable \subseteq Node /\ Groups \subseteq SUBSET Node
ASSUME CallersAssumption == Run \cap Resume = {}
ASSUME BoundsAssumption == {KMin, MaxChallenges, MaxSuspensions, MaxFaults} \subseteq Nat

VARIABLES
    journal,        \* the records of the journal, in order of height
    sound,          \* process_open satisfies P1 to P4
    registry,       \* ValidatorRegistry.byId: status of each validator, in memory
    stage,          \* ProcessService: the stage held in memory, "none" if not held
    pc,             \* the await each call is in, or "idle", "over"
    call,           \* what each call has read so far
    closing,        \* the closers that have seen an open challenge
    suspensions, faults,
    raced           \* history: two calls were writing a verdict at the same time

books == <<journal, sound>>
memory == <<registry, stage>>
calls == <<pc, call>>
budget == <<suspensions, faults>>
vars == <<books, memory, calls, closing, budget, raced>>

Caller == Run \cup Resume
NoCall == [eligible |-> {}, signers |-> {}, since |-> 0, tip |-> 0, ok |-> FALSE]

(***************************************************************************)
(* What a call has read, and the journal.  since is the height of the      *)
(* history it read first.                                                  *)
(***************************************************************************)
Kind == {"open", "challenge", "close", "evidence", "verdict", "pot_done", "abort", "mint"}
Record(c) == [kind |-> "verdict", eligible |-> c.eligible, signers |-> c.signers,
              tip |-> c.tip, ok |-> c.ok]
Plain(kind) == [kind |-> kind]
Height == 1 .. Len(journal)
Has(kind) == \E h \in Height : journal[h].kind = kind
Verified == \E h \in Height : journal[h].kind = "verdict" /\ journal[h].ok

\* append under a key that is fixed for the process.
AppendOnce(r) == journal' = IF Has(r.kind) THEN journal ELSE Append(journal, r)
AppendFresh(r) == journal' = Append(journal, r)

\* The number of challenges still open: a close answers one, whichever it was meant for.
CountChallenge(n, r) ==
    CASE r.kind = "challenge" -> n + 1
      [] r.kind = "close" -> IF n = 0 THEN 0 ELSE n - 1
      [] OTHER -> n

OpenChallenges(records) == FoldLeft(CountChallenge, 0, records)

Init ==
    /\ journal = <<Plain("open")>>
    /\ sound \in BOOLEAN
    /\ registry = [n \in Node |-> "none"]
    /\ stage = "awaiting_pot"
    /\ pc = [v \in Caller |-> IF v \in Run THEN "history" ELSE "idle"]
    /\ call = [v \in Caller |-> NoCall]
    /\ closing = {}
    /\ suspensions = 0 /\ faults = 0
    /\ raced = FALSE

-----------------------------------------------------------------------------
(***************************************************************************)
(* verify                                                                  *)
(***************************************************************************)
Goto(v, l) == pc' = [pc EXCEPT ![v] = l]
Reads(v, c) == call' = [call EXCEPT ![v] = c]
\* A refusal ends the call; the caller of a resumption may try again.
Over(v) == IF v \in Run THEN "over" ELSE "idle"
Leave(v) == Goto(v, Over(v)) /\ Reads(v, NoCall)

\* The validators in good standing; an empty registry takes the proposed ones in.
Registered == IF \A n \in Node : registry[n] = "none" THEN [n \in Node |-> "active"] ELSE registry
Eligible(reg) == {n \in Node : reg[n] = "active"}

\* The attestations that count, of those the confirmers give.
ValidSigners(confirmers, eligible) == confirmers \cap eligible

\* History, standing and attestations.  The confirmers sign the tip read next, which
\* nothing else depends on; continuePrimary has all of them sign.
ReadHistory(v) ==
    LET eligible == Eligible(Registered) IN
    /\ pc[v] = "history"
    /\ IF Verified \/ eligible = {}
       THEN /\ Leave(v)
            /\ registry' = IF Verified THEN registry ELSE Registered
       ELSE /\ registry' = Registered
            /\ \E confirmers \in (IF v \in Run THEN Groups ELSE {Node}) :
                Reads(v, [call[v] EXCEPT !.eligible = eligible, !.since = Len(journal),
                                         !.signers = ValidSigners(confirmers, eligible)])
            /\ Goto(v, "build")
    /\ UNCHANGED <<books, stage, closing, budget, raced>>

\* buildEvidence: the tip of the evidence is read again.
BuildEvidence(v) ==
    /\ pc[v] = "build"
    /\ Reads(v, [call[v] EXCEPT !.tip = Len(journal)])
    /\ Goto(v, "challenge")
    /\ UNCHANGED <<books, memory, closing, budget, raced>>

\* ceil(2/3 K).
Quorum(k) == (2 * k + 2) \div 3
QuorumOk(c) == /\ c.signers # {}
               /\ Cardinality(c.eligible) >= KMin
               /\ Cardinality(c.signers) >= Quorum(Cardinality(c.eligible))

\* The window may have passed for runPrimary, which measures it by the clock;
\* continuePrimary passes a time inside it.
Window(v) == IF v \in Run THEN {"open", "passed"} ELSE {"open"}

\* What a rejected verdict records besides the rejection is left out.
Decide(v, ok) == call' = [call EXCEPT ![v] = IF ok THEN [@ EXCEPT !.ok = TRUE, !.since = 1] ELSE NoCall]

\* Faulty variant of ReadChallenges: answers from the history read when the call began.
ReadChallengesStale(v) ==
    /\ pc[v] = "challenge"
    /\ LET blocked == OpenChallenges(SubSeq(journal, 1, call[v].since)) > 0 IN
       \E window \in Window(v) :
           Decide(v, sound /\ QuorumOk(call[v]) /\ window = "open" /\ ~blocked)
    /\ Goto(v, "evidence")
    /\ UNCHANGED <<books, memory, closing, budget, raced>>

\* hasOpenChallenge, and the decision.
ReadChallenges(v) ==
    /\ pc[v] = "challenge"
    /\ LET blocked == OpenChallenges(journal) > 0 IN
       \E window \in Window(v) :
           Decide(v, sound /\ QuorumOk(call[v]) /\ window = "open" /\ ~blocked)
    /\ Goto(v, "evidence")
    /\ UNCHANGED <<books, memory, closing, budget, raced>>

\* commitVerdict, the evidence first.  Lookup and write are one step here: the gate
\* reads the first evidence of a process, a second one is read by nobody.
WriteEvidence(v) ==
    /\ pc[v] = "evidence"
    /\ AppendOnce(Plain("evidence"))
    /\ Goto(v, "verdict")
    /\ UNCHANGED <<sound, memory, call, closing, budget, raced>>

\* A caller learns the answer and nothing else.
Told(v, ok) == /\ Goto(v, "told")
               /\ call' = [call EXCEPT ![v] = [NoCall EXCEPT !.ok = ok, !.since = 1]]

\* The verdict: the answer of verify is the one this call came to, whichever the journal has.
LookUpVerdict(v) ==
    /\ pc[v] = "verdict"
    /\ IF Has("verdict") THEN Told(v, call[v].ok) ELSE Goto(v, "verdict+") /\ UNCHANGED call
    /\ raced' = (raced \/ \E w \in Caller : pc[w] = "verdict+")
    /\ UNCHANGED <<books, memory, closing, budget>>

WriteVerdict(v) ==
    /\ pc[v] = "verdict+"
    /\ AppendFresh(Record(call[v]))
    /\ Told(v, call[v].ok)
    /\ UNCHANGED <<sound, memory, closing, budget, raced>>

\* An append throws: its record is not written, and verify and its caller with it.
AppendFails(v) ==
    /\ pc[v] \in {"evidence", "verdict+"} /\ faults < MaxFaults
    /\ faults' = faults + 1
    /\ Leave(v)
    /\ UNCHANGED <<books, memory, closing, suspensions, raced>>

-----------------------------------------------------------------------------
(***************************************************************************)
(* The callers                                                             *)
(***************************************************************************)
\* The stage that hydrate rebuilds from the journal.
JournalStage ==
    IF Has("abort") THEN "aborted" ELSE IF Has("pot_done") THEN "pot_done" ELSE "awaiting_pot"

\* Faulty variant of Continue: only a process that awaits its verdict is continued.
ContinueAwaiting(v) ==
    LET held == IF stage = "none" THEN JournalStage ELSE stage IN
    /\ pc[v] = "idle" /\ ~Has("mint")
    /\ stage' = held
    /\ held = "awaiting_pot"
    /\ Goto(v, IF Verified THEN "told" ELSE "history")
    /\ call' = [call EXCEPT ![v] = [NoCall EXCEPT !.ok = Verified]]
    /\ UNCHANGED <<books, registry, closing, budget, raced>>

\* continuePrimary up to its first look at the verdict.  A process that was minted is
\* answered "completed", one past awaiting_pot without a verified verdict is refused.
Continue(v) ==
    LET held == IF stage = "none" THEN JournalStage ELSE stage IN
    /\ pc[v] = "idle" /\ ~Has("mint")
    /\ stage' = held
    /\ Verified \/ held = "awaiting_pot"
    /\ Goto(v, IF Verified THEN "told" ELSE "history")
    /\ call' = [call EXCEPT ![v] = [NoCall EXCEPT !.ok = Verified]]
    /\ UNCHANGED <<books, registry, closing, budget, raced>>

\* runPrimary aborts a rejected process unless its stage no longer allows it.
Rejected(v) ==
    /\ pc[v] = "told" /\ ~call[v].ok
    /\ IF v \in Run /\ stage \in {"awaiting_pot", "pot_done"}
       THEN stage' = "aborted" /\ AppendOnce(Plain("abort"))
       ELSE UNCHANGED <<stage, journal>>
    /\ Leave(v)
    /\ UNCHANGED <<sound, registry, closing, budget, raced>>

\* markPotDone; a process that is past awaiting_pot is marked by no one.  A resumption
\* that found the verdict goes on to the gate all the same.
MarkPotDone(v) ==
    /\ pc[v] = "told" /\ call[v].ok
    /\ IF stage = "awaiting_pot"
       THEN stage' = "pot_done" /\ AppendFresh(Plain("pot_done"))
       ELSE UNCHANGED <<stage, journal>>
    /\ IF stage = "awaiting_pot" \/ call[v].since = 0 THEN Goto(v, "gate") /\ UNCHANGED call ELSE Leave(v)
    /\ UNCHANGED <<sound, registry, closing, budget, raced>>

\* Faulty variant of OkToEmit: takes the word of the caller that evidence was accepted.
OkToEmitOnEvidence == Has("evidence")

\* resolveOkToEmit: a positive verdict in the journal, with the evidence below it.
OkToEmit == \E e, h \in Height : /\ journal[e].kind = "evidence" /\ e < h
                                 /\ journal[h].kind = "verdict" /\ journal[h].ok

\* The gate of the orchestrator, and the mint behind it; the gates that emission and
\* token read once more, and the steps between, are TokenLedger's.
GatedMint(v) ==
    /\ pc[v] = "gate"
    /\ IF OkToEmit THEN AppendOnce(Plain("mint")) ELSE UNCHANGED journal
    /\ Leave(v)
    /\ UNCHANGED <<sound, memory, closing, budget, raced>>

-----------------------------------------------------------------------------
(***************************************************************************)
(* Challenges, standing and the process                                    *)
(***************************************************************************)
CountOf(kind) == Cardinality({h \in Height : journal[h].kind = kind})

OpenChallenge ==
    /\ CountOf("challenge") < MaxChallenges
    /\ AppendFresh(Plain("challenge"))
    /\ UNCHANGED <<sound, memory, calls, closing, budget, raced>>

\* closeChallenge looks for an open challenge first ...
SeeChallenge(c) ==
    /\ c \notin closing /\ OpenChallenges(journal) > 0
    /\ closing' = closing \cup {c}
    /\ UNCHANGED <<books, memory, calls, budget, raced>>

\* ... and appends the close later, whatever was closed in between.
CloseChallenge(c) ==
    /\ c \in closing
    /\ AppendFresh(Plain("close"))
    /\ closing' = closing \ {c}
    /\ UNCHANGED <<sound, memory, calls, budget, raced>>

Suspend(n) ==
    /\ registry[n] = "active" /\ suspensions < MaxSuspensions
    /\ registry' = [registry EXCEPT ![n] = "suspended"]
    /\ suspensions' = suspensions + 1
    /\ UNCHANGED <<books, stage, calls, closing, faults, raced>>

Restore(n) ==
    /\ registry[n] = "suspended"
    /\ registry' = [registry EXCEPT ![n] = "active"]
    /\ UNCHANGED <<books, stage, calls, closing, budget, raced>>

\* The process dies: calls, stage and registry are lost, the journal is not.
Restart ==
    /\ faults < MaxFaults
    /\ faults' = faults + 1
    /\ registry' = [n \in Node |-> "none"]
    /\ stage' = "none"
    /\ pc' = [v \in Caller |-> Over(v)]
    /\ call' = [v \in Caller |-> NoCall]
    /\ closing' = {}
    /\ UNCHANGED <<books, suspensions, raced>>

CallStep(v) ==
    \/ ReadHistory(v) \/ BuildEvidence(v) \/ ReadChallenges(v)
    \/ WriteEvidence(v) \/ LookUpVerdict(v) \/ WriteVerdict(v) \/ Rejected(v) \/ MarkPotDone(v) \/ GatedMint(v)

Next ==
    \/ \E v \in Caller : CallStep(v) \/ AppendFails(v)
    \/ \E v \in Resume : Continue(v)
    \/ OpenChallenge \/ Restart
    \/ \E c \in Closer : SeeChallenge(c) \/ CloseChallenge(c)
    \/ \E n \in Suspendable : Suspend(n) \/ Restore(n)

Spec == Init /\ [][Next]_vars

\* Started calls go on, and the portal's polling continues a process that is unfinished.
FairSpec ==
    /\ Spec
    /\ \A v \in Caller : WF_vars(CallStep(v))
    /\ \A v \in Resume : WF_vars(Continue(v))

-----------------------------------------------------------------------------
(***************************************************************************)
(* Properties                                                              *)
(***************************************************************************)
Entry == [kind : Kind \ {"verdict"}]
         \cup [kind : {"verdict"}, eligible : SUBSET Node, signers : SUBSET Node,
               tip : Nat, ok : BOOLEAN]

Calls == [eligible : SUBSET Node, signers : SUBSET Node, since : Nat, tip : Nat, ok : BOOLEAN]

\* Type invariant.
TypeOK ==
    /\ journal \in Seq(Entry)
    /\ sound \in BOOLEAN
    /\ registry \in [Node -> {"none", "active", "suspended"}]
    /\ stage \in {"none", "awaiting_pot", "pot_done", "aborted"}
    /\ pc \in [Caller -> {"idle", "history", "build", "challenge", "evidence", "verdict", "verdict+", "told", "gate", "over"}]
    /\ call \in [Caller -> Calls]
    /\ closing \subseteq Closer
    /\ suspensions \in 0 .. MaxSuspensions /\ faults \in 0 .. MaxFaults
    /\ raced \in BOOLEAN

Verdict(h) == journal[h].kind = "verdict"
Accepted(h) == Verdict(h) /\ journal[h].ok

\* Whatever calls are repeated or die half-way, a process gets no second verdict
\* (verdict-schema.md), unless two calls were writing theirs at the same time; and its
\* evidence is below each.
OneVerdictUnlessRaced ==
    \A h \in Height : Verdict(h) =>
        /\ \A g \in Height : Verdict(g) => g = h \/ raced
        /\ \E e \in 1 .. h - 1 : journal[e].kind = "evidence"

\* No mint without a verdict that accepted the process below it, carried by a quorum of
\* validators that were in standing, over a process_open that meets P1 to P4: also when
\* the call that mints was told "verified" about a verdict the journal does not have.
MintRestsOnVerdict ==
    \A m \in Height : journal[m].kind = "mint" =>
        \E h \in 1 .. m - 1 :
            /\ Accepted(h) /\ sound
            /\ journal[h].signers \subseteq journal[h].eligible
            /\ Cardinality(journal[h].eligible) >= KMin
            /\ 3 * Cardinality(journal[h].signers) >= 2 * Cardinality(journal[h].eligible)

\* "any open challenge for processId blocks verified=1" (challenge.ts:5), as far as the
\* code goes: a challenge the evidence could see, at or below its tip, was followed by a
\* close before the verdict accepted the process.
AcceptedOverNoChallenge ==
    \A h \in Height : Accepted(h) =>
        \A c \in 1 .. journal[h].tip : journal[c].kind = "challenge" =>
            \E k \in c + 1 .. h - 1 : journal[k].kind = "close"

\* Every process ends with a verdict or an abort, through crashes between evidence and
\* verdict, as long as somebody continues it.
Decided == <>(Has("verdict") \/ Has("abort"))

\* An accepted process is minted in the end, even if the call that accepted it died.
AcceptedIsMinted == Verified ~> Has("mint")

\* A process has one verdict, above its evidence, and none that accepts it over a challenge
\* the evidence could see, however verifications, challenges and crashes are mixed.
VerdictIsSound ==
    /\ TypeOK
    /\ OneVerdictUnlessRaced
    /\ AcceptedOverNoChallenge

\* Every process is decided, and minted if it was accepted, through crashes and failing
\* appends, as long as somebody continues it.
DecidedAndMinted ==
    /\ Decided
    /\ AcceptedIsMinted
-----------------------------------------------------------------------------
(***************************************************************************)
(* Why VerdictIsSound and MintRestsOnVerdict are kept: what a suspended    *)
(* call has established stays so until it writes its verdict.              *)
(***************************************************************************)
\* Every challenge up to height t was followed by a close.
Answered(t) ==
    \A c \in 1 .. t : journal[c].kind = "challenge" =>
        \E k \in c + 1 .. Len(journal) : journal[k].kind = "close"

\* The loop of hasOpenChallenge finds none open only if each was followed by a close.
CountIsTrue ==
    /\ OpenChallenges(journal) \in Nat
    /\ OpenChallenges(journal) = 0 => Answered(Len(journal))

\* A call about to accept the process does so over P1 to P4, a quorum and no
\* challenge its evidence could see; the evidence is journalled before the verdict.
CallSound(v) ==
    /\ call[v].signers \subseteq call[v].eligible /\ call[v].tip <= Len(journal)
    /\ pc[v] \in {"evidence", "verdict", "verdict+"} /\ call[v].ok =>
          sound /\ QuorumOk(call[v]) /\ Answered(call[v].tip)
    /\ pc[v] \in {"verdict", "verdict+"} => Has("evidence")

\* A verdict on its way is the first one, or the race for it was noticed.
RaceNoticed ==
    \A v \in Caller : pc[v] = "verdict+" =>
        raced \/ (~Has("verdict") /\ \A w \in Caller \ {v} : pc[w] # "verdict+")

\* The journal bears out every verdict and mint on it.
RecordsSound ==
    /\ OneVerdictUnlessRaced
    /\ AcceptedOverNoChallenge
    /\ \A h \in Height : Accepted(h) =>
         /\ sound /\ QuorumOk(journal[h]) /\ journal[h].tip < h
         /\ journal[h].signers \subseteq journal[h].eligible
    /\ \A m \in Height : journal[m].kind = "mint" => \E h \in 1 .. m - 1 : Accepted(h)

VerdictInv ==
    /\ TypeOK
    /\ CountIsTrue
    /\ \A v \in Caller : CallSound(v)
    /\ RaceNoticed
    /\ RecordsSound
=============================================================================
