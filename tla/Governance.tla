------------------------------ MODULE Governance ------------------------------
(***************************************************************************)
(* The advice a primary process needs on its way to the emission: policy   *)
(* (L1), committee (L2), and after the verdict of Proof-of-Transaction the *)
(* panel of five agents (L3), whose context holds the critical events the  *)
(* All-Seeing Eye has noted since the start, of any process.  Agents are   *)
(* asked one after the other; policies and the mock model answer at once,  *)
(* HTTP agents and language models may fail.                               *)
(*   step  "none"     no run               "opening"   L1 passed           *)
(*         "open"     L2 passed, opened    "verified"  verdict 1           *)
(*         "panel"    agents being asked   "let"       on to the emission  *)
(*         "stopped"  before opening       "rejecting" verdict 0           *)
(*         "refused"  by the panel         "rejected"  ... and aborted     *)
(*         "cut"      open, and no run is on                               *)
(* Scores are in twentieths.  What is recorded between two steps is left   *)
(* out, but for what a continuation reads there.                           *)
(* Bounds: a process has one run and then continuations; MaxStarts.        *)
(***************************************************************************)
EXTENDS Integers, Sequences, FiniteSets, SequencesExt

CONSTANTS Process,
          Committees,    \* lists of approvers a run may name
          Panels,        \* the panels the environment may ask for
          Scores,        \* scores a remote agent may give
          MaxStarts

Roles == <<"intake_integrity", "pot_consistency", "economic_bounds", "anomaly_watch",
           "release_risk">>
Agents == ToSet(Roles)

ASSUME GovernanceAssumption ==
    /\ Panels \subseteq [Agents -> {"policy", "http", "mock", "model"}]
    /\ Scores \subseteq Int /\ MaxStarts \in Nat

VARIABLES panel,      \* the backend of each agent
          run,        \* the run or continuation of a process
          critical,   \* processes with critical events on record since the start
          starts,
          warned,     \* ghost: processes whose panel met with critical events on record
          silent,     \* ghost: processes one of whose agents did not say yes
          unaborted   \* ghost: rejected processes whose abortion was not recorded

ghosts == <<warned, silent, unaborted>>
govVars == <<panel, run, critical, starts, ghosts>>

Worth == {"zero", "low", "high", "above"}
NoRun == [step |-> "none", worth |-> "low", hard |-> FALSE, seen |-> {},
          asked |-> {}, score |-> 0, failed |-> FALSE]

\* Types; opinions are held only while a panel is asked.
GovernanceTypeOK ==
    /\ panel \in Panels
    /\ run \in [Process -> [step : {"none", "opening", "open", "verified", "panel", "let",
                                    "stopped", "rejecting", "rejected", "refused",
                                    "cut"},
                            worth : Worth, hard : BOOLEAN, seen : SUBSET Process,
                            asked : SUBSET Agents, score : Int, failed : BOOLEAN]]
    /\ {critical, warned, silent, unaborted} \subseteq SUBSET Process /\ starts \in 0..MaxStarts
    /\ \A p \in Process : run[p].step # "panel" => run[p].asked = {}

GovernanceInit ==
    /\ panel \in Panels /\ run = [p \in Process |-> NoRun]
    /\ critical = {} /\ starts = 0
    /\ warned = {} /\ silent = {} /\ unaborted = {}

Goes(p, step) == run' = [run EXCEPT ![p].step = step]
-----------------------------------------------------------------------------
(***************************************************************************)
(* Opinions.  The process is one whose institution is allowlisted, whose   *)
(* verdict is 1 and whose stages include "encoded": L1 and PoT saw to it.  *)
(***************************************************************************)
Opinion(score, pass) == [score |-> score, pass |-> pass]

\* PolicyAgent.evaluate
Policy(agent, worth, seen) ==
    CASE agent = "economic_bounds" ->
             CASE worth = "zero" -> Opinion(0, FALSE)
               [] worth = "above" -> Opinion(2, FALSE)
               [] worth = "high" -> Opinion(15, TRUE)
               [] OTHER -> Opinion(20, TRUE)
      [] agent = "anomaly_watch" -> IF seen # {} THEN Opinion(4, FALSE) ELSE Opinion(20, TRUE)
      [] agent = "release_risk" -> Opinion(18, TRUE)
      [] OTHER -> Opinion(20, TRUE)

\* MockLlmProvider: of the bounds of the value it knows nothing.
Mock(agent, worth, seen) ==
    IF agent = "anomaly_watch" /\ seen # {} THEN Opinion(4, FALSE) ELSE Opinion(18, TRUE)

Within(low, n, high) == IF n < low THEN low ELSE IF n > high THEN high ELSE n

\* What a remote agent is taken to have said: an error, a status, a text that is
\* no opinion count as a no; a yes without a score counts as 0; only the scores of
\* a model are kept in bounds.
Remote(agent) == Opinion(0, FALSE)

Replies(agent) ==
    {Opinion(s, pass) : s \in {0} \cup {IF panel[agent] = "model" THEN Within(0, n, 20) ELSE n :
                                            n \in Scores},
                        pass \in BOOLEAN}

\* The aggregate of the five is below 0.6.
Weak(worth, score) == worth \in {"high", "above"} /\ score < 5 * 12
-----------------------------------------------------------------------------
(***************************************************************************)
(* runPrimary.                                                             *)
(***************************************************************************)

\* L1 fails: noted by the Eye, the run ends.  The panel is binding by default if
\* the value is high; a caller may choose.
Begin(p, worth, hard) ==
    /\ run[p].step = "none"
    /\ \/ /\ run' = [run EXCEPT ![p] = [NoRun EXCEPT !.step = "opening", !.worth = worth,
                                                      !.hard = hard]]
          /\ UNCHANGED critical
       \/ run' = [run EXCEPT ![p].step = "stopped"] /\ critical' = critical \cup {p}
    /\ UNCHANGED <<panel, starts, ghosts>>

\* grantL2 for each approver: as many different ones as were named, one at least.
L2Complete(approvers) ==
    approvers # <<>> /\ Cardinality(ToSet(approvers)) >= Len(approvers)

Committee(p, approvers) ==
    /\ run[p].step = "opening"
    /\ Goes(p, IF L2Complete(approvers) THEN "open" ELSE "stopped")
    /\ UNCHANGED <<panel, critical, starts, ghosts>>

\* A run that the oracle stops stays open, and may be continued.
OracleStops(p) ==
    /\ run[p].step = "open" /\ Goes(p, "cut")
    /\ UNCHANGED <<panel, critical, starts, ghosts>>

\* The verdict is noted by the Eye.
Verdict(p) ==
    /\ run[p].step = "open"
    /\ \/ Goes(p, "verified") /\ UNCHANGED critical
       \/ Goes(p, "rejecting") /\ critical' = critical \cup {p}
    /\ UNCHANGED <<panel, starts, ghosts>>

\* A rejected process is aborted, unless that cannot be recorded.
Abort(p) ==
    /\ run[p].step = "rejecting"
    /\ \/ Goes(p, "rejected") /\ UNCHANGED unaborted
       \/ Goes(p, "cut") /\ unaborted' = unaborted \cup {p}
    /\ UNCHANGED <<panel, critical, starts, warned, silent>>

Local == {a \in Agents : panel[a] \in {"policy", "mock"}}

\* An agent yet to be asked counts for nothing, and does not object.
Unasked == Opinion(0, TRUE)

AgentSays(agent, worth, seen) ==
    CASE panel[agent] = "policy" -> Policy(agent, worth, seen)
      [] panel[agent] = "mock" -> Mock(agent, worth, seen)
      [] OTHER -> Unasked

PanelScore(says) ==
    says["intake_integrity"].score + says["pot_consistency"].score
        + says["economic_bounds"].score + says["anomaly_watch"].score + says["release_risk"].score

\* The agents that answer at once have answered; the order makes no difference.
Meets(p, seen) ==
    LET says == [a \in Agents |-> AgentSays(a, run[p].worth, seen)]
    IN  /\ run[p].step = "verified"
        /\ run' = [run EXCEPT ![p] = [@ EXCEPT
                       !.step = "panel", !.seen = seen, !.asked = Local,
                       !.score = PanelScore(says),
                       !.failed = \E a \in Agents : ~says[a].pass]]
        /\ silent' = silent \ {p}
        /\ warned' = IF critical # {} THEN warned \cup {p} ELSE warned \ {p}
        /\ UNCHANGED <<panel, critical, starts, unaborted>>

\* Faulty variant of PanelMeets: only the events of the process itself count.
PanelMeetsOwn(p) == Meets(p, critical \cap {p})

\* evaluateL3: the context is taken before the first agent is asked.
PanelMeets(p) == Meets(p, critical)

Hears(p, agent, opinion) ==
    run' = [run EXCEPT ![p] = [@ EXCEPT !.asked = run[p].asked \cup {agent},
                                        !.score = run[p].score + opinion.score,
                                        !.failed = run[p].failed \/ ~opinion.pass]]

\* A remote agent answers, or there is none: an error, a refusal, the time is up.
RemoteAnswers(p, agent) ==
    /\ run[p].step = "panel" /\ run[p].asked # Agents
    /\ agent = SelectSeq(Roles, LAMBDA a : a \notin run[p].asked)[1]
    /\ \/ \E o \in Replies(agent) :
             /\ Hears(p, agent, o)
             /\ silent' = IF o.pass THEN silent ELSE silent \cup {p}
       \/ Hears(p, agent, Remote(agent)) /\ silent' = silent \cup {p}
    /\ UNCHANGED <<panel, critical, starts, warned, unaborted>>

\* The panel passes if nobody objects and the score of a high value is not weak;
\* without consequence unless it binds.
PanelDecides(p) ==
    LET objection == run[p].failed \/ Weak(run[p].worth, run[p].score) IN
    /\ run[p].step = "panel" /\ run[p].asked = Agents
    /\ run' = [run EXCEPT ![p] = [@ EXCEPT
                   !.step = IF objection /\ run[p].hard THEN "refused" ELSE "let",
                   !.asked = {}, !.score = 0, !.failed = FALSE]]
    /\ UNCHANGED <<panel, critical, starts, ghosts>>
-----------------------------------------------------------------------------
(***************************************************************************)
(* continuePrimary, and the restart.                                       *)
(***************************************************************************)

\* A process with a verdict goes to the panel, aborted or not; an open one is
\* verified, and a rejection is neither noted nor aborts it.  Only a high value
\* makes the panel binding now.
ContinueRun(p) ==
    /\ run[p].step \in {"cut", "refused"}
    /\ run' = [run EXCEPT ![p] = [NoRun EXCEPT !.step = "verified", !.worth = run[p].worth,
                                              !.hard = run[p].worth \in {"high", "above"}]]
    /\ UNCHANGED <<panel, critical, starts, ghosts>>

\* The Eye forgets.  What was not opened is gone, the rest may be continued.
GovernanceRestarts ==
    /\ starts < MaxStarts /\ starts' = starts + 1
    /\ critical' = {}
    /\ run' = [p \in Process |->
                 CASE run[p].step \in {"open", "verified", "panel", "rejecting"} ->
                          [NoRun EXCEPT !.step = "cut", !.worth = run[p].worth]
                   [] run[p].step = "opening" -> [run[p] EXCEPT !.step = "stopped"]
                   [] OTHER -> run[p]]
    /\ UNCHANGED <<panel, ghosts>>

GovernanceNext ==
    \/ \E p \in Process :
         \/ \E worth \in Worth, hard \in BOOLEAN : Begin(p, worth, hard)
         \/ \E approvers \in Committees : Committee(p, approvers)
         \/ OracleStops(p) \/ Verdict(p) \/ Abort(p) \/ PanelMeets(p)
         \/ \E agent \in Agents : RemoteAnswers(p, agent)
         \/ PanelDecides(p) \/ ContinueRun(p)
    \/ GovernanceRestarts

GovernanceSpec == GovernanceInit /\ [][GovernanceNext]_govVars
-----------------------------------------------------------------------------
AllPolicy == \A a \in Agents : panel[a] = "policy"

\* A binding panel of the default agents lets a process through only if its
\* value is in bounds and no critical event of whatever process was on record
\* when the panel met.
LetOnMerit ==
    \A p \in Process :
        run[p].step = "let" /\ run[p].hard /\ AllPolicy =>
            run[p].worth \in {"low", "high"} /\ p \notin warned

\* A binding panel of whatever agents lets a process through only if each of
\* them has answered, and answered yes.
LetByEverybody ==
    \A p \in Process : run[p].step = "let" /\ run[p].hard => p \notin silent

\* The default agents refuse a process only for a value out of bounds or for
\* critical events on record: that a value is high is never the reason.
RefusedForCause ==
    \A p \in Process :
        run[p].step = "refused" /\ AllPolicy =>
            run[p].worth \in {"zero", "above"} \/ run[p].seen # {}

\* The critical events that count against a process are all of other processes:
\* one with such an event of its own never comes before the panel, unless its
\* abortion could not be recorded.
OthersCountOnly ==
    \A p \in Process :
        run[p].step \in {"panel", "let", "refused"} /\ p \notin unaborted =>
            p \notin critical \cup run[p].seen

\* Advice counts for what it is worth: whoever goes on was let through on the answers the panel
\* had, by everybody if by anybody, whoever is refused was so for a cause, and only the runs of
\* others count against a run.
AdviceIsSound ==
    /\ GovernanceTypeOK
    /\ LetOnMerit
    /\ LetByEverybody
    /\ RefusedForCause
    /\ OthersCountOnly
=============================================================================
