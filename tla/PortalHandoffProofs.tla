------------------------- MODULE PortalHandoffProofs -------------------------
(***************************************************************************)
(* Proofs about PortalHandoff: what the edge and the page say of a process *)
(* happened at the core, and one idempotency key opens one process.        *)
(*                                                                         *)
(* The argument follows the border between the two programs.  A step of    *)
(* the core leaves the edge alone, only adds to the journal, and moves a   *)
(* call without touching what was asked (CoreEffect); a step of the edge   *)
(* leaves the core alone and, but for create and attachDocuments, keeps    *)
(* key and package of every record (EdgeEffect).                           *)
(*                                                                         *)
(* Two parts follow: the sessions of the edge and the pages that only read *)
(* what it answers.                                                        *)
(***************************************************************************)
EXTENDS PortalHandoff, EdgeSessions, PortalPages, TLAPS

FactsGrow == \A p \in Pid : facts[p] \subseteq facts'[p]

\* What was asked in a call.
SameQuestion(k, m) == k.op = m.op /\ k.pid = m.pid /\ k.key = m.key /\ k.hash = m.hash

\* Every call stays what was asked or is over.
CallsMove ==
    /\ call' \in [Caller -> Calls]
    /\ \A c \in Caller : SoundCall(call[c])'
    /\ \A c \in Caller : (c \in Orphan /\ call'[c] = NoCall) \/ SameQuestion(call'[c], call[c])

CoreEffect ==
    /\ UNCHANGED <<edge, sessions, handler, page, unsaved, late>>
    /\ facts' \in [Pid -> SUBSET Fact] /\ FactsGrow
    /\ CallsMove
    /\ registered' \in [Pid -> Registration \cup {None}]
    /\ \A p \in Pid :
          \/ registered'[p] = registered[p]
          \/ /\ facts'[p] # {}
             /\ \E c \in Caller : /\ call[c].op = "create" /\ call[c].pid = p
                                  /\ registered'[p] = [key |-> call[c].key, hash |-> call[c].hash]
    /\ keys' \subseteq Key /\ faults' \in 0..MaxFaults /\ restarts' \in 0..MaxRestarts
    /\ cut' \subseteq Pid
-----------------------------------------------------------------------------
(***************************************************************************)
(* Calls.                                                                  *)
(***************************************************************************)

\* A fault is counted within its bound.
LEMMA FaultCounts ==
    ASSUME TypeOK, Fault \/ UNCHANGED faulted
    PROVE  faults' \in 0..MaxFaults /\ restarts' \in 0..MaxRestarts
<1>1. MaxFaults \in Nat /\ faults \in 0..MaxFaults /\ restarts \in 0..MaxRestarts
  BY HandoffAssumption DEF TypeOK
<1>2. CASE Fault
  BY <1>1, <1>2 DEF Fault
<1>3. CASE UNCHANGED faulted
  BY <1>1, <1>3 DEF faulted
<1> QED
  BY <1>2, <1>3

\* What was true of a call on the journal stays true of it.
LEMMA SoundStays ==
    ASSUME NEW k \in Calls, SoundCall(k), FactsGrow
    PROVE  SoundCall(k)'
BY DEF SoundCall, FactsGrow

\* One call moves.
LEMMA OneMoves ==
    ASSUME HandoffInv, FactsGrow, NEW c \in Caller, NEW k \in Calls, SoundCall(k)',
           (c \in Orphan /\ k = NoCall) \/ SameQuestion(k, call[c]),
           call' = [call EXCEPT ![c] = k]
    PROVE  CallsMove
<1>1. call \in [Caller -> Calls]
  BY DEF HandoffInv, TypeOK
<1>2. call' \in [Caller -> Calls] /\ call'[c] = k
  BY <1>1
<1>3. ASSUME NEW d \in Caller
      PROVE  /\ SoundCall(call[d])'
             /\ (d \in Orphan /\ call'[d] = NoCall) \/ SameQuestion(call'[d], call[d])
  <2>1. CASE d = c
    BY <1>2, <2>1
  <2>2. CASE d # c
    <3>1. PICK m \in Calls : m = call[d]
      BY <1>1
    <3>2. call'[d] = m
      BY <1>1, <2>2, <3>1
    <3>3. SoundCall(m)'
      BY <3>1, SoundStays DEF HandoffInv
    <3> QED
      BY <3>1, <3>2, <3>3 DEF SameQuestion
  <2> QED
    BY <2>1, <2>2
<1> QED
  BY <1>2, <1>3 DEF CallsMove

\* A call is answered, or goes on.
LEMMA AnswerMoves ==
    ASSUME HandoffInv, FactsGrow, NEW c \in Caller, call[c].op # "none",
           NEW code \in {"ok", "notfound", "error"}, NEW view \in View,
           Answer(c, code, view),
           code = "ok" => facts'[call[c].pid] # {},
           view.pot => "verdict1" \in facts'[call[c].pid],
           view.mint => "mint" \in facts'[call[c].pid]
    PROVE  CallsMove
<1>1. PICK m \in Calls : m = call[c]
  BY DEF HandoffInv, TypeOK
<1>2. CASE c \in Orphan
  <2>1. NoCall \in Calls /\ SoundCall(NoCall)'
    BY DEF NoCall, Calls, View, Nothing, SoundCall
  <2>2. call' = [call EXCEPT ![c] = NoCall]
    BY <1>2 DEF Answer
  <2> QED
    BY <1>2, <2>1, <2>2, OneMoves
<1>3. CASE c \notin Orphan
  <2>1. PICK k : k = [m EXCEPT !.at = "answered", !.code = code, !.view = view]
    OBVIOUS
  <2>2. k \in Calls /\ SameQuestion(k, m) /\ k.at = "answered" /\ k.code = code /\ k.view = view
    BY <2>1 DEF Calls, SameQuestion
  <2>3. SoundCall(m)
    BY <1>1 DEF HandoffInv
  <2>4. SoundCall(k)'
    BY <1>1, <2>2, <2>3 DEF SoundCall, SameQuestion, NoCall
  <2>5. call' = [call EXCEPT ![c] = k]
    BY <1>1, <1>3, <2>1 DEF Answer
  <2> QED
    BY <1>1, <2>2, <2>4, <2>5, OneMoves
<1> QED
  BY <1>2, <1>3

\* An answer that tells nothing.
LEMMA RefusalMoves ==
    ASSUME HandoffInv, FactsGrow, NEW c \in Caller, call[c].op # "none",
           NEW code \in {"notfound", "error"}, Answer(c, code, Nothing)
    PROVE  CallsMove
<1>1. Nothing \in View /\ ~Nothing.pot /\ ~Nothing.mint
  BY DEF Nothing, View
<1> QED
  BY <1>1, AnswerMoves

LEMMA GoOnMoves ==
    ASSUME HandoffInv, FactsGrow, NEW c \in Caller, call[c].op # "none",
           NEW at \in {"open", "pot", "mint"}, GoOn(c, at),
           at = "open" => call[c].op = "create",
           at = "mint" => "verdict1" \in facts'[call[c].pid]
    PROVE  CallsMove
<1>1. PICK m \in Calls : m = call[c]
  BY DEF HandoffInv, TypeOK
<1>2. PICK k : k = [m EXCEPT !.at = at]
  OBVIOUS
<1>3. k \in Calls /\ SameQuestion(k, m) /\ k.at = at /\ k.code = m.code /\ k.view = m.view
  BY <1>2 DEF Calls, SameQuestion
<1>4. SoundCall(m)'
  BY <1>1, SoundStays DEF HandoffInv
<1>5. SoundCall(k)'
  BY <1>1, <1>3, <1>4 DEF SoundCall, SameQuestion, NoCall
<1>6. call' = [call EXCEPT ![c] = k]
  BY <1>1, <1>2 DEF GoOn, HandoffInv, TypeOK
<1> QED
  BY <1>1, <1>3, <1>5, <1>6, OneMoves
-----------------------------------------------------------------------------
(***************************************************************************)
(* The steps of the core.                                                  *)
(***************************************************************************)

\* A fact more on the journal of one process.
LEMMA JournalGrows ==
    ASSUME TypeOK, NEW p \in Pid, NEW f \in SUBSET Fact, facts' = [facts EXCEPT ![p] = @ \cup f]
    PROVE  /\ facts' \in [Pid -> SUBSET Fact] /\ FactsGrow
           /\ f \subseteq facts'[p]
BY DEF TypeOK, FactsGrow

LEMMA JournalStays ==
    ASSUME TypeOK, UNCHANGED facts
    PROVE  facts' \in [Pid -> SUBSET Fact] /\ FactsGrow
BY DEF TypeOK, FactsGrow

\* What a call that runs or waits for the core asks.
LEMMA Asked ==
    ASSUME HandoffInv, NEW c \in Caller, call[c].op # "none" \/ call[c].at # "none"
    PROVE  /\ call[c] \in Calls /\ call[c].op # "none" /\ call[c].pid \in Pid
           /\ call[c].op = "create" => call[c].key \in Key /\ call[c].hash \in Hash
           /\ call[c].at = "open" => call[c].op = "create"
           /\ call[c].at = "mint" => "verdict1" \in facts[call[c].pid]
<1>1. call[c] \in Calls /\ SoundCall(call[c])
  BY DEF HandoffInv, TypeOK
<1>2. call[c] # NoCall
  BY DEF NoCall
<1> QED
  BY <1>1, <1>2 DEF SoundCall

LEMMA AdmitEffect ==
    ASSUME HandoffInv, NEW c \in Caller, Admit(c)
    PROVE  CoreEffect
<1>1. /\ call[c].op = "create" /\ call[c].pid \in Pid /\ call[c].key \in Key
      /\ keys' = keys \cup {call[c].key}
      /\ UNCHANGED <<edge, sessions, handler, registered, page, unsaved, late>>
  BY Asked DEF Admit
<1>2. TypeOK
  BY DEF HandoffInv
<1>3. keys' \subseteq Key /\ registered' \in [Pid -> Registration \cup {None}]
  BY <1>1, <1>2 DEF TypeOK
<1>4. CASE Answer(c, "error", Nothing) /\ UNCHANGED <<facts, faulted, cut>>
  <2>1. facts' \in [Pid -> SUBSET Fact] /\ FactsGrow
    BY <1>2, <1>4, JournalStays
  <2>2. CallsMove
    BY <1>1, <1>4, <2>1, RefusalMoves
  <2>3. faults' \in 0..MaxFaults /\ restarts' \in 0..MaxRestarts /\ cut' \subseteq Pid
    BY <1>2, <1>4, FaultCounts DEF TypeOK
  <2> QED
    BY <1>1, <1>3, <2>1, <2>2, <2>3 DEF CoreEffect
<1>5. CASE Journal(call[c].pid, "start") /\ GoOn(c, "open") /\ UNCHANGED <<faulted, cut>>
  <2>1. facts' \in [Pid -> SUBSET Fact] /\ FactsGrow
    <3>1. facts' = [facts EXCEPT ![call[c].pid] = @ \cup {"start"}] /\ {"start"} \in SUBSET Fact
      BY <1>5 DEF Journal, Fact
    <3> QED
      BY <1>1, <1>2, <3>1, JournalGrows
  <2>2. CallsMove
    BY <1>1, <1>5, <2>1, GoOnMoves
  <2>3. faults' \in 0..MaxFaults /\ restarts' \in 0..MaxRestarts /\ cut' \subseteq Pid
    BY <1>2, <1>5, FaultCounts DEF TypeOK
  <2> QED
    BY <1>1, <1>3, <2>1, <2>2, <2>3 DEF CoreEffect
<1>6. CASE /\ Fault /\ Answer(c, "error", Nothing)
           /\ cut' = cut \cup {call[c].pid} /\ UNCHANGED facts
  <2>1. facts' \in [Pid -> SUBSET Fact] /\ FactsGrow
    BY <1>2, <1>6, JournalStays
  <2>2. CallsMove
    BY <1>1, <1>6, <2>1, RefusalMoves
  <2>3. faults' \in 0..MaxFaults /\ restarts' \in 0..MaxRestarts /\ cut' \subseteq Pid
    BY <1>1, <1>2, <1>6, FaultCounts DEF TypeOK
  <2> QED
    BY <1>1, <1>3, <2>1, <2>2, <2>3 DEF CoreEffect
<1> QED
  BY <1>4, <1>5, <1>6 DEF Admit

\* A step of the core that only reads.
LEMMA ReadingEffect ==
    ASSUME HandoffInv, CallsMove, UNCHANGED <<edge, sessions, handler, core, page, faulted, ghosts>>
    PROVE  CoreEffect
<1>1. TypeOK /\ UNCHANGED faulted
  BY DEF HandoffInv
<1>2. faults' \in 0..MaxFaults /\ restarts' \in 0..MaxRestarts
  BY <1>1, FaultCounts
<1>3. facts' \in [Pid -> SUBSET Fact] /\ FactsGrow
  BY <1>1, JournalStays DEF core
<1> QED
  BY <1>1, <1>2, <1>3 DEF CoreEffect, core, ghosts, TypeOK

LEMMA SeenIsSo ==
    ASSUME TypeOK, NEW p \in Pid, UNCHANGED facts
    PROVE  /\ Seen(p) \in View
           /\ Seen(p).pot => "verdict1" \in facts'[p]
           /\ Seen(p).mint => "mint" \in facts'[p]
<1>1. /\ Seen(p).pot = ("verdict1" \in facts[p])
      /\ Seen(p).mint = ("mint" \in facts[p])
  BY Zenon DEF Seen
<1>2. Seen(p) = [pot |-> Seen(p).pot, mint |-> Seen(p).mint]
  BY <1>1, Zenon DEF Seen
<1>3. Seen(p).pot \in BOOLEAN /\ Seen(p).mint \in BOOLEAN
  <2>1. \A b : (b = TRUE \/ b = FALSE) => b \in BOOLEAN
    OBVIOUS
  <2>2. CASE "verdict1" \in facts[p]
    BY <1>1, <2>1, <2>2
  <2>3. CASE "verdict1" \notin facts[p]
    BY <1>1, <2>1, <2>3
  <2> QED
    BY <2>2, <2>3
<1>4. Seen(p) \in View
  BY <1>2, <1>3, Zenon DEF View
<1> QED
  BY <1>1, <1>4, Zenon

LEMMA ResumeEffect ==
    ASSUME HandoffInv, NEW c \in Caller, Resume(c)
    PROVE  CoreEffect
<1>1. /\ call[c].op = "continue" /\ call[c].pid \in Pid
      /\ UNCHANGED <<edge, sessions, handler, core, page, faulted, ghosts>>
  BY Asked DEF Resume
<1>2. TypeOK /\ UNCHANGED facts
  BY <1>1 DEF HandoffInv, core
<1>3. FactsGrow
  BY <1>2, JournalStays
<1>4. CASE Answer(c, "notfound", Nothing)
  BY <1>1, <1>3, <1>4, RefusalMoves, ReadingEffect
<1>5. CASE Answer(c, "error", Nothing)
  BY <1>1, <1>3, <1>5, RefusalMoves, ReadingEffect
<1>6. CASE "mint" \in facts[call[c].pid] /\ Answer(c, "ok", Seen(call[c].pid))
  <2>1. facts'[call[c].pid] # {}
    BY <1>2, <1>6
  <2>2. PICK view \in View : view = Seen(call[c].pid)
    BY <1>1, <1>2, SeenIsSo
  <2>3. CallsMove
    BY <1>1, <1>2, <1>3, <1>6, <2>1, <2>2, SeenIsSo, AnswerMoves
  <2> QED
    BY <1>1, <2>3, ReadingEffect
<1>7. CASE "verdict1" \in facts[call[c].pid] /\ GoOn(c, "mint")
  <2>1. CallsMove
    BY <1>1, <1>2, <1>3, <1>7, GoOnMoves
  <2> QED
    BY <1>1, <2>1, ReadingEffect
<1>8. CASE "verdict1" \notin facts[call[c].pid] /\ GoOn(c, "pot")
  <2>1. CallsMove
    BY <1>1, <1>2, <1>3, <1>8, GoOnMoves
  <2> QED
    BY <1>1, <2>1, ReadingEffect
<1> QED
  BY <1>4, <1>5, <1>6, <1>7, <1>8 DEF Resume

LEMMA ReadEffect ==
    ASSUME HandoffInv, NEW c \in Caller, Read(c)
    PROVE  CoreEffect
<1>1. /\ call[c].op = "get" /\ call[c].pid \in Pid
      /\ UNCHANGED <<edge, sessions, handler, core, page, faulted, ghosts>>
  BY Asked DEF Read
<1>2. TypeOK /\ UNCHANGED facts
  BY <1>1 DEF HandoffInv, core
<1>3. FactsGrow
  BY <1>2, JournalStays
<1>4. CASE Answer(c, "notfound", Nothing)
  BY <1>1, <1>3, <1>4, RefusalMoves, ReadingEffect
<1>5. CASE facts[call[c].pid] # {} /\ Answer(c, "ok", Seen(call[c].pid))
  <2>1. PICK view \in View : view = Seen(call[c].pid)
    BY <1>1, <1>2, SeenIsSo
  <2>2. CallsMove
    BY <1>1, <1>2, <1>3, <1>5, <2>1, SeenIsSo, AnswerMoves
  <2> QED
    BY <1>1, <2>2, ReadingEffect
<1> QED
  BY <1>4, <1>5 DEF Read

LEMMA OpenEffect ==
    ASSUME HandoffInv, NEW c \in Caller, Open(c)
    PROVE  CoreEffect
<1>1. /\ call[c].op = "create" /\ call[c].pid \in Pid
      /\ call[c].key \in Key /\ call[c].hash \in Hash
      /\ UNCHANGED <<edge, sessions, handler, keys, page, faulted, ghosts>>
  BY Asked DEF Open
<1>2. TypeOK /\ UNCHANGED faulted /\ UNCHANGED <<unsaved, cut, late>>
  BY <1>1 DEF HandoffInv, ghosts
<1>3. /\ faults' \in 0..MaxFaults /\ restarts' \in 0..MaxRestarts /\ cut' \subseteq Pid
      /\ keys' \subseteq Key
  BY <1>1, <1>2, FaultCounts DEF TypeOK
<1>4. CASE Answer(c, "error", Nothing) /\ UNCHANGED <<facts, registered>>
  <2>1. facts' \in [Pid -> SUBSET Fact] /\ FactsGrow
    BY <1>2, <1>4, JournalStays
  <2>2. CallsMove
    BY <1>1, <1>4, <2>1, RefusalMoves
  <2> QED
    BY <1>1, <1>2, <1>3, <1>4, <2>1, <2>2 DEF CoreEffect, TypeOK
<1>5. CASE /\ Journal(call[c].pid, "open") /\ GoOn(c, "pot")
           /\ registered' = [registered EXCEPT ![call[c].pid] =
                                [key |-> call[c].key, hash |-> call[c].hash]]
  <2>1. /\ facts' \in [Pid -> SUBSET Fact] /\ FactsGrow
        /\ "open" \in facts'[call[c].pid]
    <3>1. facts' = [facts EXCEPT ![call[c].pid] = @ \cup {"open"}] /\ {"open"} \in SUBSET Fact
      BY <1>5 DEF Journal, Fact
    <3> QED
      BY <1>1, <1>2, <3>1, JournalGrows
  <2>2. CallsMove
    BY <1>1, <1>5, <2>1, GoOnMoves
  <2>3. [key |-> call[c].key, hash |-> call[c].hash] \in Registration
    BY <1>1 DEF Registration
  <2>4. /\ registered' \in [Pid -> Registration \cup {None}]
        /\ \A p \in Pid : p # call[c].pid => registered'[p] = registered[p]
        /\ registered'[call[c].pid] = [key |-> call[c].key, hash |-> call[c].hash]
    BY <1>1, <1>2, <1>5, <2>3 DEF TypeOK
  <2>5. ASSUME NEW p \in Pid
        PROVE  \/ registered'[p] = registered[p]
               \/ /\ facts'[p] # {}
                  /\ \E d \in Caller : /\ call[d].op = "create" /\ call[d].pid = p
                                       /\ registered'[p] = [key |-> call[d].key, hash |-> call[d].hash]
    BY <1>1, <2>1, <2>4
  <2> QED
    BY <1>1, <1>2, <1>3, <2>1, <2>2, <2>4, <2>5 DEF CoreEffect
<1> QED
  BY <1>4, <1>5 DEF Open

\* A step of the core that registers nothing and ends no run short of open.
LEMMA JournalingEffect ==
    ASSUME HandoffInv, CallsMove, facts' \in [Pid -> SUBSET Fact], FactsGrow,
           Fault \/ UNCHANGED faulted,
           UNCHANGED <<edge, sessions, handler, registered, keys, page, ghosts>>
    PROVE  CoreEffect
<1>1. TypeOK
  BY DEF HandoffInv
<1>2. faults' \in 0..MaxFaults /\ restarts' \in 0..MaxRestarts
  BY <1>1, FaultCounts
<1> QED
  BY <1>1, <1>2 DEF CoreEffect, ghosts, TypeOK

LEMMA ConfirmEffect ==
    ASSUME HandoffInv, NEW c \in Caller, Confirm(c)
    PROVE  CoreEffect
<1>1. /\ call[c].op # "none" /\ call[c].pid \in Pid
      /\ UNCHANGED <<edge, sessions, handler, registered, keys, page, ghosts>>
  BY Asked DEF Confirm
<1>2. TypeOK
  BY DEF HandoffInv
<1>3. CASE Answer(c, "error", Nothing) /\ UNCHANGED <<facts, faulted>>
  BY <1>1, <1>2, <1>3, JournalStays, RefusalMoves, JournalingEffect
<1>4. CASE Journal(call[c].pid, "verdict1") /\ GoOn(c, "mint") /\ UNCHANGED faulted
  <2>1. /\ facts' \in [Pid -> SUBSET Fact] /\ FactsGrow
        /\ "verdict1" \in facts'[call[c].pid]
    <3>1. /\ facts' = [facts EXCEPT ![call[c].pid] = @ \cup {"verdict1"}]
          /\ {"verdict1"} \in SUBSET Fact
      BY <1>4 DEF Journal, Fact
    <3> QED
      BY <1>1, <1>2, <3>1, JournalGrows
  <2>2. CallsMove
    BY <1>1, <1>4, <2>1, GoOnMoves
  <2> QED
    BY <1>1, <1>4, <2>1, <2>2, JournalingEffect
<1>5. CASE /\ facts' = [facts EXCEPT ![call[c].pid] = @ \cup {"verdict0"}
                           \cup (IF call[c].op = "create" THEN {"abort"} ELSE {})]
           /\ Answer(c, "error", Nothing) /\ Fault
  <2>1. PICK f \in SUBSET Fact :
            f = {"verdict0"} \cup (IF call[c].op = "create" THEN {"abort"} ELSE {})
    BY DEF Fact
  <2>2. facts' = [facts EXCEPT ![call[c].pid] = @ \cup f]
    BY <1>1, <1>2, <1>5, <2>1 DEF TypeOK
  <2>3. facts' \in [Pid -> SUBSET Fact] /\ FactsGrow
    BY <1>1, <1>2, <2>2, JournalGrows
  <2> QED
    BY <1>1, <1>5, <2>3, RefusalMoves, JournalingEffect
<1> QED
  BY <1>3, <1>4, <1>5 DEF Confirm

LEMMA MintEffect ==
    ASSUME HandoffInv, NEW c \in Caller, Mint(c)
    PROVE  CoreEffect
<1>1. /\ call[c].op # "none" /\ call[c].pid \in Pid /\ "verdict1" \in facts[call[c].pid]
      /\ UNCHANGED <<edge, sessions, handler, registered, keys, page, ghosts>>
  BY Asked DEF Mint
<1>2. TypeOK
  BY DEF HandoffInv
<1>3. CASE Answer(c, "error", Nothing) /\ UNCHANGED <<facts, faulted>>
  BY <1>1, <1>2, <1>3, JournalStays, RefusalMoves, JournalingEffect
<1>4. CASE /\ Journal(call[c].pid, "mint")
           /\ \/ Answer(c, "ok", [pot |-> TRUE, mint |-> TRUE]) /\ UNCHANGED faulted
              \/ Answer(c, "error", Nothing) /\ Fault
  <2>1. /\ facts' \in [Pid -> SUBSET Fact] /\ FactsGrow
        /\ "mint" \in facts'[call[c].pid] /\ "verdict1" \in facts'[call[c].pid]
    <3>1. facts' = [facts EXCEPT ![call[c].pid] = @ \cup {"mint"}] /\ {"mint"} \in SUBSET Fact
      BY <1>4 DEF Journal, Fact
    <3>2. /\ facts' \in [Pid -> SUBSET Fact] /\ FactsGrow /\ {"mint"} \subseteq facts'[call[c].pid]
      BY <1>1, <1>2, <3>1, JournalGrows
    <3> QED
      BY <1>1, <3>2 DEF FactsGrow
  <2>2. PICK view \in View : view = [pot |-> TRUE, mint |-> TRUE]
    BY DEF View
  <2>3. CASE Answer(c, "ok", view) /\ UNCHANGED faulted
    <3>1. CallsMove
      BY <1>1, <2>1, <2>3, AnswerMoves
    <3> QED
      BY <1>1, <2>1, <2>3, <3>1, JournalingEffect
  <2>4. CASE Answer(c, "error", Nothing) /\ Fault
    BY <1>1, <2>1, <2>4, RefusalMoves, JournalingEffect
  <2> QED
    BY <1>4, <2>2, <2>3, <2>4
<1> QED
  BY <1>3, <1>4 DEF Mint

LEMMA FailureEffect ==
    ASSUME HandoffInv, NEW c \in Caller, CoreFails(c)
    PROVE  CoreEffect
<1>1. /\ call[c].op # "none" /\ Answer(c, "error", Nothing) /\ Fault
      /\ UNCHANGED <<edge, sessions, handler, core, page, unsaved, late>>
  BY Asked DEF CoreFails, Running
<1>2. TypeOK
  BY DEF HandoffInv
<1>3. facts' \in [Pid -> SUBSET Fact] /\ FactsGrow
  BY <1>1, <1>2, JournalStays DEF core
<1>4. CallsMove
  BY <1>1, <1>3, RefusalMoves
<1>5. cut' \subseteq Pid
  <2>1. Unopened({c}) \subseteq Pid
    BY Asked DEF Unopened
  <2> QED
    BY <1>2, <2>1 DEF CoreFails, TypeOK
<1>6. faults' \in 0..MaxFaults /\ restarts' \in 0..MaxRestarts
  BY <1>1, <1>2, FaultCounts
<1> QED
  BY <1>1, <1>2, <1>3, <1>4, <1>5, <1>6 DEF CoreEffect, core, TypeOK

LEMMA CoreRestartEffect ==
    ASSUME HandoffInv, CoreRestarts
    PROVE  CoreEffect
<1>1. /\ Fault /\ keys' = {} /\ UNCHANGED <<edge, sessions, handler, facts, registered, page, unsaved, late>>
  BY DEF CoreRestarts
<1>2. TypeOK
  BY DEF HandoffInv
<1>3. facts' \in [Pid -> SUBSET Fact] /\ FactsGrow
  BY <1>1, <1>2, JournalStays
<1>4. ASSUME NEW c \in Caller
      PROVE  /\ call'[c] \in Calls
             /\ SoundCall(call[c])'
             /\ (c \in Orphan /\ call'[c] = NoCall) \/ SameQuestion(call'[c], call[c])
  <2>1. PICK m \in Calls : m = call[c] /\ SoundCall(m)
    BY <1>2 DEF HandoffInv, TypeOK
  <2>2. SoundCall(m)'
    BY <1>3, <2>1, SoundStays
  <2>3. CASE call'[c] = NoCall /\ c \in Orphan
    BY <2>3 DEF NoCall, Calls, View, Nothing, SoundCall
  <2>4. CASE call'[c] = m
    BY <2>1, <2>2, <2>4 DEF SameQuestion
  <2>5. CASE m.at # "none" /\ call'[c] = [m EXCEPT !.at = "answered", !.code = "error"]
    <3>1. PICK k : k = [m EXCEPT !.at = "answered", !.code = "error"]
      OBVIOUS
    <3>2. k \in Calls /\ SameQuestion(k, m) /\ k.at = "answered" /\ k.code = "error" /\ k.view = m.view
      BY <3>1 DEF Calls, SameQuestion
    <3>3. SoundCall(k)'
      BY <2>2, <2>5, <3>2 DEF SoundCall, SameQuestion, NoCall
    <3> QED
      BY <2>1, <2>5, <3>1, <3>2, <3>3
  <2> QED
    BY <2>1, <2>3, <2>4, <2>5 DEF CoreRestarts
<1>5. CallsMove
  <2>1. call' \in [Caller -> Calls]
    BY <1>4 DEF CoreRestarts
  <2> QED
    BY <1>4, <2>1 DEF CallsMove
<1>6. cut' \subseteq Pid
  <2>1. Unopened(Caller) \subseteq Pid
    BY Asked DEF Unopened
  <2> QED
    BY <1>2, <2>1 DEF CoreRestarts, TypeOK
<1>7. faults' \in 0..MaxFaults /\ restarts' \in 0..MaxRestarts
  BY <1>1, <1>2, FaultCounts
<1> QED
  BY <1>1, <1>2, <1>3, <1>5, <1>6, <1>7 DEF CoreEffect, TypeOK

LEMMA CoreSteps ==
    ASSUME HandoffInv, (\E c \in Caller : CoreStep(c) \/ CoreFails(c)) \/ CoreRestarts
    PROVE  CoreEffect
BY AdmitEffect, ResumeEffect, ReadEffect, OpenEffect, ConfirmEffect, MintEffect, FailureEffect,
   CoreRestartEffect DEF CoreStep
-----------------------------------------------------------------------------
(***************************************************************************)
(* What the edge holds is still so after a step.                           *)
(***************************************************************************)

\* No records but those of known processes say "submitted_to_core".
LEMMA SubmittedStays ==
    ASSUME HandoffInv, FactsGrow,
           \A q \in Pid : byId'[q] # None /\ byId'[q].status = "submitted_to_core" =>
               \/ facts[q] # {} \/ byId'[q] = byId[q] \/ byId'[q] = disk.byId[q],
           \A q \in Pid : disk'.byId[q] # None /\ disk'.byId[q].status = "submitted_to_core" =>
               \/ facts[q] # {} \/ disk'.byId[q] = byId[q] \/ disk'.byId[q] = disk.byId[q]
    PROVE  SubmittedIsKnown'
<1>1. \A q \in Pid : /\ byId[q] # None /\ byId[q].status = "submitted_to_core" => facts[q] # {}
                     /\ disk.byId[q] # None /\ disk.byId[q].status = "submitted_to_core" => facts[q] # {}
  BY DEF HandoffInv, SubmittedIsKnown
<1>2. ASSUME NEW q \in Pid
      PROVE  /\ byId'[q] # None /\ byId'[q].status = "submitted_to_core" => facts'[q] # {}
             /\ disk'.byId[q] # None /\ disk'.byId[q].status = "submitted_to_core" => facts'[q] # {}
  BY <1>1 DEF FactsGrow
<1> QED
  BY <1>2 DEF SubmittedIsKnown

\* The page keeps telling the truth.
LEMMA PageStays ==
    ASSUME HandoffInv, FactsGrow, UNCHANGED page
    PROVE  PageSound'
BY DEF HandoffInv, PageSound, FactsGrow

\* Records keep key and package, questions stay what they were or repeat one
\* that was asked or a record, and the core registers what it was asked.
LEMMA SavesStay ==
    ASSUME HandoffInv, UNCHANGED late, ~unsaved' => ~unsaved,
           ~unsaved' => /\ byIdem' = byIdem /\ disk'.byId = byId' /\ disk'.byIdem = byIdem
                        /\ \A q \in Pid :
                              /\ byId'[q] = None <=> byId[q] = None
                              /\ byId[q] # None => byId'[q].key = byId[q].key /\ byId'[q].hash = byId[q].hash,
           \A p \in Pid : registered'[p] = registered[p] \/ \E c \in Caller :
               /\ call[c].op = "create" /\ call[c].pid = p
               /\ registered'[p] = [key |-> call[c].key, hash |-> call[c].hash],
           \A c \in Caller : call'[c].op = "create" =>
               \/ \E d \in Caller : SameQuestion(call'[c], call[d])
               \/ /\ call'[c].pid \in Pid /\ byId[call'[c].pid] # None
                  /\ call'[c].key = byId[call'[c].pid].key /\ call'[c].hash = byId[call'[c].pid].hash
    PROVE  SavesSound'
<1>1. SUFFICES ASSUME ~unsaved' PROVE SavesSound'
  BY DEF SavesSound
<1>2. /\ \A p \in Pid : byId[p] # None =>
            byIdem[byId[p].key] # None /\ byIdem[byId[p].key].pid = p
      /\ \A p \in Pid : registered[p] # None =>
            SaysRecord(p, registered[p].key, registered[p].hash)
      /\ \A c \in Caller : call[c].op = "create" =>
            SaysRecord(call[c].pid, call[c].key, call[c].hash)
  BY <1>1 DEF HandoffInv, SavesSound
<1>3. ASSUME NEW p \in Pid, NEW k, NEW d, SaysRecord(p, k, d)
      PROVE  SaysRecord(p, k, d)'
  BY <1>1, <1>3 DEF SaysRecord
<1>4. ASSUME NEW p \in Pid, byId'[p] # None
      PROVE  byIdem'[byId'[p].key] # None /\ byIdem'[byId'[p].key].pid = p
  BY <1>1, <1>2, <1>4
<1>5. ASSUME NEW p \in Pid, registered'[p] # None
      PROVE  SaysRecord(p, registered[p].key, registered[p].hash)'
  <2>1. CASE registered'[p] = registered[p]
    BY <1>2, <1>3, <1>5, <2>1
  <2>2. ASSUME NEW c \in Caller, call[c].op = "create", call[c].pid = p,
               registered'[p] = [key |-> call[c].key, hash |-> call[c].hash]
        PROVE  SaysRecord(p, registered[p].key, registered[p].hash)'
    <3>1. SaysRecord(p, call[c].key, call[c].hash)
      BY <1>2, <2>2
    <3>2. PICK k, d : k = call[c].key /\ d = call[c].hash
      OBVIOUS
    <3>3. SaysRecord(p, k, d)'
      BY <1>3, <3>1, <3>2
    <3> QED
      BY <2>2, <3>2, <3>3
  <2> QED
    BY <2>1, <2>2
<1>6. ASSUME NEW c \in Caller, call'[c].op = "create"
      PROVE  SaysRecord(call[c].pid, call[c].key, call[c].hash)'
  <2>1. PICK p, k, d : p = call'[c].pid /\ k = call'[c].key /\ d = call'[c].hash
    OBVIOUS
  <2>2. ASSUME NEW e \in Caller, SameQuestion(call'[c], call[e])
        PROVE  p \in Pid /\ SaysRecord(p, k, d)
    <3>1. call[e].op = "create" /\ call[e].pid = p /\ call[e].key = k /\ call[e].hash = d
      BY <1>6, <2>1, <2>2 DEF SameQuestion
    <3>2. call[e].pid \in Pid
      BY <3>1, Asked
    <3> QED
      BY <1>2, <3>1, <3>2
  <2>3. ASSUME p \in Pid, byId[p] # None, k = byId[p].key, d = byId[p].hash
        PROVE  p \in Pid /\ SaysRecord(p, k, d)
    BY <2>3 DEF SaysRecord
  <2>4. p \in Pid /\ SaysRecord(p, k, d)
    BY <1>6, <2>1, <2>2, <2>3
  <2>5. SaysRecord(p, k, d)'
    BY <1>3, <2>4
  <2> QED
    BY <2>1, <2>5
<1> QED
  BY <1>1, <1>4, <1>5, <1>6 DEF SavesSound

\* A step of the core keeps everything.
LEMMA CoreKeeps ==
    ASSUME HandoffInv, CoreEffect
    PROVE  HandoffInv'
<1>1. /\ UNCHANGED <<byId, byIdem, disk, sessions, handler, page, unsaved, late>>
      /\ FactsGrow /\ CallsMove
  BY DEF CoreEffect, edge
<1>2. TypeOK'
  BY <1>1 DEF CoreEffect, CallsMove, HandoffInv, TypeOK
<1>3. \A p \in Pid : registered'[p] # None => facts'[p] # {}
  <2>1. \A p \in Pid : registered[p] # None => facts[p] # {}
    BY DEF HandoffInv
  <2> QED
    BY <2>1 DEF CoreEffect, FactsGrow
<1>4. ASSUME NEW h \in Handler
      PROVE  HandlerSound(h)'
  <2>1. SameQuestion(call'[h], call[h])
    BY <1>1, HandoffAssumption DEF CallsMove, Caller
  <2>2. HandlerSound(h)
    BY DEF HandoffInv
  <2> QED
    BY <1>1, <2>1, <2>2 DEF HandlerSound, SameQuestion
<1>5. SubmittedIsKnown'
  BY <1>1, SubmittedStays
<1>6. SavesSound'
  <2>1. ~unsaved => disk.byId = byId /\ disk.byIdem = byIdem
    BY DEF HandoffInv, SavesSound
  <2>2. ASSUME NEW c \in Caller, call'[c].op = "create"
        PROVE  \E d \in Caller : SameQuestion(call'[c], call[d])
    BY <1>1, <2>2 DEF CallsMove, NoCall
  <2>3. \A p \in Pid : registered'[p] = registered[p] \/ \E c \in Caller :
               /\ call[c].op = "create" /\ call[c].pid = p
               /\ registered'[p] = [key |-> call[c].key, hash |-> call[c].hash]
    BY DEF CoreEffect
  <2> QED
    BY <1>1, <2>1, <2>2, <2>3, SavesStay
<1> QED
  BY <1>1, <1>2, <1>3, <1>4, <1>5, <1>6, PageStays DEF HandoffInv, CallsMove
-----------------------------------------------------------------------------
(***************************************************************************)
(* The steps of the edge.                                                  *)
(***************************************************************************)

\* The records after a step that makes none and changes no key or package.
Written ==
    /\ byId' \in [Pid -> Record \cup {None}] /\ byIdem' = byIdem
    /\ disk'.byId \in [Pid -> Record \cup {None}] /\ disk'.byIdem \in [Key -> Claim \cup {None}]
    /\ \A q \in Pid :
          /\ byId'[q] = None <=> byId[q] = None
          /\ byId[q] # None => byId'[q].key = byId[q].key /\ byId'[q].hash = byId[q].hash
    /\ unsaved' \in BOOLEAN /\ (unsaved => unsaved')
    /\ ~unsaved' => disk'.byId = byId' /\ disk'.byIdem = byIdem
    /\ SubmittedIsKnown'

LEMMA NothingWritten ==
    ASSUME HandoffInv, FactsGrow, UNCHANGED <<edge, unsaved>>
    PROVE  Written
<1>1. UNCHANGED <<byId, byIdem, disk, unsaved>>
  BY DEF edge
<1>2. SubmittedIsKnown'
  BY <1>1, SubmittedStays
<1>3. ~unsaved => disk.byId = byId /\ disk.byIdem = byIdem
  BY DEF HandoffInv, SavesSound
<1> QED
  BY <1>1, <1>2, <1>3 DEF HandoffInv, TypeOK, Written

\* What is written is in the file, or the step has lost it.
Saves(records) ==
    /\ byId' = records /\ byIdem' = byIdem
    /\ \/ disk' = [byId |-> records, byIdem |-> byIdem] /\ UNCHANGED unsaved
       \/ UNCHANGED disk /\ unsaved' = TRUE

LEMMA StatusWritten ==
    ASSUME HandoffInv, FactsGrow, NEW p \in Pid, byId[p] # None,
           NEW status \in {"awaiting_core", "submitted_to_core"},
           status = "submitted_to_core" => facts[p] # {},
           Saves([byId EXCEPT ![p].status = status])
    PROVE  Written
<1>1. TypeOK /\ byId[p] \in Record
  BY DEF HandoffInv, TypeOK
<1>2. PICK r : r = [byId[p] EXCEPT !.status = status]
  OBVIOUS
<1>3. r \in Record /\ r.status = status /\ r.key = byId[p].key /\ r.hash = byId[p].hash
  BY <1>1, <1>2 DEF Record
<1>4. r # None
  BY <1>3, NoneIsNoValue
<1>5. byId' = [byId EXCEPT ![p] = r] /\ byIdem' = byIdem
  BY <1>2 DEF Saves
<1>6. /\ byId' \in [Pid -> Record \cup {None}]
      /\ \A q \in Pid :
          /\ byId'[q] = None <=> byId[q] = None
          /\ byId[q] # None => byId'[q].key = byId[q].key /\ byId'[q].hash = byId[q].hash
          /\ q # p => byId'[q] = byId[q]
  BY <1>1, <1>3, <1>4, <1>5 DEF TypeOK
<1>7. CASE disk' = [byId |-> byId', byIdem |-> byIdem] /\ UNCHANGED unsaved
  <2>1. disk'.byId = byId' /\ disk'.byIdem = byIdem
    BY <1>7
  <2>2. SubmittedIsKnown'
    BY <1>3, <1>5, <1>6, <2>1, SubmittedStays
  <2> QED
    BY <1>1, <1>5, <1>6, <1>7, <2>1, <2>2 DEF Written, TypeOK
<1>8. CASE UNCHANGED disk /\ unsaved' = TRUE
  <2>1. SubmittedIsKnown'
    BY <1>3, <1>5, <1>6, <1>8, SubmittedStays
  <2> QED
    BY <1>1, <1>5, <1>6, <1>8, <2>1 DEF Written, TypeOK
<1> QED
  BY <1>5, <1>7, <1>8 DEF Saves

\* The parts of a step of the edge that leave core and ghosts alone.
Aside ==
    /\ UNCHANGED <<facts, registered, keys, cut, late>>
    /\ sessions' \in BOOLEAN /\ faults' \in 0..MaxFaults /\ restarts' \in 0..MaxRestarts

\* Handler h moves to s, its call to k.
LEMMA HandlerMoves ==
    ASSUME HandoffInv, Written, Aside,
           NEW h \in Handler, NEW s \in Suspended, NEW k \in Calls, SoundCall(k)',
           handler' = [handler EXCEPT ![h] = s], call' = [call EXCEPT ![h] = k],
           s.at # "idle" =>
               /\ s.pid \in Pid /\ k.pid = s.pid /\ k.op # "none"
               /\ s.at \in {"create", "continue", "recreate"} => byId[s.pid] # None
               /\ s.op = "load" => s.pid = page.pid,
           k.op = "create" => /\ k.pid \in Pid /\ byId[k.pid] # None
                              /\ k.key = byId[k.pid].key /\ k.hash = byId[k.pid].hash,
           page' \in [pid : Pid \cup {None}, data : View], page'.pid = page.pid, PageSound'
    PROVE  HandoffInv'
<1>1. TypeOK /\ FactsGrow /\ h \in Caller
  BY JournalStays DEF HandoffInv, Aside, Caller
<1>2. call' \in [Caller -> Calls] /\ handler' \in [Handler -> Suspended]
  BY <1>1 DEF TypeOK
<1>3. TypeOK'
  BY <1>1, <1>2 DEF TypeOK, Aside, Written
<1>4. \A p \in Pid : registered'[p] # None => facts'[p] # {}
  BY DEF HandoffInv, Aside
<1>5. ASSUME NEW c \in Caller
      PROVE  SoundCall(call[c])'
  <2>1. CASE c = h
    BY <1>1, <2>1 DEF TypeOK
  <2>2. CASE c # h
    <3>1. PICK m \in Calls : m = call[c] /\ SoundCall(m)
      BY <1>1 DEF HandoffInv, TypeOK
    <3>2. SoundCall(m)' /\ call'[c] = m
      BY <1>1, <2>2, <3>1, SoundStays DEF TypeOK
    <3> QED
      BY <3>2
  <2> QED
    BY <2>1, <2>2
<1>6. ASSUME NEW g \in Handler
      PROVE  HandlerSound(g)'
  <2>1. CASE g = h
    <3>1. handler'[g] = s /\ call'[g] = k
      BY <1>1, <2>1 DEF TypeOK
    <3> QED
      BY <3>1 DEF HandlerSound, Written
  <2>2. CASE g # h
    <3>1. handler'[g] = handler[g] /\ call'[g] = call[g]
      BY <1>1, <2>2 DEF TypeOK, Caller
    <3>2. HandlerSound(g)
      BY DEF HandoffInv
    <3> QED
      BY <3>1, <3>2 DEF HandlerSound, Written
  <2> QED
    BY <2>1, <2>2
<1>7. SavesSound'
  <2>1. ASSUME NEW c \in Caller, call'[c].op = "create"
        PROVE  \/ \E d \in Caller : SameQuestion(call'[c], call[d])
               \/ /\ call'[c].pid \in Pid /\ byId[call'[c].pid] # None
                  /\ call'[c].key = byId[call'[c].pid].key /\ call'[c].hash = byId[call'[c].pid].hash
    <3>1. CASE c = h
      BY <1>1, <2>1, <3>1 DEF TypeOK
    <3>2. CASE c # h
      BY <1>1, <2>1, <3>2 DEF TypeOK, SameQuestion
    <3> QED
      BY <3>1, <3>2
  <2> QED
    BY <2>1, SavesStay DEF Written, Aside
<1> QED
  BY <1>3, <1>4, <1>5, <1>6, <1>7 DEF HandoffInv, Written

\* A request that ends.
LEMMA EndKeeps ==
    ASSUME HandoffInv, Written, Aside, NEW h \in Handler, End(h),
           page' \in [pid : Pid \cup {None}, data : View], page'.pid = page.pid, PageSound'
    PROVE  HandoffInv'
<1>1. NoCall \in Calls /\ SoundCall(NoCall)' /\ NoCall.op = "none"
  BY DEF NoCall, Calls, View, Nothing, SoundCall
<1>2. Idle \in Suspended /\ Idle.at = "idle"
  BY DEF Idle, Suspended
<1> QED
  BY <1>1, <1>2, HandlerMoves DEF End

LEMMA QuietPage ==
    ASSUME HandoffInv, Aside, UNCHANGED page
    PROVE  page' \in [pid : Pid \cup {None}, data : View] /\ page'.pid = page.pid /\ PageSound'
<1>1. FactsGrow
  BY JournalStays DEF HandoffInv, Aside
<1> QED
  BY <1>1, PageStays DEF HandoffInv, TypeOK

\* A request that waits for the core.
LEMMA AwaitKeeps ==
    ASSUME HandoffInv, Written, Aside, UNCHANGED page,
           NEW h \in Handler, NEW op \in {"none", "create", "retry", "load"},
           NEW at \in {"create", "continue", "recreate", "get", "resume"},
           NEW ask \in {"create", "continue", "get"}, NEW p \in Pid,
           NEW k \in Key \cup {None}, NEW d \in Hash \cup {None},
           Await(h, op, at, Request(ask, p, k, d)),
           at \in {"create", "continue", "recreate"} => byId[p] # None,
           op = "load" => p = page.pid,
           ask = "create" => /\ k \in Key /\ d \in Hash
                             /\ byId[p] # None /\ k = byId[p].key /\ d = byId[p].hash
    PROVE  HandoffInv'
<1>1. PICK m : m = Request(ask, p, k, d)
  OBVIOUS
<1>2. /\ m \in Calls /\ m.op = ask /\ m.pid = p /\ m.key = k /\ m.hash = d
      /\ m.at = "sent" /\ m.code = "none" /\ m.view = Nothing
  BY <1>1 DEF Request, NoCall, Calls, View, Nothing
<1>3. SoundCall(m)'
  BY <1>2 DEF SoundCall, Nothing
<1>4. PICK s : s = [op |-> op, at |-> at, pid |-> p]
  OBVIOUS
<1>5. s \in Suspended /\ s.op = op /\ s.at = at /\ s.pid = p
  BY <1>4 DEF Suspended
<1>6. handler' = [handler EXCEPT ![h] = s] /\ call' = [call EXCEPT ![h] = m]
  BY <1>1, <1>2, <1>4 DEF Await
<1> QED
  BY <1>2, <1>3, <1>5, <1>6, QuietPage, HandlerMoves

\* A handler that takes up an answer knows its process, and an answer "ok"
\* means that the journal knows it.
LEMMA AnswerKnown ==
    ASSUME HandoffInv, NEW h \in Handler, NEW at, at # "idle", Answered(h, at)
    PROVE  /\ handler[h].pid \in Pid /\ call[h].pid = handler[h].pid
           /\ handler[h].op \in {"none", "create", "retry", "load"}
           /\ at \in {"create", "continue", "recreate"} => byId[handler[h].pid] # None
           /\ call[h].code = "ok" => facts[handler[h].pid] # {}
           /\ handler[h].op = "load" => handler[h].pid = page.pid
           /\ call[h].view \in View
           /\ call[h].view.pot => "verdict1" \in facts[handler[h].pid]
           /\ call[h].view.mint => "mint" \in facts[handler[h].pid]
<1>1. /\ HandlerSound(h) /\ SoundCall(call[h]) /\ h \in Caller
      /\ handler[h] \in Suspended /\ call[h] \in Calls
  BY DEF HandoffInv, TypeOK, Caller
<1>2. /\ handler[h].pid \in Pid /\ call[h].pid = handler[h].pid /\ call[h].op # "none"
      /\ at \in {"create", "continue", "recreate"} => byId[handler[h].pid] # None
      /\ handler[h].op = "load" => handler[h].pid = page.pid
  BY <1>1 DEF HandlerSound, Answered
<1>3. call[h] # NoCall
  BY <1>2 DEF NoCall
<1> QED
  BY <1>1, <1>2, <1>3 DEF SoundCall, Suspended, Calls

LEMMA AsideOf ==
    ASSUME HandoffInv, UNCHANGED <<sessions, core, cut, late>>, Fault \/ UNCHANGED faulted
    PROVE  Aside /\ FactsGrow
<1>1. TypeOK
  BY DEF HandoffInv
<1>2. faults' \in 0..MaxFaults /\ restarts' \in 0..MaxRestarts
  BY <1>1, FaultCounts
<1> QED
  BY <1>1, <1>2, JournalStays DEF Aside, core, TypeOK

\* The end of a request whose record gets a status, saved or not.
LEMMA StatusKeeps ==
    ASSUME HandoffInv, UNCHANGED <<sessions, core, page, cut, late>>,
           NEW h \in Handler, NEW p \in Pid, byId[p] # None,
           NEW status \in {"awaiting_core", "submitted_to_core"},
           status = "submitted_to_core" => facts[p] # {},
           NEW records, records = [byId EXCEPT ![p].status = status],
           \/ Persist(records, byIdem) /\ End(h) /\ UNCHANGED <<faulted, unsaved>>
           \/ PersistFails(h, records, byIdem)
    PROVE  HandoffInv'
<1>1. Saves(records) /\ End(h) /\ (Fault \/ UNCHANGED faulted)
  BY DEF Persist, PersistFails, Saves
<1>2. Aside /\ FactsGrow
  BY <1>1, AsideOf
<1>3. Written
  BY <1>1, <1>2, StatusWritten
<1> QED
  BY <1>1, <1>2, <1>3, QuietPage, EndKeeps

LEMMA CreatedKeeps ==
    ASSUME HandoffInv, NEW h \in Handler, Created(h)
    PROVE  HandoffInv'
<1>1. PICK p, status : p = handler[h].pid
          /\ status = IF call[h].code = "ok" THEN "submitted_to_core" ELSE "awaiting_core"
  OBVIOUS
<1>2. PICK records : records = [byId EXCEPT ![p].status = status]
  OBVIOUS
<1>3. Answered(h, "create")
  BY DEF Created
<1>4. p \in Pid /\ byId[p] # None /\ (call[h].code = "ok" => facts[p] # {})
  BY <1>1, <1>3, AnswerKnown
<1>5. /\ status \in {"awaiting_core", "submitted_to_core"}
      /\ status = "submitted_to_core" => facts[p] # {}
  BY <1>1, <1>4
<1>6. /\ \/ Persist(records, byIdem) /\ End(h) /\ UNCHANGED <<faulted, unsaved>>
         \/ PersistFails(h, records, byIdem)
      /\ UNCHANGED <<sessions, core, page, cut, late>>
  BY <1>1, <1>2 DEF Created
<1> QED
  BY <1>2, <1>4, <1>5, <1>6, StatusKeeps

\* A request that awaits a call and writes nothing.
LEMMA AskingKeeps ==
    ASSUME HandoffInv, UNCHANGED <<edge, sessions, core, page, faulted, unsaved, cut, late>>,
           NEW h \in Handler, NEW op \in {"create", "retry", "load"},
           NEW at \in {"create", "continue", "recreate", "get", "resume"},
           NEW ask \in {"continue", "get"}, NEW p \in Pid,
           Await(h, op, at, Request(ask, p, None, None)),
           at \in {"create", "continue", "recreate"} => byId[p] # None,
           op = "load" => p = page.pid
    PROVE  HandoffInv'
<1>1. Aside /\ FactsGrow /\ Written
  BY AsideOf, NothingWritten
<1> QED
  BY <1>1, AwaitKeeps

LEMMA ContinuedKeeps ==
    ASSUME HandoffInv, NEW h \in Handler, Continued(h)
    PROVE  HandoffInv'
<1>1. PICK p : p = handler[h].pid
  OBVIOUS
<1>2. PICK records : records = [byId EXCEPT ![p].status = "submitted_to_core"]
  OBVIOUS
<1>3. Answered(h, "continue") /\ UNCHANGED <<sessions, core, page, cut, late>>
  BY DEF Continued
<1>4. p \in Pid /\ byId[p] # None /\ (call[h].code = "ok" => facts[p] # {})
  BY <1>1, <1>3, AnswerKnown
<1>5. CASE /\ call[h].code = "ok"
           /\ \/ Persist(records, byIdem) /\ End(h) /\ UNCHANGED <<faulted, unsaved>>
              \/ PersistFails(h, records, byIdem)
  BY <1>2, <1>3, <1>4, <1>5, StatusKeeps
<1>6. CASE Await(h, "retry", "get", Request("get", p, None, None)) /\ UNCHANGED <<edge, faulted, unsaved>>
  BY <1>3, <1>4, <1>6, AskingKeeps
<1>7. CASE Await(h, "retry", "recreate", CreateCall(p, byId[p])) /\ UNCHANGED <<edge, faulted, unsaved>>
  <2>1. Aside /\ FactsGrow /\ Written
    BY <1>3, <1>7, AsideOf, NothingWritten
  <2>2. PICK r \in Record : r = byId[p]
    BY <1>4 DEF HandoffInv, TypeOK
  <2>3. r.key \in Key /\ r.hash \in Hash
    BY DEF Record
  <2>4. Await(h, "retry", "recreate", Request("create", p, r.key, r.hash))
    BY <1>7, <2>2 DEF CreateCall
  <2> QED
    BY <1>3, <1>4, <2>1, <2>2, <2>3, <2>4, AwaitKeeps
<1> QED
  BY <1>1, <1>2, <1>5, <1>6, <1>7 DEF Continued

LEMMA RecreatedKeeps ==
    ASSUME HandoffInv, NEW h \in Handler, Recreated(h)
    PROVE  HandoffInv'
<1>1. PICK p : p = handler[h].pid
  OBVIOUS
<1>2. PICK records : records = [byId EXCEPT ![p].status = "submitted_to_core"]
  OBVIOUS
<1>3. Answered(h, "recreate") /\ UNCHANGED <<sessions, core, page, cut, late>>
  BY DEF Recreated
<1>4. p \in Pid /\ byId[p] # None /\ (call[h].code = "ok" => facts[p] # {})
  BY <1>1, <1>3, AnswerKnown
<1>5. CASE /\ call[h].code = "ok"
           /\ \/ Persist(records, byIdem) /\ End(h) /\ UNCHANGED <<faulted, unsaved>>
              \/ PersistFails(h, records, byIdem)
  BY <1>2, <1>3, <1>4, <1>5, StatusKeeps
<1>6. CASE \/ Persist(byId, byIdem) /\ End(h) /\ UNCHANGED <<faulted, unsaved>>
           \/ PersistFails(h, byId, byIdem)
  <2>1. Saves(byId) /\ End(h) /\ (Fault \/ UNCHANGED faulted)
    BY <1>6 DEF Persist, PersistFails, Saves
  <2>2. Aside /\ FactsGrow
    BY <1>3, <2>1, AsideOf
  <2>3. byId[p] \in Record
    BY <1>4 DEF HandoffInv, TypeOK
  <2>4. PICK status \in {"awaiting_core", "submitted_to_core"} : status = byId[p].status
    BY <2>3 DEF Record
  <2>5. status = "submitted_to_core" => facts[p] # {}
    BY <1>4, <2>4 DEF HandoffInv, SubmittedIsKnown
  <2>6. byId = [byId EXCEPT ![p].status = status]
    BY <1>4, <2>3, <2>4 DEF HandoffInv, TypeOK, Record
  <2>7. Written
    BY <1>4, <2>1, <2>2, <2>5, <2>6, StatusWritten
  <2> QED
    BY <1>3, <2>1, <2>2, <2>7, QuietPage, EndKeeps
<1> QED
  BY <1>1, <1>2, <1>5, <1>6 DEF Recreated

LEMMA RetryKeeps ==
    ASSUME HandoffInv, NEW h \in Handler, Retry(h)
    PROVE  HandoffInv'
<1>1. page.pid \in Pid /\ byId[page.pid] # None
  BY DEF Retry, HandoffInv, TypeOK
<1>2. /\ Await(h, "retry", "continue", Request("continue", page.pid, None, None))
      /\ UNCHANGED <<edge, sessions, core, page, faulted, unsaved, cut, late>>
  BY DEF Retry, ghosts
<1> QED
  BY <1>1, <1>2, AskingKeeps

LEMMA LoadKeeps ==
    ASSUME HandoffInv, NEW h \in Handler, Load(h)
    PROVE  HandoffInv'
<1>1. page.pid \in Pid
  BY DEF Load, HandoffInv, TypeOK
<1>2. /\ Await(h, "load", "get", Request("get", page.pid, None, None))
      /\ UNCHANGED <<edge, sessions, core, page, faulted, unsaved, cut, late>>
  BY DEF Load, ghosts
<1> QED
  BY <1>1, <1>2, AskingKeeps

\* A response shows what the journal says.
LEMMA RespondKeeps ==
    ASSUME HandoffInv, Aside, Written, NEW h \in Handler, NEW view \in View, Respond(h, view),
           handler[h].pid \in Pid,
           handler[h].op = "load" => handler[h].pid = page.pid,
           view.pot => "verdict1" \in facts[handler[h].pid],
           view.mint => "mint" \in facts[handler[h].pid]
    PROVE  HandoffInv'
<1>1. UNCHANGED facts /\ End(h)
  BY DEF Aside, Respond
<1>2. CASE handler[h].op # "load"
  BY <1>1, <1>2, QuietPage, EndKeeps DEF Respond
<1>3. CASE handler[h].op = "load"
  <2>1. page' = [page EXCEPT !.data = view] /\ page \in [pid : Pid \cup {None}, data : View]
    BY <1>3 DEF Respond, HandoffInv, TypeOK
  <2>2. /\ page' \in [pid : Pid \cup {None}, data : View] /\ page'.pid = page.pid
        /\ page'.data = view
    BY <2>1
  <2>3. PageSound'
    BY <1>1, <1>3, <2>2 DEF PageSound
  <2> QED
    BY <1>1, <2>2, <2>3, EndKeeps
<1> QED
  BY <1>2, <1>3

LEMMA NothingIsSo == Nothing \in View /\ ~Nothing.pot /\ ~Nothing.mint
BY DEF Nothing, View

LEMMA GotKeeps ==
    ASSUME HandoffInv, NEW h \in Handler, Got(h)
    PROVE  HandoffInv'
<1>1. PICK p : p = handler[h].pid
  OBVIOUS
<1>2. PICK records : records = IF byId[p] = None THEN byId
                               ELSE [byId EXCEPT ![p].status = "submitted_to_core"]
  OBVIOUS
<1>3. Answered(h, "get") /\ UNCHANGED <<sessions, core, cut, late>>
  BY DEF Got
<1>4. /\ p \in Pid /\ (call[h].code = "ok" => facts[p] # {})
      /\ call[h].view \in View
      /\ call[h].view.pot => "verdict1" \in facts[p]
      /\ call[h].view.mint => "mint" \in facts[p]
      /\ handler[h].op = "load" => p = page.pid
      /\ handler[h].op \in {"none", "create", "retry", "load"}
  BY <1>1, <1>3, AnswerKnown
<1>5. CASE /\ call[h].code = "ok"
           /\ IF byId[p] = None THEN UNCHANGED edge ELSE Persist(records, byIdem)
           /\ UNCHANGED <<faulted, unsaved>>
           /\ \/ /\ Await(h, handler[h].op, "resume", Request("continue", p, None, None))
                 /\ UNCHANGED page
              \/ Respond(h, call[h].view)
  <2>1. Aside /\ FactsGrow
    BY <1>3, <1>5, AsideOf
  <2>2. Written
    <3>1. CASE byId[p] = None
      BY <1>5, <2>1, <3>1, NothingWritten
    <3>2. CASE byId[p] # None
      <4>1. Saves([byId EXCEPT ![p].status = "submitted_to_core"])
        BY <1>2, <1>5, <3>2 DEF Saves, Persist
      <4> QED
        BY <1>4, <1>5, <2>1, <3>2, <4>1, StatusWritten
    <3> QED
      BY <3>1, <3>2
  <2>3. CASE Respond(h, call[h].view)
    <3>1. PICK view \in View : view = call[h].view
      BY <1>4
    <3> QED
      BY <1>1, <1>4, <2>1, <2>2, <2>3, <3>1, RespondKeeps
  <2>4. CASE /\ Await(h, handler[h].op, "resume", Request("continue", p, None, None))
             /\ UNCHANGED page
    <3>1. PICK op \in {"none", "create", "retry", "load"} : op = handler[h].op
      BY <1>4
    <3>2. Await(h, op, "resume", Request("continue", p, None, None))
      BY <2>4, <3>1
    <3> QED
      BY <1>4, <2>1, <2>2, <2>4, <3>1, <3>2, AwaitKeeps
  <2> QED
    BY <1>5, <2>3, <2>4
<1>6. CASE /\ call[h].code = "ok" /\ byId[p] # None
           /\ PersistFails(h, records, byIdem) /\ UNCHANGED page
  BY <1>2, <1>3, <1>4, <1>6, StatusKeeps
<1>7. CASE Respond(h, Nothing) /\ UNCHANGED <<edge, faulted, unsaved>>
  <2>1. Aside /\ FactsGrow /\ Written
    BY <1>3, <1>7, AsideOf, NothingWritten
  <2> QED
    BY <1>1, <1>4, <1>7, <2>1, NothingIsSo, RespondKeeps
<1>8. CASE End(h) /\ UNCHANGED <<edge, page, faulted, unsaved>>
  <2>1. Aside /\ FactsGrow /\ Written
    BY <1>3, <1>8, AsideOf, NothingWritten
  <2> QED
    BY <1>8, <2>1, QuietPage, EndKeeps
<1> QED
  BY <1>1, <1>2, <1>5, <1>6, <1>7, <1>8 DEF Got

LEMMA ResumedKeeps ==
    ASSUME HandoffInv, NEW h \in Handler, Resumed(h)
    PROVE  HandoffInv'
<1>1. /\ Answered(h, "resume") /\ Respond(h, call[h].view)
      /\ UNCHANGED <<edge, sessions, core, faulted, unsaved, cut, late>>
  BY DEF Resumed, ghosts
<1>2. Aside /\ FactsGrow /\ Written
  BY <1>1, AsideOf, NothingWritten
<1> QED
  BY <1>1, <1>2, AnswerKnown, RespondKeeps

\* create, whose record is new under a new key.
LEMMA CreateKeeps ==
    ASSUME HandoffInv, NEW h \in Handler, NEW k \in Key, NEW d \in Hash, NEW p \in Pid,
           Create(h, k, d, p)
    PROVE  HandoffInv'
<1>1. PICK r : r = [status |-> "awaiting_core", hash |-> d, key |-> k]
  OBVIOUS
<1>2. PICK e : e = [pid |-> p, hash |-> d]
  OBVIOUS
<1>3. /\ r \in Record /\ r # None /\ r.status = "awaiting_core" /\ r.key = k /\ r.hash = d
      /\ e \in Claim /\ e # None /\ e.pid = p
  BY <1>1, <1>2, NoneIsNoValue DEF Record, Claim
<1>4. /\ byIdem[k] = None /\ byId[p] = None
      /\ UNCHANGED <<sessions, core, page, cut, late>>
  BY DEF Create, Fresh
<1>5. TypeOK /\ h \in Caller /\ h \notin Orphan
  BY HandoffAssumption DEF HandoffInv, Caller
<1>6. byId' = [byId EXCEPT ![p] = r] /\ byIdem' = [byIdem EXCEPT ![k] = e]
  BY <1>1, <1>2 DEF Create, Persist, PersistFails
<1>7. /\ byId' \in [Pid -> Record \cup {None}] /\ byIdem' \in [Key -> Claim \cup {None}]
      /\ byId'[p] = r /\ byIdem'[k] = e
      /\ \A q \in Pid : q # p => byId'[q] = byId[q]
      /\ \A j \in Key : j # k => byIdem'[j] = byIdem[j]
  BY <1>3, <1>5, <1>6 DEF TypeOK
<1>8. /\ Aside /\ FactsGrow
      /\ UNCHANGED <<facts, registered, keys, cut, late>>
  <2>1. Fault \/ UNCHANGED faulted
    BY DEF Create, PersistFails
  <2> QED
    BY <1>4, <2>1, AsideOf DEF core
<1>9. CASE /\ disk' = [byId |-> byId', byIdem |-> byIdem'] /\ UNCHANGED unsaved
           /\ Await(h, "create", "create", CreateCall(p, r))
  <2>1. disk'.byId = byId' /\ disk'.byIdem = byIdem'
    BY <1>9
  <2>2. PICK m : m = CreateCall(p, r)
    OBVIOUS
  <2>3. /\ m \in Calls /\ m.op = "create" /\ m.pid = p /\ m.key = k /\ m.hash = d
        /\ m.at = "sent" /\ m.code = "none" /\ m.view = Nothing
    BY <1>3, <2>2 DEF CreateCall, Request, NoCall, Calls, View, Nothing
  <2>4. SoundCall(m)'
    BY <2>3 DEF SoundCall, Nothing
  <2>5. PICK s : s = [op |-> "create", at |-> "create", pid |-> p]
    OBVIOUS
  <2>6. s \in Suspended /\ s.op = "create" /\ s.at = "create" /\ s.pid = p
    BY <2>5 DEF Suspended
  <2>7. handler' = [handler EXCEPT ![h] = s] /\ call' = [call EXCEPT ![h] = m]
    BY <1>9, <2>2, <2>3, <2>5 DEF Await
  <2>8. /\ handler' \in [Handler -> Suspended] /\ handler'[h] = s
        /\ call' \in [Caller -> Calls] /\ call'[h] = m
        /\ \A g \in Handler : g # h => handler'[g] = handler[g]
        /\ \A c \in Caller : c # h => call'[c] = call[c]
    BY <1>5, <2>3, <2>6, <2>7 DEF TypeOK
  <2>9. TypeOK'
    BY <1>4, <1>5, <1>7, <1>8, <1>9, <2>1, <2>8 DEF TypeOK, Aside
  <2>10. ASSUME NEW c \in Caller
         PROVE  SoundCall(call[c])'
    <3>1. PICK n \in Calls : n = call[c] /\ SoundCall(n)
      BY <1>5 DEF HandoffInv, TypeOK
    <3>2. SoundCall(n)'
      BY <1>8, <3>1, SoundStays
    <3> QED
      BY <2>4, <2>8, <3>1, <3>2
  <2>11. ASSUME NEW g \in Handler
         PROVE  HandlerSound(g)'
    <3>1. CASE g = h
      BY <1>3, <1>7, <2>3, <2>6, <2>8, <3>1 DEF HandlerSound
    <3>2. CASE g # h
      <4>1. handler'[g] = handler[g] /\ call'[g] = call[g]
        BY <2>8, <3>2 DEF Caller
      <4>2. HandlerSound(g)
        BY DEF HandoffInv
      <4>3. \A q \in Pid : byId[q] # None => byId'[q] # None
        BY <1>3, <1>7
      <4> QED
        BY <1>4, <4>1, <4>2, <4>3 DEF HandlerSound
    <3> QED
      BY <3>1, <3>2
  <2>12. SubmittedIsKnown'
    <3>1. \A q \in Pid : byId'[q] # None /\ byId'[q].status = "submitted_to_core" => byId'[q] = byId[q]
      BY <1>3, <1>7
    <3> QED
      BY <1>8, <2>1, <3>1, SubmittedStays
  <2>13. SavesSound'
    <3>1. SUFFICES ASSUME ~unsaved' PROVE SavesSound'
      BY DEF SavesSound
    <3>2. /\ \A q \in Pid : byId[q] # None =>
                byIdem[byId[q].key] # None /\ byIdem[byId[q].key].pid = q
          /\ \A q \in Pid : registered[q] # None =>
                SaysRecord(q, registered[q].key, registered[q].hash)
          /\ \A c \in Caller : call[c].op = "create" =>
                SaysRecord(call[c].pid, call[c].key, call[c].hash)
      BY <1>9, <3>1 DEF HandoffInv, SavesSound
    <3>3. ASSUME NEW q \in Pid, byId'[q] # None
          PROVE  byIdem'[byId'[q].key] # None /\ byIdem'[byId'[q].key].pid = q
      <4>1. CASE q = p
        BY <1>3, <1>7, <4>1
      <4>2. CASE q # p
        <5>1. byId[q] \in Record /\ byId'[q] = byId[q]
          BY <1>5, <1>7, <3>3, <4>2 DEF TypeOK
        <5>2. byId[q].key \in Key
          BY <5>1 DEF Record
        <5> QED
          BY <1>4, <1>7, <3>2, <3>3, <5>1, <5>2
      <4> QED
        BY <4>1, <4>2
    <3>4. ASSUME NEW q \in Pid, NEW j, NEW f, SaysRecord(q, j, f)
          PROVE  SaysRecord(q, j, f)'
      BY <1>4, <1>7, <3>4 DEF SaysRecord
    <3>5. ASSUME NEW q \in Pid, registered'[q] # None
          PROVE  SaysRecord(q, registered[q].key, registered[q].hash)'
      <4>1. PICK j, f : j = registered[q].key /\ f = registered[q].hash
        OBVIOUS
      <4>2. SaysRecord(q, j, f)'
        BY <1>8, <3>2, <3>4, <3>5, <4>1
      <4> QED
        BY <1>8, <4>1, <4>2
    <3>6. ASSUME NEW c \in Caller, call'[c].op = "create"
          PROVE  SaysRecord(call[c].pid, call[c].key, call[c].hash)'
      <4>1. CASE c = h
        BY <1>3, <1>7, <2>3, <2>8, <4>1 DEF SaysRecord
      <4>2. CASE c # h
        <5>1. call'[c] = call[c] /\ call[c].pid \in Pid
          BY <2>8, <3>6, <4>2, Asked
        <5>2. PICK q, j, f : /\ q \in Pid /\ q = call[c].pid
                         /\ j = call[c].key /\ f = call[c].hash
          BY <5>1
        <5>3. SaysRecord(q, j, f)'
          BY <3>2, <3>4, <3>6, <5>1, <5>2
        <5> QED
          BY <5>1, <5>2, <5>3
      <4> QED
        BY <4>1, <4>2
    <3> QED
      BY <2>1, <3>3, <3>5, <3>6 DEF SavesSound
  <2> QED
    BY <1>4, <1>8, <2>9, <2>10, <2>11, <2>12, <2>13, PageStays DEF HandoffInv
<1>10. CASE PersistFails(h, byId', byIdem')
  <2>1. NoCall \in Calls /\ SoundCall(NoCall)' /\ Idle \in Suspended /\ Idle.at = "idle"
    BY DEF NoCall, Calls, View, Nothing, SoundCall, Idle, Suspended
  <2>2. /\ handler' = [handler EXCEPT ![h] = Idle] /\ call' = [call EXCEPT ![h] = NoCall]
        /\ unsaved' = TRUE /\ UNCHANGED disk
    BY <1>10 DEF PersistFails, End
  <2>3. /\ handler' \in [Handler -> Suspended] /\ handler'[h] = Idle
        /\ call' \in [Caller -> Calls] /\ call'[h] = NoCall
        /\ \A g \in Handler : g # h => handler'[g] = handler[g]
        /\ \A c \in Caller : c # h => call'[c] = call[c]
    BY <1>5, <2>1, <2>2 DEF TypeOK
  <2>4. TypeOK'
    BY <1>4, <1>5, <1>7, <1>8, <2>2, <2>3 DEF TypeOK, Aside
  <2>5. ASSUME NEW c \in Caller
        PROVE  SoundCall(call[c])'
    <3>1. PICK n \in Calls : n = call[c] /\ SoundCall(n)
      BY <1>5 DEF HandoffInv, TypeOK
    <3>2. SoundCall(n)'
      BY <1>8, <3>1, SoundStays
    <3> QED
      BY <2>1, <2>3, <3>1, <3>2
  <2>6. ASSUME NEW g \in Handler
        PROVE  HandlerSound(g)'
    <3>1. CASE g = h
      BY <2>1, <2>3, <3>1 DEF HandlerSound
    <3>2. CASE g # h
      <4>1. handler'[g] = handler[g] /\ call'[g] = call[g]
        BY <2>3, <3>2 DEF Caller
      <4>2. HandlerSound(g)
        BY DEF HandoffInv
      <4>3. \A q \in Pid : byId[q] # None => byId'[q] # None
        BY <1>3, <1>7
      <4> QED
        BY <1>4, <4>1, <4>2, <4>3 DEF HandlerSound
    <3> QED
      BY <3>1, <3>2
  <2>7. SubmittedIsKnown'
    <3>1. \A q \in Pid : byId'[q] # None /\ byId'[q].status = "submitted_to_core" => byId'[q] = byId[q]
      BY <1>3, <1>7
    <3> QED
      BY <1>8, <2>2, <3>1, SubmittedStays
  <2>8. SavesSound'
    BY <2>2 DEF SavesSound
  <2> QED
    BY <1>4, <1>8, <2>4, <2>5, <2>6, <2>7, <2>8, PageStays DEF HandoffInv
<1> QED
  BY <1>1, <1>2, <1>6, <1>7, <1>9, <1>10 DEF Create, Persist

\* A step that leaves records and journal alone, whatever moves in the calls.
LEMMA QuietKeeps ==
    ASSUME HandoffInv, UNCHANGED <<edge, core, ghosts>>,
           sessions' \in BOOLEAN, faults' \in 0..MaxFaults, restarts' \in 0..MaxRestarts,
           handler' \in [Handler -> Suspended], call' \in [Caller -> Calls],
           page' \in [pid : Pid \cup {None}, data : View], PageSound',
           \A c \in Caller : call'[c] = NoCall \/ SoundCall(call[c])',
           \A c \in Caller : call'[c] = NoCall \/ \E d \in Caller : SameQuestion(call'[c], call[d]),
           \A h \in Handler : HandlerSound(h)'
    PROVE  HandoffInv'
<1>1. /\ UNCHANGED <<byId, byIdem, disk, facts, registered, keys, unsaved, cut, late>>
      /\ TypeOK /\ FactsGrow
  BY JournalStays DEF HandoffInv, edge, core, ghosts
<1>2. TypeOK'
  BY <1>1 DEF TypeOK
<1>3. \A c \in Caller : SoundCall(call[c])'
  BY DEF SoundCall
<1>4. \A p \in Pid : registered'[p] # None => facts'[p] # {}
  BY <1>1 DEF HandoffInv
<1>5. SubmittedIsKnown'
  BY <1>1, SubmittedStays
<1>6. SavesSound'
  <2>1. ~unsaved => disk.byId = byId /\ disk.byIdem = byIdem
    BY DEF HandoffInv, SavesSound
  <2>2. \A c \in Caller : call'[c].op = "create" => \E d \in Caller : SameQuestion(call'[c], call[d])
    BY DEF NoCall
  <2> QED
    BY <1>1, <2>1, <2>2, SavesStay
<1> QED
  BY <1>2, <1>3, <1>4, <1>5, <1>6 DEF HandoffInv

LEMMA TimesOutKeeps ==
    ASSUME HandoffInv, NEW h \in Handler, NEW o \in Orphan, TimesOut(h, o)
    PROVE  HandoffInv'
<1>1. /\ TypeOK /\ h \in Caller /\ o \in Caller /\ h # o /\ o \notin Handler
      /\ UNCHANGED <<edge, sessions, handler, core, page, ghosts>> /\ UNCHANGED facts
  BY HandoffAssumption DEF HandoffInv, Caller, TimesOut, core
<1>2. PICK m \in Calls : m = call[h] /\ SoundCall(m) /\ m.op # "none"
  BY <1>1 DEF HandoffInv, TypeOK, TimesOut
<1>3. PICK k : k = [m EXCEPT !.at = "answered", !.code = "error"]
  OBVIOUS
<1>4. k \in Calls /\ SameQuestion(k, m) /\ k.at = "answered" /\ k.code = "error" /\ k.view = m.view
  BY <1>3 DEF Calls, SameQuestion
<1>5. FactsGrow
  BY <1>1, JournalStays
<1>6. SoundCall(m)'
  BY <1>2, <1>5, SoundStays
<1>7. SoundCall(k)'
  BY <1>2, <1>4, <1>6 DEF SoundCall, SameQuestion, NoCall
<1>8. call' = [call EXCEPT ![o] = m, ![h] = k]
  BY <1>1, <1>2, <1>3 DEF TimesOut, TypeOK
<1>9. /\ call' \in [Caller -> Calls] /\ call'[o] = m /\ call'[h] = k
      /\ \A c \in Caller : c # o /\ c # h => call'[c] = call[c]
  BY <1>1, <1>2, <1>4, <1>8 DEF TypeOK
<1>10. ASSUME NEW c \in Caller
       PROVE  SoundCall(call[c])' /\ \E d \in Caller : SameQuestion(call'[c], call[d])
  <2>1. CASE c = o \/ c = h
    <3>1. SameQuestion(m, call[h]) /\ SameQuestion(k, call[h])
      BY <1>2, <1>4 DEF SameQuestion
    <3> QED
      BY <1>1, <1>6, <1>7, <1>9, <2>1, <3>1
  <2>2. CASE c # o /\ c # h
    <3>1. PICK n \in Calls : n = call[c] /\ SoundCall(n)
      BY <1>1 DEF HandoffInv, TypeOK
    <3>2. SoundCall(n)' /\ SameQuestion(n, call[c])
      BY <1>5, <3>1, SoundStays DEF SameQuestion
    <3> QED
      BY <1>9, <2>2, <3>1, <3>2
  <2> QED
    BY <2>1, <2>2
<1>11. ASSUME NEW g \in Handler
       PROVE  HandlerSound(g)'
  <2>1. HandlerSound(g) /\ UNCHANGED <<handler, page, byId>>
    BY <1>1 DEF HandoffInv, edge
  <2>2. SameQuestion(call'[g], call[g])
    <3>1. CASE g = h
      BY <1>2, <1>4, <1>9, <3>1
    <3>2. CASE g # h
      BY <1>1, <1>9, <3>2 DEF SameQuestion, Caller
    <3> QED
      BY <3>1, <3>2
  <2> QED
    BY <2>1, <2>2 DEF HandlerSound, SameQuestion
<1>12. faults' \in 0..MaxFaults /\ restarts' \in 0..MaxRestarts
  BY <1>1, FaultCounts DEF TimesOut
<1>13. PageSound'
  BY <1>1, <1>5, PageStays
<1> QED
  BY <1>1, <1>9, <1>10, <1>11, <1>12, <1>13, QuietKeeps DEF TypeOK

LEMMA LoginKeeps ==
    ASSUME HandoffInv, Login
    PROVE  HandoffInv'
<1>1. /\ TypeOK /\ sessions' = TRUE
      /\ UNCHANGED <<edge, handler, call, core, page, faulted, ghosts>> /\ UNCHANGED <<facts, byId>>
  BY DEF HandoffInv, Login, core, edge
<1>2. FactsGrow
  BY <1>1, JournalStays
<1>3. ASSUME NEW c \in Caller
      PROVE  SoundCall(call[c])' /\ SameQuestion(call'[c], call[c])
  BY <1>1 DEF HandoffInv, SoundCall, SameQuestion
<1>4. ASSUME NEW h \in Handler
      PROVE  HandlerSound(h)'
  BY <1>1 DEF HandoffInv, HandlerSound
<1>5. PageSound'
  BY <1>1, <1>2, PageStays
<1> QED
  BY <1>1, <1>3, <1>4, <1>5, QuietKeeps DEF TypeOK, faulted

LEMMA OpenPageKeeps ==
    ASSUME HandoffInv, NEW p \in Pid, OpenPage(p)
    PROVE  HandoffInv'
<1>1. /\ TypeOK /\ page.pid = None /\ page' = [page EXCEPT !.pid = p]
      /\ UNCHANGED <<edge, sessions, handler, call, core, faulted, ghosts>> /\ UNCHANGED <<facts, byId>>
  BY DEF HandoffInv, OpenPage, core, edge
<1>2. /\ page' \in [pid : Pid \cup {None}, data : View] /\ page'.data = page.data
  BY <1>1 DEF TypeOK
<1>3. ASSUME NEW c \in Caller
      PROVE  SoundCall(call[c])' /\ SameQuestion(call'[c], call[c])
  BY <1>1 DEF HandoffInv, SoundCall, SameQuestion
<1>4. ASSUME NEW h \in Handler
      PROVE  HandlerSound(h)'
  <2>1. HandlerSound(h) /\ None \notin Pid
    BY NoneIsNoValue DEF HandoffInv
  <2> QED
    BY <1>1, <2>1 DEF HandlerSound
<1>5. PageSound'
  <2>1. ~(page.data.pot \/ page.data.mint)
    BY <1>1, NoneIsNoValue DEF HandoffInv, PageSound
  <2> QED
    BY <1>2, <2>1 DEF PageSound
<1> QED
  BY <1>1, <1>2, <1>3, <1>4, <1>5, QuietKeeps DEF TypeOK, faulted

\* attachDocuments: the only step that changes the package of a record, and
\* it is noted if the core has one or is asked to take one.
LEMMA AttachKeeps ==
    ASSUME HandoffInv, NEW h \in Handler, NEW p \in Pid, NEW d \in Second, Attach(h, p, d)
    PROVE  HandoffInv'
<1>1. PICK r : r = [byId[p] EXCEPT !.hash = d, !.status = "awaiting_core"]
  OBVIOUS
<1>2. /\ TypeOK /\ byId[p] # None /\ byId[p] \in Record /\ d \in Hash /\ h \in Caller
      /\ UNCHANGED <<sessions, core, page, cut>> /\ UNCHANGED <<facts, registered, keys>>
  BY HandoffAssumption DEF HandoffInv, TypeOK, Attach, Caller, core
<1>3. r \in Record /\ r # None /\ r.status = "awaiting_core" /\ r.key = byId[p].key /\ r.hash = d
  BY <1>1, <1>2, NoneIsNoValue DEF Record
<1>4. byId' = [byId EXCEPT ![p] = r] /\ byIdem' = byIdem
  BY <1>1 DEF Attach, Persist, PersistFails
<1>5. /\ byId' \in [Pid -> Record \cup {None}] /\ byId'[p] = r
      /\ \A q \in Pid : q # p => byId'[q] = byId[q]
  BY <1>2, <1>3, <1>4 DEF TypeOK
<1>6. Fault \/ UNCHANGED faulted
  BY DEF Attach, PersistFails
<1>7. FactsGrow /\ faults' \in 0..MaxFaults /\ restarts' \in 0..MaxRestarts
  BY <1>2, <1>6, JournalStays, FaultCounts
<1>8. /\ late' \subseteq Pid /\ late \subseteq late'
      /\ HandedOff(p) => p \in late'
  BY <1>2 DEF Attach, TypeOK
<1>9. \/ /\ disk' = [byId |-> byId', byIdem |-> byIdem]
         /\ UNCHANGED <<handler, call, unsaved>>
      \/ UNCHANGED disk /\ End(h) /\ unsaved' = TRUE
  BY <1>1, <1>4 DEF Attach, Persist, PersistFails
<1>10. NoCall \in Calls /\ Idle \in Suspended /\ Idle.at = "idle"
  BY DEF NoCall, Calls, View, Nothing, Idle, Suspended
<1>11. /\ handler' \in [Handler -> Suspended] /\ call' \in [Caller -> Calls]
       /\ \A c \in Caller : call'[c] = call[c] \/ call'[c] = NoCall
       /\ \A g \in Handler : handler'[g].at = "idle" \/ (handler'[g] = handler[g] /\ call'[g] = call[g])
  <2>1. CASE UNCHANGED <<handler, call>>
    BY <1>2, <2>1 DEF TypeOK
  <2>2. CASE End(h)
    BY <1>2, <1>10, <2>2 DEF TypeOK, End, Caller
  <2> QED
    BY <1>9, <2>1, <2>2
<1>12. TypeOK'
  <2>1. disk'.byId \in [Pid -> Record \cup {None}] /\ disk'.byIdem \in [Key -> Claim \cup {None}]
    BY <1>2, <1>5, <1>9 DEF TypeOK
  <2>2. unsaved' \in BOOLEAN
    BY <1>2, <1>9 DEF TypeOK
  <2> QED
    BY <1>2, <1>4, <1>5, <1>7, <1>8, <1>11, <2>1, <2>2 DEF TypeOK
<1>13. ASSUME NEW c \in Caller
       PROVE  SoundCall(call[c])'
  <2>1. PICK n \in Calls : n = call[c] /\ SoundCall(n)
    BY <1>2 DEF HandoffInv, TypeOK
  <2>2. SoundCall(n)' /\ SoundCall(NoCall)'
    BY <1>7, <2>1, SoundStays DEF SoundCall
  <2> QED
    BY <1>11, <2>1, <2>2
<1>14. ASSUME NEW g \in Handler
       PROVE  HandlerSound(g)'
  <2>1. HandlerSound(g)
    BY DEF HandoffInv
  <2>2. \A q \in Pid : byId[q] # None => byId'[q] # None
    BY <1>3, <1>5
  <2> QED
    BY <1>2, <1>11, <2>1, <2>2 DEF HandlerSound
<1>15. SubmittedIsKnown'
  <2>1. \A q \in Pid : byId'[q] # None /\ byId'[q].status = "submitted_to_core" => byId'[q] = byId[q]
    BY <1>3, <1>5
  <2>2. \A q \in Pid : disk'.byId[q] # None /\ disk'.byId[q].status = "submitted_to_core" =>
            disk'.byId[q] = byId[q] \/ disk'.byId[q] = disk.byId[q]
    BY <1>9, <2>1
  <2> QED
    BY <1>7, <2>1, <2>2, SubmittedStays
<1>16. SavesSound'
  <2>1. SUFFICES ASSUME ~unsaved' PROVE SavesSound'
    BY DEF SavesSound
  <2>2. /\ disk'.byId = byId' /\ disk'.byIdem = byIdem /\ UNCHANGED <<call, unsaved>>
    BY <1>9, <2>1
  <2>3. /\ \A q \in Pid : byId[q] # None =>
              byIdem[byId[q].key] # None /\ byIdem[byId[q].key].pid = q
        /\ \A q \in Pid : registered[q] # None =>
              SaysRecord(q, registered[q].key, registered[q].hash)
        /\ \A c \in Caller : call[c].op = "create" =>
              SaysRecord(call[c].pid, call[c].key, call[c].hash)
    BY <2>1, <2>2 DEF HandoffInv, SavesSound
  <2>4. ASSUME NEW q \in Pid, byId'[q] # None
        PROVE  byIdem'[byId'[q].key] # None /\ byIdem'[byId'[q].key].pid = q
    BY <1>2, <1>3, <1>4, <1>5, <2>3, <2>4
  <2>5. ASSUME NEW q \in Pid, NEW j, NEW f, SaysRecord(q, j, f), q = p => p \in late'
        PROVE  SaysRecord(q, j, f)'
    BY <1>3, <1>5, <1>8, <2>5 DEF SaysRecord
  <2>6. ASSUME NEW q \in Pid, registered'[q] # None
        PROVE  SaysRecord(q, registered[q].key, registered[q].hash)'
    <3>1. PICK j, f : j = registered[q].key /\ f = registered[q].hash
      OBVIOUS
    <3>2. registered[q] # None /\ (q = p => p \in late')
      BY <1>2, <1>8, <2>6 DEF HandedOff
    <3>3. SaysRecord(q, j, f)'
      BY <2>3, <2>5, <3>1, <3>2
    <3> QED
      BY <1>2, <3>1, <3>3
  <2>7. ASSUME NEW c \in Caller, call'[c].op = "create"
        PROVE  SaysRecord(call[c].pid, call[c].key, call[c].hash)'
    <3>1. call[c].op = "create" /\ call[c].pid \in Pid
      BY <2>2, <2>7, Asked
    <3>2. PICK q, j, f : /\ q \in Pid /\ q = call[c].pid
                         /\ j = call[c].key /\ f = call[c].hash
      BY <3>1
    <3>3. q = p => p \in late'
      BY <1>8, <3>1, <3>2 DEF HandedOff
    <3>4. SaysRecord(q, j, f)'
      BY <2>3, <2>5, <3>1, <3>2, <3>3
    <3> QED
      BY <2>2, <3>2, <3>4
  <2> QED
    BY <1>4, <2>2, <2>4, <2>6, <2>7 DEF SavesSound
<1> QED
  BY <1>2, <1>7, <1>12, <1>13, <1>14, <1>15, <1>16, PageStays DEF HandoffInv

\* A restart of the edge: the memory is the file, the requests are gone.
LEMMA EdgeRestartKeeps ==
    ASSUME HandoffInv, EdgeRestarts
    PROVE  HandoffInv'
<1>1. /\ TypeOK /\ byId' = disk.byId /\ byIdem' = disk.byIdem /\ sessions' = FALSE
      /\ handler' = [h \in Handler |-> Idle] /\ restarts < MaxRestarts /\ restarts' = restarts + 1
      /\ UNCHANGED <<disk, core, page, faults, ghosts>>
      /\ UNCHANGED <<facts, registered, keys, unsaved, cut, late>>
  BY DEF HandoffInv, EdgeRestarts, core, ghosts
<1>2. FactsGrow
  BY <1>1, JournalStays
<1>3. Idle \in Suspended /\ Idle.at = "idle" /\ NoCall \in Calls /\ NoCall.op = "none"
  BY DEF Idle, Suspended, NoCall, Calls, View, Nothing
<1>4. ASSUME NEW c \in Caller
      PROVE  call'[c] = NoCall \/ \E d \in Caller : call'[c] = call[d]
  BY <1>1 DEF EdgeRestarts, Abandoned, Caller
<1>5. DOMAIN call' = Caller /\ call' = [c \in Caller |-> call'[c]]
  BY DEF EdgeRestarts
<1>6. call' \in [Caller -> Calls]
  <2>1. \A c \in Caller : call'[c] \in Calls
    BY <1>1, <1>3, <1>4 DEF TypeOK
  <2> QED
    BY <1>5, <2>1
<1>7. TypeOK'
  <2>1. restarts' \in 0..MaxRestarts
    <3>1. restarts \in 0..MaxRestarts /\ MaxRestarts \in Nat
      BY <1>1, HandoffAssumption DEF TypeOK
    <3> QED
      BY <1>1, <3>1
  <2> QED
    BY <1>1, <1>3, <1>6, <2>1 DEF TypeOK
<1>8. ASSUME NEW c \in Caller
      PROVE  SoundCall(call[c])'
  <2>1. CASE call'[c] = NoCall
    BY <2>1 DEF SoundCall
  <2>2. ASSUME NEW d \in Caller, call'[c] = call[d]
        PROVE  SoundCall(call[c])'
    <3>1. PICK n \in Calls : n = call[d] /\ SoundCall(n)
      BY <1>1 DEF HandoffInv, TypeOK
    <3>2. SoundCall(n)'
      BY <1>2, <3>1, SoundStays
    <3> QED
      BY <2>2, <3>1, <3>2
  <2> QED
    BY <1>4, <2>1, <2>2
<1>9. \A h \in Handler : HandlerSound(h)'
  BY <1>1, <1>3 DEF HandlerSound
<1>10. \A p \in Pid : registered'[p] # None => facts'[p] # {}
  BY <1>1 DEF HandoffInv
<1>11. SubmittedIsKnown'
  BY <1>1, <1>2, SubmittedStays
<1>12. SavesSound'
  <2>1. ~unsaved => disk.byId = byId /\ disk.byIdem = byIdem
    BY DEF HandoffInv, SavesSound
  <2>2. \A c \in Caller : call'[c].op = "create" => \E d \in Caller : SameQuestion(call'[c], call[d])
    BY <1>3, <1>4 DEF SameQuestion
  <2> QED
    BY <1>1, <2>1, <2>2, SavesStay
<1> QED
  BY <1>1, <1>2, <1>7, <1>8, <1>9, <1>10, <1>11, <1>12, PageStays DEF HandoffInv
-----------------------------------------------------------------------------
(***************************************************************************)
(* The theorems.                                                           *)
(***************************************************************************)

LEMMA HandoffInvAtFirst ==
    ASSUME Init
    PROVE  HandoffInv
<1>1. /\ NoCall \in Calls /\ NoCall.op = "none" /\ Idle \in Suspended /\ Idle.at = "idle"
      /\ ~Nothing.pot /\ ~Nothing.mint /\ Nothing \in View
  BY DEF NoCall, Calls, View, Nothing, Idle, Suspended
<1>2. disk.byId = byId /\ disk.byIdem = byIdem
  BY DEF Init
<1>3. TypeOK
  <2>1. faults \in 0..MaxFaults /\ restarts \in 0..MaxRestarts
    BY HandoffAssumption DEF Init
  <2>2. page \in [pid : Pid \cup {None}, data : View]
    BY <1>1 DEF Init
  <2>3. byId \in [Pid -> Record \cup {None}] /\ byIdem \in [Key -> Claim \cup {None}]
    BY DEF Init
  <2>4. handler \in [Handler -> Suspended] /\ call \in [Caller -> Calls]
    BY <1>1 DEF Init
  <2>5. facts \in [Pid -> SUBSET Fact] /\ registered \in [Pid -> Registration \cup {None}]
    BY DEF Init
  <2>6. sessions \in BOOLEAN /\ unsaved \in BOOLEAN
    BY DEF Init
  <2> QED
    BY <1>2, <2>1, <2>2, <2>3, <2>4, <2>5, <2>6 DEF Init, TypeOK
<1>4. SubmittedIsKnown
  BY <1>2 DEF Init, SubmittedIsKnown
<1>5. \A c \in Caller : SoundCall(call[c])
  BY DEF Init, SoundCall
<1>6. \A h \in Handler : HandlerSound(h)
  BY <1>1 DEF Init, HandlerSound
<1>7. PageSound
  BY <1>1 DEF Init, PageSound
<1>8. SavesSound
  BY <1>1, <1>2 DEF Init, SavesSound
<1> QED
  BY <1>3, <1>4, <1>5, <1>6, <1>7, <1>8 DEF Init, HandoffInv

LEMMA HandoffInvStays ==
    ASSUME HandoffInv, [Next]_vars
    PROVE  HandoffInv'
<1>1. CASE (\E c \in Caller : CoreStep(c) \/ CoreFails(c)) \/ CoreRestarts
  BY <1>1, CoreSteps, CoreKeeps
<1>2. CASE EdgeRestarts \/ Login
  BY <1>2, EdgeRestartKeeps, LoginKeeps
<1>3. ASSUME NEW h \in Handler, HandlerStep(h) \/ Poll(h) \/ PressRetry(h)
      PROVE  HandoffInv'
  BY <1>3, CreatedKeeps, ContinuedKeeps, RecreatedKeeps, GotKeeps, ResumedKeeps, LoadKeeps,
     RetryKeeps DEF HandlerStep, Poll, PressRetry
<1>4. ASSUME NEW h \in Handler, NEW o \in Orphan, TimesOut(h, o)
      PROVE  HandoffInv'
  BY <1>4, TimesOutKeeps
<1>5. ASSUME NEW h \in Handler, NEW p \in Pid,
             \/ \E k \in Key, d \in Hash \ Second : Create(h, k, d, p)
             \/ \E d \in Second : Attach(h, p, d)
      PROVE  HandoffInv'
  BY <1>5, CreateKeeps, AttachKeeps
<1>6. ASSUME NEW p \in Pid, OpenPage(p)
      PROVE  HandoffInv'
  BY <1>6, OpenPageKeeps
<1>7. CASE UNCHANGED vars
  <2>1. UNCHANGED <<byId, byIdem, disk, sessions, handler, call, facts, registered, keys, page,
                    faults, restarts, unsaved, cut, late>>
    BY <1>7 DEF vars, edge, core, faulted, ghosts
  <2> QED
    BY <2>1 DEF HandoffInv, TypeOK, SoundCall, HandlerSound, PageSound, SubmittedIsKnown,
                SavesSound, SaysRecord
<1> QED
  BY <1>1, <1>2, <1>3, <1>4, <1>5, <1>6, <1>7 DEF Next

\* The invariant of the hand-off holds for any number of keys, processes,
\* packages, requests, timeouts, failed saves and restarts of either side.
THEOREM HandoffInvariance == Spec => []HandoffInv
<1>1. Init => HandoffInv
  BY HandoffInvAtFirst
<1>2. HandoffInv /\ [Next]_vars => HandoffInv'
  BY HandoffInvStays
<1> QED
  BY <1>1, <1>2, PTL DEF Spec

\* What the edge or the page says of a process happened at the core: a record
\* "submitted_to_core" is of a process on the journal (ProcessesService), the
\* package shown is the one registered unless another was attached since, and
\* a finished page is of a verified and minted process.
THEOREM SaidIsTrue == Spec => []SaidIsSo
<1>1. HandoffInv => SaidIsSo
  <2>1. HandoffInv => ShownPackageIsRegistered
    BY DEF HandoffInv, SavesSound, SaysRecord, ShownPackageIsRegistered
  <2>2. HandoffInv => FinishedIsMinted
    BY DEF HandoffInv, PageSound, FinishedIsMinted, Finished
  <2> QED
    BY <2>1, <2>2 DEF HandoffInv, SaidIsSo
<1> QED
  BY <1>1, HandoffInvariance, PTL

\* One idempotency key opens at most one process of the core, however create,
\* retry, timeouts and the restarts of both programs interleave, as long as
\* every save of the edge's file succeeded.
THEOREM KeysOpenOneProcess == Spec => []KeyOpensOneProcess
<1>1. HandoffInv => KeyOpensOneProcess
  BY DEF HandoffInv, SavesSound, SaysRecord, KeyOpensOneProcess
<1> QED
  BY <1>1, HandoffInvariance, PTL
-----------------------------------------------------------------------------
(***************************************************************************)
(* The sessions of the edge (module EdgeSessions). SessionsInv adds to     *)
(* SessionsAreKnown what tabs hold whose answer is under way, and what a   *)
(* delayed write to the mirror is about.                                   *)
(***************************************************************************)

\* What browser and tabs hold is known, or was; no session is with two of them.
HeldIsKnown ==
    /\ StoredIsKnown /\ stored \notin leaving
    /\ \A t \in Tab : answer[t] # NoSession =>
          /\ answer[t] \notin past => answer[t] \in known \cup lost
          /\ answer[t] \notin leaving /\ answer[t] # stored
          /\ \A u \in Tab : u # t => answer[u] # answer[t]

CommandsAreIssued == \A c \in commands : c.of \in 1..issued

\* A session about to be written to the mirror is known, is deleted behind the write, or strays.
WritingIsKnown ==
    \A s \in Number : Set(s) \in commands => s \in known \/ Del(s) \in commands \/ s \in stray

SessionsInv ==
    /\ SessionsAreKnown /\ HeldIsKnown /\ CommandsAreIssued /\ WritingIsKnown

OpenedRow == [member : Member \cup {NoSession}, secret : {"none", "own", "made"}]
Where == {"closed", "login", "asking", "cabinet"}

LEMMA SessionTypes ==
    ASSUME SessionsInv
    PROVE  /\ MaxSessions \in Nat /\ MaxEdgeStarts \in Nat
           /\ issued \in Nat /\ issued <= MaxSessions /\ edgeStarts \in 0..MaxEdgeStarts
           /\ known \subseteq 1..issued /\ past \subseteq 1..issued /\ mirror \subseteq 1..issued
           /\ leaving \subseteq 1..issued
           /\ answer \in [Tab -> 0..issued] /\ stored \in 0..issued
           /\ openedBy \in [Number -> OpenedRow]
           /\ tab \in [Tab -> Where] /\ commands \subseteq Command
           /\ stray \subseteq 1..issued /\ forsaken \subseteq 1..issued /\ lost \subseteq 1..issued
BY SessionsAssumption DEF SessionsInv, SessionsAreKnown, SessionsTypeOK, OpenedRow, Where

LEMMA CommandForms ==
    ASSUME NEW s \in Number
    PROVE  /\ Set(s) \in Command /\ Set(s).of = s /\ Set(s).op = "set"
           /\ Del(s) \in Command /\ Del(s).of = s /\ Del(s).op = "del" /\ Del(s) # Set(s)
           /\ \A c \in Command : c.of = s => c = Set(s) \/ c = Del(s)
BY DEF Set, Del, Command

LEMMA SessionsStart == SessionsInit => SessionsInv
<1> SUFFICES ASSUME SessionsInit PROVE SessionsInv OBVIOUS
<1> USE DEF SessionsInit, NoSession
<1>1. SessionsTypeOK
  BY SessionsAssumption DEF SessionsTypeOK
<1>2. HeldIsKnown /\ CommandsAreIssued /\ WritingIsKnown
  BY DEF HeldIsKnown, StoredIsKnown, CommandsAreIssued, WritingIsKnown
<1>3. StoredIsKnown /\ KnownIsHeld /\ MirrorHoldsKnown /\ SecretIsOfAccount
  BY DEF StoredIsKnown, KnownIsHeld, MirrorHoldsKnown, SecretIsOfAccount
<1> QED BY <1>1, <1>2, <1>3 DEF SessionsInv, SessionsAreKnown

\* The browser's steps: the edge and Redis stay.
LEMMA BrowserKeeps ==
    ASSUME SessionsInv, UNCHANGED <<memory, redis, stray, lost>>,
           stored' \in 0..issued, answer' \in [Tab -> 0..issued], tab' \in [Tab -> Where],
           leaving' \subseteq 1..issued, forsaken' \subseteq 1..issued,
           HeldIsKnown', KnownIsHeld'
    PROVE  SessionsInv'
<1>1. /\ known' = known /\ issued' = issued /\ past' = past /\ openedBy' = openedBy
      /\ edgeStarts' = edgeStarts /\ mirror' = mirror /\ commands' = commands
      /\ stray' = stray /\ lost' = lost
  BY DEF memory, redis
<1>2. SessionsTypeOK'
  <2>1. SessionsTypeOK
    BY DEF SessionsInv, SessionsAreKnown
  <2> QED BY <1>1, <2>1 DEF SessionsTypeOK, Where
<1>3. MirrorHoldsKnown' /\ SecretIsOfAccount' /\ CommandsAreIssued' /\ WritingIsKnown'
  BY <1>1 DEF SessionsInv, SessionsAreKnown, MirrorHoldsKnown, SecretIsOfAccount,
              CommandsAreIssued, WritingIsKnown
<1> QED BY <1>2, <1>3 DEF SessionsInv, SessionsAreKnown, HeldIsKnown

\* The steps of the edge and of Redis that leave the browser alone.
LEMMA RedisKeeps ==
    ASSUME SessionsInv, UNCHANGED <<memory, tabs, forsaken, lost>>,
           mirror' \subseteq 1..issued, commands' \subseteq commands, stray' \subseteq 1..issued,
           MirrorHoldsKnown', WritingIsKnown'
    PROVE  SessionsInv'
<1>1. /\ known' = known /\ issued' = issued /\ past' = past /\ openedBy' = openedBy
      /\ edgeStarts' = edgeStarts /\ stored' = stored /\ tab' = tab /\ answer' = answer
      /\ leaving' = leaving /\ forsaken' = forsaken /\ lost' = lost
  BY DEF memory, tabs
<1>2. SessionsTypeOK'
  <2>1. SessionsTypeOK
    BY DEF SessionsInv, SessionsAreKnown
  <2> QED BY <1>1, <2>1 DEF SessionsTypeOK, Where
<1>3. StoredIsKnown' /\ KnownIsHeld' /\ SecretIsOfAccount'
  BY <1>1 DEF SessionsInv, SessionsAreKnown, StoredIsKnown, KnownIsHeld, SecretIsOfAccount
<1>4. HeldIsKnown'
  BY <1>1, <1>3 DEF SessionsInv, HeldIsKnown
<1>5. CommandsAreIssued'
  BY <1>1 DEF SessionsInv, CommandsAreIssued
<1> QED BY <1>2, <1>3, <1>4, <1>5 DEF SessionsInv, SessionsAreKnown

LEMMA BrowserSteps ==
    ASSUME SessionsInv, NEW t \in Tab,
           OpenTab(t) \/ PressLogin(t) \/ LoginAnswered(t) \/ LoginFails(t) \/ PressLogout(t)
    PROVE  SessionsInv'
<1>1. /\ issued \in Nat /\ answer \in [Tab -> 0..issued] /\ stored \in 0..issued
      /\ tab \in [Tab -> Where] /\ leaving \subseteq 1..issued /\ forsaken \subseteq 1..issued
  BY SessionTypes
<1>2. /\ HeldIsKnown /\ KnownIsHeld /\ StoredIsKnown
  BY DEF SessionsInv, SessionsAreKnown
<1>3. Loaded \in 0..issued /\ (Loaded # NoSession => Loaded = stored /\ stored \notin past)
  BY <1>1 DEF Loaded, NoSession
<1>4. CASE OpenTab(t)
  <2>1. /\ stored' = Loaded /\ answer' = answer /\ leaving' = leaving /\ forsaken' = forsaken
        /\ known' = known /\ past' = past /\ lost' = lost /\ tab' \in [Tab -> Where]
    BY <1>1, <1>4 DEF OpenTab, TabAt, memory, sessionGhosts, Where
  <2>2. stored' # stored => stored \in past /\ stored' = NoSession
    BY <2>1 DEF Loaded
  <2>3. HeldIsKnown'
    BY <2>1, <2>2, <1>1, <1>2 DEF HeldIsKnown, StoredIsKnown, NoSession
  <2>4. KnownIsHeld'
    BY <2>1, <2>2, <1>2 DEF KnownIsHeld
  <2> QED BY <2>1, <2>3, <2>4, <1>1, <1>3, <1>4, BrowserKeeps DEF OpenTab, sessionGhosts
<1>5. CASE PressLogin(t)
  <2>1. /\ stored' = stored /\ answer' = answer /\ leaving' = leaving /\ forsaken' = forsaken
        /\ known' = known /\ past' = past /\ lost' = lost /\ tab' \in [Tab -> Where]
    BY <1>1, <1>5 DEF PressLogin, TabAt, memory, sessionGhosts, Where
  <2>2. HeldIsKnown' /\ KnownIsHeld'
    BY <2>1, <1>2 DEF HeldIsKnown, StoredIsKnown, KnownIsHeld
  <2> QED BY <2>1, <2>2, <1>1, <1>5, BrowserKeeps DEF PressLogin, sessionGhosts
<1>6. CASE LoginAnswered(t)
  <2>1. /\ stored' = answer[t] /\ answer[t] # NoSession /\ leaving' = leaving
        /\ answer' = [answer EXCEPT ![t] = NoSession]
        /\ forsaken' = forsaken \cup ({stored} \ {NoSession, answer[t]})
        /\ known' = known /\ past' = past /\ lost' = lost /\ tab' \in [Tab -> Where]
    BY <1>1, <1>6 DEF LoginAnswered, TabAt, memory, Where
  <2>2. /\ answer' \in [Tab -> 0..issued] /\ answer'[t] = NoSession
        /\ \A u \in Tab : u # t => answer'[u] = answer[u]
        /\ forsaken' \subseteq 1..issued
    <3>1. \A n \in 0..issued : n # NoSession => n \in 1..issued
      BY <1>1 DEF NoSession
    <3>2. answer[t] \in 0..issued /\ NoSession \in 0..issued
      BY <1>1 DEF NoSession
    <3>3. forsaken' \subseteq 1..issued
      BY <1>1, <2>1, <3>1, <3>2
    <3> QED BY <1>1, <2>1, <3>2, <3>3
  <2>3. StoredIsKnown' /\ stored' \notin leaving'
    BY <2>1, <1>2 DEF HeldIsKnown, StoredIsKnown
  <2>4. HeldIsKnown'
    BY <2>1, <2>2, <2>3, <1>2 DEF HeldIsKnown
  <2>5. KnownIsHeld'
    <3> SUFFICES ASSUME NEW s \in known \ past
                 PROVE  s = stored' \/ s \in leaving' \cup forsaken' \/ \E u \in Tab : answer'[u] = s
      BY <2>1 DEF KnownIsHeld
    <3>1. s # NoSession
      BY <1>1, SessionTypes DEF NoSession
    <3>2. CASE s = stored
      BY <3>1, <3>2, <2>1
    <3>3. CASE s \in leaving \cup forsaken
      BY <3>3, <2>1
    <3>4. CASE \E u \in Tab : answer[u] = s
      BY <3>4, <2>1, <2>2
    <3> QED BY <3>2, <3>3, <3>4, <1>2 DEF KnownIsHeld
  <2> QED BY <2>1, <2>2, <2>4, <2>5, <1>1, <1>6, BrowserKeeps DEF LoginAnswered
<1>7. CASE LoginFails(t)
  <2>1. /\ stored' = stored /\ leaving' = leaving
        /\ answer' = [answer EXCEPT ![t] = NoSession]
        /\ forsaken' = forsaken \cup ({answer[t]} \ {NoSession})
        /\ known' = known /\ past' = past /\ lost' = lost /\ tab' \in [Tab -> Where]
    BY <1>1, <1>7 DEF LoginFails, TabAt, memory, Where
  <2>2. /\ answer' \in [Tab -> 0..issued] /\ answer'[t] = NoSession
        /\ \A u \in Tab : u # t => answer'[u] = answer[u]
        /\ forsaken' \subseteq 1..issued
    <3>1. \A n \in 0..issued : n # NoSession => n \in 1..issued
      BY <1>1 DEF NoSession
    <3>2. answer[t] \in 0..issued /\ NoSession \in 0..issued
      BY <1>1 DEF NoSession
    <3>3. forsaken' \subseteq 1..issued
      BY <1>1, <2>1, <3>1, <3>2
    <3> QED BY <1>1, <2>1, <3>2, <3>3
  <2>3. StoredIsKnown' /\ stored' \notin leaving'
    BY <2>1, <1>2 DEF HeldIsKnown, StoredIsKnown
  <2>4. HeldIsKnown'
    BY <2>1, <2>2, <2>3, <1>2 DEF HeldIsKnown
  <2>5. KnownIsHeld'
    <3> SUFFICES ASSUME NEW s \in known \ past
                 PROVE  s = stored' \/ s \in leaving' \cup forsaken' \/ \E u \in Tab : answer'[u] = s
      BY <2>1 DEF KnownIsHeld
    <3>1. s # NoSession
      BY <1>1, SessionTypes DEF NoSession
    <3> QED BY <3>1, <2>1, <2>2, <1>2 DEF KnownIsHeld
  <2> QED BY <2>1, <2>2, <2>4, <2>5, <1>1, <1>7, BrowserKeeps DEF LoginFails
<1>8. CASE PressLogout(t)
  <2>1. /\ stored' = NoSession /\ leaving' = leaving \cup ({Loaded} \ {NoSession})
        /\ answer' = answer /\ forsaken' = forsaken
        /\ known' = known /\ past' = past /\ lost' = lost /\ tab' \in [Tab -> Where]
    BY <1>1, <1>8 DEF PressLogout, TabAt, memory, sessionGhosts, Where
  <2>2. leaving' \subseteq 1..issued /\ 0 \in 0..issued
    BY <1>1, <1>3, <2>1 DEF NoSession
  <2>3. HeldIsKnown'
    BY <2>1, <2>2, <1>1, <1>2, <1>3 DEF HeldIsKnown, StoredIsKnown, NoSession
  <2>4. KnownIsHeld'
    <3> SUFFICES ASSUME NEW s \in known \ past
                 PROVE  s = stored' \/ s \in leaving' \cup forsaken' \/ \E u \in Tab : answer'[u] = s
      BY <2>1 DEF KnownIsHeld
    <3>1. s # NoSession
      BY <1>1, SessionTypes DEF NoSession
    <3>2. CASE s = stored
      BY <3>1, <3>2, <2>1 DEF Loaded
    <3> QED BY <3>2, <2>1, <1>2 DEF KnownIsHeld
  <2> QED BY <2>1, <2>2, <2>3, <2>4, <1>1, <1>8, BrowserKeeps DEF PressLogout, sessionGhosts, NoSession
<1> QED BY <1>4, <1>5, <1>6, <1>7, <1>8

LEMMA IssueKeeps ==
    ASSUME SessionsInv, NEW t \in Tab, Issue(t)
    PROVE  SessionsInv'
<1>1. /\ issued \in Nat /\ MaxSessions \in Nat /\ known \subseteq 1..issued
      /\ past \subseteq 1..issued /\ mirror \subseteq 1..issued /\ leaving \subseteq 1..issued
      /\ answer \in [Tab -> 0..issued] /\ stored \in 0..issued
      /\ openedBy \in [Number -> OpenedRow] /\ tab \in [Tab -> Where] /\ commands \subseteq Command
      /\ stray \subseteq 1..issued /\ forsaken \subseteq 1..issued /\ lost \subseteq 1..issued
      /\ edgeStarts \in 0..MaxEdgeStarts
  BY SessionTypes
<1>2. PICK s : s = issued + 1
  OBVIOUS
<1>3. /\ s \in Number /\ s \in 1..MaxSessions /\ s # NoSession /\ s \notin 0..issued
      /\ s \notin 1..issued /\ s \in 0..s /\ s \in 1..s
      /\ 0..issued \subseteq 0..s /\ 1..issued \subseteq 1..s /\ s \in 0..MaxSessions
  BY <1>1, <1>2 DEF Issue, Number, NoSession
<1>4a. PICK m \in Member : \E way \in {ByPassword(m), ByCertificate(m)} \ {"refused"} :
          openedBy' = [openedBy EXCEPT ![s] = [member |-> m, secret |-> way]]
  BY <1>2 DEF Issue
<1>4. PICK secret \in {ByPassword(m), ByCertificate(m)} \ {"refused"} :
          openedBy' = [openedBy EXCEPT ![s] = [member |-> m, secret |-> secret]]
  BY <1>4a
<1>5. /\ issued' = s /\ known' = known \cup {s} /\ answer' = [answer EXCEPT ![t] = s]
      /\ commands' = commands \cup {Set(s)} /\ answer[t] = NoSession
      /\ past' = past /\ edgeStarts' = edgeStarts /\ stored' = stored /\ tab' = tab
      /\ leaving' = leaving /\ mirror' = mirror /\ stray' = stray /\ forsaken' = forsaken
      /\ lost' = lost
  BY <1>2 DEF Issue, sessionGhosts
<1>6. IF m \in Account THEN m \in Listed /\ secret = "own" ELSE secret = "made"
  BY SessionsAssumption DEF ByPassword, ByCertificate
<1>7. /\ [member |-> m, secret |-> secret] \in OpenedRow
      /\ openedBy' \in [Number -> OpenedRow]
      /\ openedBy'[s] = [member |-> m, secret |-> secret]
      /\ \A n \in Number : n # s => openedBy'[n] = openedBy[n]
  <2>1. [member |-> m, secret |-> secret] \in OpenedRow
    BY <1>6 DEF OpenedRow
  <2> QED BY <2>1, <1>1, <1>3, <1>4
<1>8. /\ answer' \in [Tab -> 0..s] /\ answer'[t] = s
      /\ \A u \in Tab : u # t => answer'[u] = answer[u] /\ answer[u] # s
  BY <1>1, <1>3, <1>5
<1>9. SessionsTypeOK'
  <2>1. commands' \subseteq Command
    BY <1>1, <1>3, <1>5, CommandForms
  <2> QED BY <2>1, <1>1, <1>3, <1>5, <1>7, <1>8 DEF SessionsTypeOK, OpenedRow, Where
<1>10. HeldIsKnown' /\ StoredIsKnown'
  <2>1. StoredIsKnown' /\ stored' \notin leaving'
    BY <1>5 DEF SessionsInv, HeldIsKnown, StoredIsKnown
  <2> SUFFICES ASSUME NEW u \in Tab, answer'[u] # NoSession
               PROVE  /\ answer'[u] \notin past => answer'[u] \in known' \cup lost
                      /\ answer'[u] \notin leaving /\ answer'[u] # stored
                      /\ \A v \in Tab : v # u => answer'[v] # answer'[u]
    BY <2>1, <1>5 DEF HeldIsKnown
  <2>2. CASE u = t
    BY <2>2, <1>1, <1>3, <1>5, <1>8
  <2>3. CASE u # t
    BY <2>3, <1>1, <1>3, <1>5, <1>8 DEF SessionsInv, HeldIsKnown
  <2> QED BY <2>2, <2>3
<1>11. KnownIsHeld'
  <2> SUFFICES ASSUME NEW n \in known' \ past
               PROVE  n = stored \/ n \in leaving \cup forsaken \/ \E u \in Tab : answer'[u] = n
    BY <1>5 DEF KnownIsHeld
  <2>1. CASE n = s
    BY <2>1, <1>8
  <2>2. CASE n # s
    <3>1. n \in known \ past /\ n # NoSession
      BY <2>2, <1>1, <1>5 DEF NoSession
    <3>2. n = stored \/ n \in leaving \cup forsaken \/ \E u \in Tab : answer[u] = n
      BY <3>1 DEF SessionsInv, SessionsAreKnown, KnownIsHeld
    <3> QED BY <3>1, <3>2, <1>5, <1>8
  <2> QED BY <2>1, <2>2
<1>12. MirrorHoldsKnown'
  BY <1>5 DEF SessionsInv, SessionsAreKnown, MirrorHoldsKnown
<1>13. SecretIsOfAccount'
  <2>1. known \subseteq Number
    BY <1>1, SessionTypes DEF Number
  <2>2. \A n \in known : openedBy'[n] = openedBy[n]
    BY <2>1, <1>1, <1>3, <1>7
  <2> QED BY <2>2, <1>5, <1>6, <1>7 DEF SessionsInv, SessionsAreKnown, SecretIsOfAccount
<1>14. CommandsAreIssued'
  BY <1>3, <1>5, CommandForms DEF SessionsInv, CommandsAreIssued
<1>15. WritingIsKnown'
  <2> SUFFICES ASSUME NEW n \in Number, Set(n) \in commands'
               PROVE  n \in known' \/ Del(n) \in commands' \/ n \in stray'
    BY DEF WritingIsKnown
  <2>1. CASE n = s
    BY <2>1, <1>5
  <2>2. CASE n # s
    <3>1. Set(n) \in commands
      BY <2>2, <1>3, <1>5, CommandForms
    <3> QED BY <3>1, <1>5 DEF SessionsInv, WritingIsKnown
  <2> QED BY <2>1, <2>2
<1> QED BY <1>9, <1>10, <1>11, <1>12, <1>13, <1>14, <1>15 DEF SessionsInv, SessionsAreKnown

\* A session forgotten is one the browser does not hold, or one out of date.
LEMMA ForgetKeeps ==
    ASSUME SessionsInv, NEW s \in 1..issued, Forget(s),
           UNCHANGED <<issued, past, openedBy, edgeStarts, stored, tab, answer, mirror, stray, lost,
                       forsaken>>,
           leaving' \subseteq leaving, leaving \ {s} \subseteq leaving',
           s \in past \/ s \in leaving
    PROVE  SessionsInv'
<1>1. /\ issued \in Nat /\ issued <= MaxSessions /\ MaxSessions \in Nat
      /\ known \subseteq 1..issued /\ commands \subseteq Command
  BY SessionTypes
<1>2. s \in Number
  BY <1>1 DEF Number
<1>3. known' = known \ {s} /\ commands' = commands \cup {Del(s)} /\ commands' \subseteq Command
  BY <1>1, <1>2, CommandForms DEF Forget
<1>4. SessionsTypeOK'
  BY <1>3 DEF SessionsInv, SessionsAreKnown, SessionsTypeOK
<1>5. HeldIsKnown' /\ StoredIsKnown'
  BY <1>3 DEF SessionsInv, SessionsAreKnown, HeldIsKnown, StoredIsKnown, NoSession
<1>6. KnownIsHeld'
  BY <1>3 DEF SessionsInv, SessionsAreKnown, KnownIsHeld
<1>7. MirrorHoldsKnown'
  BY <1>3 DEF SessionsInv, SessionsAreKnown, MirrorHoldsKnown
<1>8. SecretIsOfAccount'
  BY <1>3 DEF SessionsInv, SessionsAreKnown, SecretIsOfAccount
<1>9. CommandsAreIssued'
  BY <1>2, <1>3, CommandForms DEF SessionsInv, CommandsAreIssued
<1>10. WritingIsKnown'
  <2> SUFFICES ASSUME NEW n \in Number, Set(n) \in commands'
               PROVE  n \in known' \/ Del(n) \in commands' \/ n \in stray'
    BY DEF WritingIsKnown
  <2>1. Set(n) \in commands
    BY <1>2, <1>3, CommandForms
  <2> QED BY <2>1, <1>3 DEF SessionsInv, WritingIsKnown
<1> QED BY <1>4, <1>5, <1>6, <1>7, <1>8, <1>9, <1>10 DEF SessionsInv, SessionsAreKnown

LEMMA LogoutArrivesKeeps ==
    ASSUME SessionsInv, NEW s \in Number, LogoutArrives(s)
    PROVE  SessionsInv'
<1>1. /\ s \in leaving /\ leaving' = leaving \ {s} /\ leaving \subseteq 1..issued /\ s \in 1..issued
      /\ UNCHANGED <<issued, past, openedBy, edgeStarts, stored, tab, answer, mirror, stray, lost>>
  BY SessionTypes DEF LogoutArrives
<1>2. CASE Forget(s) /\ UNCHANGED forsaken
  BY <1>1, <1>2, ForgetKeeps
<1>3. CASE forsaken' = forsaken \cup {s} /\ UNCHANGED <<known, commands>>
  <2>1. /\ leaving' \subseteq 1..issued /\ forsaken' \subseteq 1..issued
        /\ UNCHANGED <<memory, redis, stray, lost>>
    BY <1>1, <1>3, SessionTypes DEF memory, redis
  <2>2. HeldIsKnown' /\ KnownIsHeld'
    BY <1>1, <1>3 DEF SessionsInv, SessionsAreKnown, HeldIsKnown, StoredIsKnown, KnownIsHeld
  <2> QED BY <2>1, <2>2, <1>1, SessionTypes, BrowserKeeps
<1> QED BY <1>2, <1>3 DEF LogoutArrives

LEMMA ResolveKeeps ==
    ASSUME SessionsInv, NEW t \in Tab, Resolve(t)
    PROVE  SessionsInv'
<1>1. /\ stored \in 1..issued /\ stored \in past /\ Forget(stored) /\ leaving' = leaving
      /\ UNCHANGED <<issued, past, openedBy, edgeStarts, stored, tab, answer, mirror, stray, lost,
                     forsaken>>
  BY SessionTypes DEF Resolve, tabs, sessionGhosts
<1> QED BY <1>1, ForgetKeeps

LEMMA TimePassesKeeps ==
    ASSUME SessionsInv, NEW s \in Number, TimePasses(s)
    PROVE  SessionsInv'
<1>1. /\ s \in 1..issued /\ past' = past \cup {s}
      /\ known' = known /\ issued' = issued /\ openedBy' = openedBy /\ edgeStarts' = edgeStarts
      /\ stored' = stored /\ tab' = tab /\ answer' = answer /\ leaving' = leaving
      /\ mirror' = mirror /\ commands' = commands /\ stray' = stray /\ forsaken' = forsaken
      /\ lost' = lost
  BY DEF TimePasses, tabs, redis, sessionGhosts
<1>2. SessionsTypeOK'
  BY <1>1 DEF SessionsInv, SessionsAreKnown, SessionsTypeOK
<1>3. HeldIsKnown' /\ StoredIsKnown' /\ KnownIsHeld'
  BY <1>1 DEF SessionsInv, SessionsAreKnown, HeldIsKnown, StoredIsKnown, KnownIsHeld
<1>4. MirrorHoldsKnown' /\ SecretIsOfAccount' /\ CommandsAreIssued' /\ WritingIsKnown'
  BY <1>1 DEF SessionsInv, SessionsAreKnown, MirrorHoldsKnown, SecretIsOfAccount,
              CommandsAreIssued, WritingIsKnown
<1> QED BY <1>2, <1>3, <1>4 DEF SessionsInv, SessionsAreKnown

LEMMA EdgeStartsAgainKeeps ==
    ASSUME SessionsInv, EdgeStartsAgain
    PROVE  SessionsInv'
<1>1. /\ edgeStarts' \in 0..MaxEdgeStarts /\ known' = {} /\ commands' = {}
      /\ answer' = [t \in Tab |-> NoSession] /\ lost' = lost \cup known
      /\ stray' = 1..issued
      /\ issued' = issued /\ past' = past /\ openedBy' = openedBy /\ stored' = stored
      /\ tab' = tab /\ leaving' = leaving /\ mirror' = mirror
  BY SessionTypes DEF EdgeStartsAgain
<1>2. forsaken' \subseteq 1..issued
  BY SessionTypes DEF EdgeStartsAgain, NoSession
<1>3. SessionsTypeOK'
  <2>1. answer' \in [Tab -> 0..issued']
    BY <1>1, SessionTypes DEF NoSession
  <2>2. stray' \cup forsaken' \cup lost' \subseteq 1..issued'
    BY <1>1, <1>2, SessionTypes
  <2> QED BY <2>1, <2>2, <1>1, SessionTypes DEF SessionsTypeOK, OpenedRow, Where
<1>4. HeldIsKnown' /\ StoredIsKnown' /\ KnownIsHeld'
  BY <1>1 DEF SessionsInv, SessionsAreKnown, HeldIsKnown, StoredIsKnown, KnownIsHeld
<1>5. MirrorHoldsKnown' /\ SecretIsOfAccount' /\ CommandsAreIssued' /\ WritingIsKnown'
  BY <1>1, SessionTypes DEF MirrorHoldsKnown, SecretIsOfAccount, CommandsAreIssued, WritingIsKnown
<1> QED BY <1>3, <1>4, <1>5 DEF SessionsInv, SessionsAreKnown

LEMMA CommandKeeps ==
    ASSUME SessionsInv, NEW c \in Command, CommandRuns(c) \/ CommandFails(c)
    PROVE  SessionsInv'
<1>1. /\ c \in commands /\ commands' = commands \ {c} /\ c.of \in 1..issued /\ c.of \in Number
      /\ c.op \in {"set", "del"}
      /\ UNCHANGED <<memory, tabs, forsaken, lost>>
  BY DEF CommandRuns, CommandFails, SessionsInv, CommandsAreIssued, Command
<1>2. /\ known' = known /\ issued' = issued
      /\ mirror \subseteq 1..issued /\ stray \subseteq 1..issued /\ commands \subseteq Command
      /\ issued <= MaxSessions /\ issued \in Nat /\ MaxSessions \in Nat
  BY <1>1, SessionTypes DEF memory
<1>3. \A n \in Number : Set(n) \in Command /\ Del(n) \in Command
                         /\ Set(n).op = "set" /\ Del(n).op = "del" /\ Set(n).of = n /\ Del(n).of = n
  BY CommandForms
<1>4. c.op = "set" => c = Set(c.of)
  BY DEF Command, Set
<1>5. /\ \A n \in mirror : n \in known \/ Del(n) \in commands \/ n \in stray
      /\ \A n \in Number : Set(n) \in commands => n \in known \/ Del(n) \in commands \/ n \in stray
      /\ mirror \subseteq Number
  BY <1>2 DEF SessionsInv, SessionsAreKnown, MirrorHoldsKnown, WritingIsKnown, Number
<1>6. CASE CommandRuns(c) /\ c.op = "set"
  <2>1. mirror' = mirror \cup {c.of} /\ stray' = stray
    BY <1>6 DEF CommandRuns
  <2>2. \A n \in Number : Del(n) \in commands => Del(n) \in commands'
    BY <1>1, <1>3, <1>6
  <2>3. MirrorHoldsKnown'
    BY <2>1, <2>2, <1>1, <1>2, <1>4, <1>5, <1>6 DEF MirrorHoldsKnown
  <2>4. WritingIsKnown'
    BY <2>1, <2>2, <1>1, <1>2, <1>5 DEF WritingIsKnown
  <2> QED BY <2>1, <2>3, <2>4, <1>1, <1>2, RedisKeeps
<1>7. CASE CommandRuns(c) /\ c.op = "del"
  <2>1. /\ mirror' = mirror \ {c.of}
        /\ stray' = IF Set(c.of) \in commands THEN stray \cup {c.of} ELSE stray
    BY <1>7 DEF CommandRuns
  <2>2. \A n \in Number : n # c.of /\ Del(n) \in commands => Del(n) \in commands'
    BY <1>1, <1>3
  <2>3. MirrorHoldsKnown'
    BY <2>1, <2>2, <1>2, <1>5 DEF MirrorHoldsKnown
  <2>4. WritingIsKnown'
    BY <2>1, <2>2, <1>1, <1>2, <1>5 DEF WritingIsKnown
  <2>5. stray' \subseteq 1..issued
    BY <2>1, <1>1, <1>2
  <2> QED BY <2>1, <2>3, <2>4, <2>5, <1>1, <1>2, RedisKeeps
<1>8. CASE CommandFails(c)
  <2>1. mirror' = mirror /\ stray' = IF c.op = "del" THEN stray \cup {c.of} ELSE stray
    BY <1>8 DEF CommandFails
  <2>2. \A n \in Number : Del(n) \in commands => Del(n) \in commands' \/ n \in stray'
    BY <2>1, <1>1, <1>3
  <2>3. MirrorHoldsKnown' /\ WritingIsKnown'
    BY <2>1, <2>2, <1>1, <1>2, <1>5 DEF MirrorHoldsKnown, WritingIsKnown
  <2>4. stray' \subseteq 1..issued
    BY <2>1, <1>1, <1>2
  <2> QED BY <2>1, <2>3, <2>4, <1>1, <1>2, RedisKeeps
<1> QED BY <1>1, <1>6, <1>7, <1>8

LEMMA MirrorExpiresKeeps ==
    ASSUME SessionsInv, NEW s \in Number, MirrorExpires(s)
    PROVE  SessionsInv'
<1>1. /\ mirror' = mirror \ {s} /\ commands' = commands /\ stray' = stray
      /\ UNCHANGED <<memory, tabs, forsaken, lost>> /\ known' = known
  BY DEF MirrorExpires, sessionGhosts, memory
<1>2. MirrorHoldsKnown' /\ WritingIsKnown'
  BY <1>1 DEF SessionsInv, SessionsAreKnown, MirrorHoldsKnown, WritingIsKnown
<1> QED BY <1>1, <1>2, SessionTypes, RedisKeeps

LEMMA SessionsStep == SessionsInv /\ [SessionsNext]_sessionVars => SessionsInv'
<1> SUFFICES ASSUME SessionsInv, [SessionsNext]_sessionVars PROVE SessionsInv' OBVIOUS
<1>1. CASE UNCHANGED sessionVars
  <2>1. /\ UNCHANGED <<memory, tabs, forsaken, lost>> /\ mirror' = mirror /\ commands' = commands
        /\ stray' = stray /\ known' = known
    BY <1>1 DEF sessionVars, redis, sessionGhosts, memory
  <2>2. MirrorHoldsKnown' /\ WritingIsKnown'
    BY <2>1 DEF SessionsInv, SessionsAreKnown, MirrorHoldsKnown, WritingIsKnown
  <2> QED BY <2>1, <2>2, SessionTypes, RedisKeeps
<1> QED
  BY <1>1, BrowserSteps, IssueKeeps, ResolveKeeps, LogoutArrivesKeeps, TimePassesKeeps,
     MirrorExpiresKeeps, CommandKeeps, EdgeStartsAgainKeeps DEF SessionsNext

\* SessionStore, its mirror in Redis and the browser's storage, for any number of tabs, members and
\* restarts: a session in date that the browser holds is one the edge knows or forgot by a restart,
\* one the edge accepts is held or was left behind in a way that is named, the mirror keeps no ended
\* session but for a deletion lost or overtaken, and an account's sessions carry its own secret.
THEOREM SessionsSpecKeepsSessionsKnown == SessionsSpec => []SessionsAreKnown
<1>1. SessionsInv => SessionsAreKnown
  BY DEF SessionsInv
<1> QED BY <1>1, SessionsStart, SessionsStep, PTL DEF SessionsSpec
-----------------------------------------------------------------------------
(***************************************************************************)
(* The pages that only read (module PortalPages). PagesInv follows, for    *)
(* each part of a page, the fetch asked for last: until it is answered it  *)
(* is the one that will be shown (Latest), and from then on whatever is    *)
(* still in flight for that part is known to be overtaken (AllBehind). A   *)
(* step touches one part (PageKept says the others are as they were).      *)
(* DataOvertaken is why the certificate fits the data: a load whose        *)
(* certificate might be asked for too late has had its data overtaken as   *)
(* well.                                                                   *)
(***************************************************************************)

FetchRow == [page : {"none", "history", "refresh", "data", "cert", "rows"},
             of : Proc \cup Filter \cup {Blank},
             first : Replied, second : Replied, since : 0..MaxRecords]

\* What the core has answered is what it had, then or before; of what is asked for.
AnswerSound(row) ==
    /\ row.page = "history" => row.of \in Proc
    /\ row.page \in {"data", "cert"} => row.of = Visited
    /\ row.page = "rows" => row.of \in Filter
    /\ row.page \in {"history", "data", "cert"} =>
          IF row.first.is = "ok" THEN row.first.n <= written[row.of] ELSE row.first.n = 0
    /\ row.page = "refresh" =>
          /\ row.since <= height
          /\ row.first.is = "reading" => row.since <= row.first.n /\ row.first.n <= height
          /\ row.first.is = "ok" => /\ row.since <= row.first.n /\ row.first.n <= row.first.m
                                    /\ row.first.m <= height
          /\ row.second.is = "ok" => row.since <= row.second.n /\ row.second.n <= height

\* What was overtaken is in flight.
BehindIsInFlight ==
    \A b \in behind : \/ fetch[b[1]].page = b[2]
                      \/ fetch[b[1]].page = "data" /\ b[2] = "cert"

\* f was asked for after all others for that part of a page, and none has overtaken it.
Latest(f, part) ==
    /\ fetch[f].page = part /\ <<f, part>> \notin behind
    /\ \A g \in Fetch : fetch[g].page = part => g = f \/ g \in ahead[f]

AllBehind(part) == \A g \in Fetch : fetch[g].page = part => <<g, part>> \in behind

HistorySound ==
    \/ typed
    \/ \E f \in Fetch : Latest(f, "history") /\ fetch[f].of = heading
    \/ AllBehind("history") /\ (history.of = heading \/ unheard \/ outdated["history"])

RowsSound ==
    \/ \E f \in Fetch : Latest(f, "rows") /\ fetch[f].of = filter
    \/ AllBehind("rows") /\ (rows = Blank \/ rowsError \/ rows = filter \/ outdated["rows"])

\* A certificate asked for sooner than that of a load before it means that load's data were overtaken.
DataOvertaken ==
    \A g \in Fetch : fetch[g].page = "data" =>
        /\ (\E f \in Fetch : fetch[f].page = "cert" /\ g \in ahead[f]) => <<g, "data">> \in behind
        /\ <<g, "cert">> \in behind => <<g, "data">> \in behind

CertSound ==
    data = FinalCount /\ ~outdated["data"] =>
        /\ written[Visited] = FinalCount
        /\ \/ \E f \in Fetch :
                 /\ Latest(f, "cert")
                 /\ fetch[f].first.is = "ok" => fetch[f].first.n = FinalCount
           \/ AllBehind("cert") /\ (cert = FinalCount \/ missed \/ outdated["cert"])

PagesInv ==
    /\ PagesTypeOK
    /\ \A p \in Proc : written[p] <= height
    /\ \A f \in Fetch : AnswerSound(fetch[f])
    /\ BehindIsInFlight
    /\ HistorySound /\ StatusIsConsistent /\ RowsSound
    /\ DataOvertaken /\ CertSound

-----------------------------------------------------------------------------
LEMMA PageTypes ==
    /\ MaxRecords \in Nat \ {0} /\ FinalCount \in Nat \ {0} /\ Visited \in Proc /\ Every \in Filter
    /\ Blank \notin Proc /\ Blank \notin Filter
    /\ Waiting \in Replied /\ Failed \in Replied
    /\ Free \in FetchRow
    /\ PagesTypeOK => fetch \in [Fetch -> FetchRow] /\ height \in Nat
BY PagesAssumption DEF Waiting, Failed, Replied, Free, FetchRow, PagesTypeOK

\* The fields of a fetch.
LEMMA RowTypes ==
    ASSUME NEW row \in FetchRow
    PROVE  /\ row.page \in {"none", "history", "refresh", "data", "cert", "rows"}
           /\ row.of \in Proc \cup Filter \cup {Blank}
           /\ row.first \in Replied /\ row.second \in Replied
           /\ row.since \in 0..MaxRecords /\ row.since \in Nat
           /\ row = [page |-> row.page, of |-> row.of, first |-> row.first,
                     second |-> row.second, since |-> row.since]
<1>1. MaxRecords \in Nat
  BY PageTypes
<1> QED BY <1>1 DEF FetchRow

LEMMA OutcomeTypes ==
    ASSUME NEW o \in Replied
    PROVE  o.is \in {"waiting", "reading", "ok", "failed"} /\ o.n \in Nat /\ o.m \in Nat
           /\ o.n <= MaxRecords /\ o.m <= MaxRecords
BY PageTypes DEF Replied

\* The types in parts: the fetches and their order, and the rest.
QueueOK(fe, ah) ==
    /\ fe \in [Fetch -> FetchRow]
    /\ ah \in [Fetch -> SUBSET Fetch]
    /\ \A f, g \in Fetch : g \in ah[f] => "none" \notin {fe[f].page, fe[g].page}
    /\ \A f, g \in Fetch : f # g /\ "none" \notin {fe[f].page, fe[g].page} =>
          (g \in ah[f] <=> f \notin ah[g])
    /\ \A f \in Fetch : f \notin ah[f]

RestOK ==
    /\ height \in 1..MaxRecords /\ written \in [Proc -> 0..FinalCount]
    /\ heading \in Proc \cup {Blank}
    /\ history.of \in Proc \cup {Blank} /\ history.n \in 0..FinalCount
    /\ data \in 0..FinalCount /\ cert \in 0..FinalCount
    /\ filter \in Filter /\ rows \in Filter \cup {Blank} /\ rowsError \in BOOLEAN
    /\ typed \in BOOLEAN /\ missed \in BOOLEAN /\ unheard \in BOOLEAN
    /\ behind \subseteq Fetch \X Shows /\ outdated \in [Shows -> BOOLEAN]

LEMMA PagesTypeParts ==
    /\ PagesTypeOK <=> QueueOK(fetch, ahead) /\ RestOK
    /\ PagesTypeOK' <=> QueueOK(fetch', ahead') /\ RestOK'
<1>1. PagesTypeOK <=> QueueOK(fetch, ahead) /\ RestOK
  BY DEF PagesTypeOK, QueueOK, RestOK, FetchRow
<1>2. PagesTypeOK' <=> QueueOK(fetch', ahead') /\ RestOK'
  BY DEF PagesTypeOK, QueueOK, RestOK, FetchRow
<1> QED BY <1>1, <1>2

LEMMA PagesImply == PagesInv => PagesShowWhatIsSo
<1> SUFFICES ASSUME PagesInv PROVE PagesShowWhatIsSo OBVIOUS
<1>1. HistoryIsOfHeading
  BY DEF PagesInv, HistorySound, Latest, AllBehind, HistoryIsOfHeading, NoneInFlight
<1>2. RowsAreOfFilter
  BY DEF PagesInv, RowsSound, Latest, RowsAreOfFilter, NoneInFlight
<1>3. FinishedHasCertificate
  BY DEF PagesInv, CertSound, Latest, FinishedHasCertificate, NoneInFlight
<1> QED BY <1>1, <1>2, <1>3 DEF PagesInv, PagesShowWhatIsSo

LEMMA PagesInitInv == PagesInit => PagesInv
<1> SUFFICES ASSUME PagesInit PROVE PagesInv OBVIOUS
<1>1. \A f \in Fetch : fetch[f] = Free /\ fetch[f].page = "none"
  BY DEF PagesInit, Free
<1>2. QueueOK(fetch, ahead)
  BY <1>1, PageTypes DEF PagesInit, QueueOK
<1>3. RestOK
  <2>1. 1 \in 1..MaxRecords /\ 0 \in 0..FinalCount
    BY PageTypes
  <2> QED BY <2>1, PageTypes DEF PagesInit, RestOK
<1>4. PagesTypeOK
  BY <1>2, <1>3, PagesTypeParts
<1>5. \A p \in Proc : written[p] <= height
  <2>1. (\A p \in Proc : written[p] = 0) /\ height = 1
    BY DEF PagesInit
  <2>2. 0 <= 1
    OBVIOUS
  <2> QED BY <2>1, <2>2
<1>6. \A f \in Fetch : AnswerSound(fetch[f])
  BY <1>1 DEF AnswerSound
<1>7. BehindIsInFlight /\ StatusIsConsistent /\ DataOvertaken
  BY <1>1 DEF PagesInit, BehindIsInFlight, StatusIsConsistent, DataOvertaken
<1>8. HistorySound /\ RowsSound
  BY <1>1 DEF PagesInit, HistorySound, RowsSound, AllBehind
<1>9. CertSound
  BY PageTypes DEF PagesInit, CertSound
<1> QED BY <1>4, <1>5, <1>6, <1>7, <1>8, <1>9 DEF PagesInv

\* A fetch is asked for.
RowAsked(f, row) ==
    /\ fetch' = [fetch EXCEPT ![f] = row]
    /\ ahead' = [ahead EXCEPT ![f] = {g \in Fetch : fetch[g].page # "none"}]

LEMMA AskFacts ==
    ASSUME PagesInv, NEW f \in Fetch, NEW part \in {"history", "refresh", "data", "rows"},
           NEW of \in Proc \cup Filter \cup {Blank}, Ask(f, part, of)
    PROVE  /\ QueueOK(fetch', ahead')
           /\ fetch[f] = Free /\ fetch[f].page = "none"
           /\ fetch'[f].page = part /\ fetch'[f].of = of /\ fetch'[f].first = Waiting
           /\ fetch'[f].second = Waiting
           /\ fetch'[f].since = IF part = "refresh" THEN height ELSE 0
           /\ \A g \in Fetch : g # f => fetch'[g] = fetch[g] /\ ahead'[g] = ahead[g] /\ f \notin ahead[g]
           /\ ahead'[f] = {g \in Fetch : fetch[g].page # "none"}
           /\ behind' = behind /\ outdated' = outdated
<1>1. QueueOK(fetch, ahead) /\ height \in 1..MaxRecords
  BY PagesTypeParts DEF PagesInv, RestOK
<1>2. fetch[f] = Free /\ fetch[f].page = "none"
  BY DEF Ask, Free
<1>3. PICK s : s = IF part = "refresh" THEN height ELSE 0
  OBVIOUS
<1>4. PICK row : row = [page |-> part, of |-> of, first |-> Waiting, second |-> Waiting, since |-> s]
  OBVIOUS
<1>5. s \in 0..MaxRecords
  BY <1>1, <1>3, PageTypes
<1>6. row \in FetchRow
  BY <1>4, <1>5, PageTypes DEF FetchRow
<1>8. RowAsked(f, row)
  BY <1>3, <1>4 DEF Ask, RowAsked
<1>9. fetch' \in [Fetch -> FetchRow] /\ fetch'[f] = row /\ \A g \in Fetch : g # f => fetch'[g] = fetch[g]
  BY <1>1, <1>6, <1>8 DEF RowAsked, QueueOK
<1>10. /\ ahead' \in [Fetch -> SUBSET Fetch]
       /\ ahead'[f] = {g \in Fetch : fetch[g].page # "none"}
       /\ \A g \in Fetch : g # f => ahead'[g] = ahead[g]
  BY <1>1, <1>8 DEF RowAsked, QueueOK
<1>11. \A g \in Fetch : f \notin ahead[g] /\ g \notin ahead[f]
  BY <1>1, <1>2 DEF QueueOK
<1>12. row.page = part /\ part # "none"
  BY <1>4
<1>13. ASSUME NEW a \in Fetch, NEW b \in Fetch, b \in ahead'[a]
       PROVE  "none" \notin {fetch'[a].page, fetch'[b].page}
  <2>1. CASE a = f
    BY <1>2, <1>9, <1>10, <1>12, <1>13, <2>1
  <2>2. CASE a # f
    BY <1>1, <1>9, <1>10, <1>11, <1>12, <1>13, <2>2 DEF QueueOK
  <2> QED BY <2>1, <2>2
<1>14. ASSUME NEW a \in Fetch, NEW b \in Fetch, a # b, "none" \notin {fetch'[a].page, fetch'[b].page}
       PROVE  b \in ahead'[a] <=> a \notin ahead'[b]
  <2>1. CASE a = f
    BY <1>9, <1>10, <1>11, <1>14, <2>1
  <2>2. CASE b = f
    BY <1>9, <1>10, <1>11, <1>14, <2>2
  <2>3. CASE a # f /\ b # f
    BY <1>1, <1>9, <1>10, <1>14, <2>3 DEF QueueOK
  <2> QED BY <2>1, <2>2, <2>3
<1>15. \A a \in Fetch : a \notin ahead'[a]
  BY <1>1, <1>2, <1>10 DEF QueueOK
<1>16. QueueOK(fetch', ahead')
  BY <1>9, <1>10, <1>13, <1>14, <1>15 DEF QueueOK
<1>17. behind' = behind /\ outdated' = outdated
  BY DEF Ask, crossing
<1> QED BY <1>2, <1>3, <1>4, <1>9, <1>10, <1>11, <1>16, <1>17

\* A fetch is over.
LEMMA EndFacts ==
    ASSUME PagesInv, NEW f \in Fetch, Ends(f)
    PROVE  /\ QueueOK(fetch', ahead')
           /\ fetch'[f] = Free /\ fetch'[f].page = "none"
           /\ \A g \in Fetch : g # f => fetch'[g] = fetch[g] /\ ahead'[g] = ahead[g] \ {f}
           /\ ahead'[f] = {}
<1>1. QueueOK(fetch, ahead)
  BY PagesTypeParts DEF PagesInv
<1>2. fetch' \in [Fetch -> FetchRow] /\ fetch'[f] = Free /\ \A g \in Fetch : g # f => fetch'[g] = fetch[g]
  BY <1>1, PageTypes DEF Ends, QueueOK
<1>3. /\ ahead' \in [Fetch -> SUBSET Fetch] /\ ahead'[f] = {}
      /\ \A g \in Fetch : g # f => ahead'[g] = ahead[g] \ {f}
  BY <1>1 DEF Ends, QueueOK
<1>4. Free.page = "none"
  BY DEF Free
<1>5. \A g \in Fetch : f \notin ahead'[g]
  BY <1>3
<1>6. ASSUME NEW a \in Fetch, NEW b \in Fetch, b \in ahead'[a]
      PROVE  "none" \notin {fetch'[a].page, fetch'[b].page}
  <2>1. a # f /\ b # f /\ b \in ahead[a]
    BY <1>3, <1>6
  <2> QED BY <1>1, <1>2, <2>1 DEF QueueOK
<1>7. ASSUME NEW a \in Fetch, NEW b \in Fetch, a # b, "none" \notin {fetch'[a].page, fetch'[b].page}
      PROVE  b \in ahead'[a] <=> a \notin ahead'[b]
  <2>1. a # f /\ b # f
    BY <1>2, <1>4, <1>7
  <2>2. fetch'[a] = fetch[a] /\ fetch'[b] = fetch[b]
    BY <1>2, <2>1
  <2>3. b \in ahead[a] <=> a \notin ahead[b]
    BY <1>1, <1>7, <2>2 DEF QueueOK
  <2> QED BY <1>3, <2>1, <2>3
<1>8. \A a \in Fetch : a \notin ahead'[a]
  BY <1>1, <1>3 DEF QueueOK
<1>9. QueueOK(fetch', ahead')
  BY <1>2, <1>3, <1>6, <1>7, <1>8 DEF QueueOK
<1> QED BY <1>2, <1>3, <1>4, <1>9

-----------------------------------------------------------------------------
\* A part of a page is as it was: the same fetches for it, in the same order, as
\* many of them overtaken.
PageKept(part) ==
    /\ \A g \in Fetch : fetch'[g].page = part <=> fetch[g].page = part
    /\ \A g \in Fetch : fetch[g].page = part => fetch'[g].of = fetch[g].of
    /\ \A g \in Fetch : <<g, part>> \in behind' <=> <<g, part>> \in behind
    /\ \A g, h \in Fetch : fetch[g].page = part /\ fetch[h].page = part =>
                              (h \in ahead'[g] <=> h \in ahead[g])

LEMMA PageKeptKeeps ==
    ASSUME NEW part, PageKept(part)
    PROVE  /\ \A f \in Fetch : Latest(f, part) => Latest(f, part)' /\ fetch'[f].of = fetch[f].of
           /\ AllBehind(part) => AllBehind(part)'
<1>1. ASSUME NEW f \in Fetch, Latest(f, part) PROVE Latest(f, part)' /\ fetch'[f].of = fetch[f].of
  BY <1>1 DEF PageKept, Latest
<1>2. ASSUME AllBehind(part) PROVE AllBehind(part)'
  BY <1>2 DEF PageKept, AllBehind
<1> QED BY <1>1, <1>2

LEMMA HistoryKept ==
    ASSUME HistorySound, PageKept("history"), typed' = typed, heading' = heading,
           history' = history, unheard' = unheard, outdated'["history"] = outdated["history"]
    PROVE  HistorySound'
<1>1. CASE typed
  BY <1>1 DEF HistorySound
<1>2. CASE \E f \in Fetch : Latest(f, "history") /\ fetch[f].of = heading
  <2>1. PICK f \in Fetch : Latest(f, "history") /\ fetch[f].of = heading
    BY <1>2
  <2>2. Latest(f, "history")' /\ fetch'[f].of = heading'
    BY <2>1, PageKeptKeeps
  <2> QED BY <2>2 DEF HistorySound
<1>3. CASE AllBehind("history") /\ (history.of = heading \/ unheard \/ outdated["history"])
  <2>1. AllBehind("history")'
    BY <1>3, PageKeptKeeps
  <2> QED BY <1>3, <2>1 DEF HistorySound
<1> QED BY <1>1, <1>2, <1>3 DEF HistorySound

LEMMA RowsKept ==
    ASSUME RowsSound, PageKept("rows"), filter' = filter, rows' = rows,
           rowsError' = rowsError, outdated'["rows"] = outdated["rows"]
    PROVE  RowsSound'
<1>1. CASE \E f \in Fetch : Latest(f, "rows") /\ fetch[f].of = filter
  <2>1. PICK f \in Fetch : Latest(f, "rows") /\ fetch[f].of = filter
    BY <1>1
  <2>2. Latest(f, "rows")' /\ fetch'[f].of = filter'
    BY <2>1, PageKeptKeeps
  <2> QED BY <2>2 DEF RowsSound
<1>2. CASE AllBehind("rows") /\ (rows = Blank \/ rowsError \/ rows = filter \/ outdated["rows"])
  <2>1. AllBehind("rows")'
    BY <1>2, PageKeptKeeps
  <2> QED BY <1>2, <2>1 DEF RowsSound
<1> QED BY <1>1, <1>2 DEF RowsSound

LEMMA CertKept ==
    ASSUME CertSound, PageKept("cert"), data' = data, cert' = cert, missed' = missed,
           outdated'["cert"] = outdated["cert"], outdated'["data"] = outdated["data"],
           written[Visited] = FinalCount => written'[Visited] = FinalCount,
           \A f \in Fetch : fetch[f].page = "cert" =>
               \/ fetch'[f].first = fetch[f].first
               \/ fetch'[f].first.is = "ok" => fetch'[f].first.n = written[Visited]
    PROVE  CertSound'
<1> SUFFICES ASSUME data' = FinalCount, ~outdated'["data"]
    PROVE  /\ written'[Visited] = FinalCount
           /\ \/ \E f \in Fetch :
                   /\ Latest(f, "cert")'
                   /\ fetch'[f].first.is = "ok" => fetch'[f].first.n = FinalCount
              \/ AllBehind("cert")' /\ (cert' = FinalCount \/ missed' \/ outdated'["cert"])
  BY DEF CertSound
<1>1. data = FinalCount /\ ~outdated["data"]
  OBVIOUS
<1>2. written[Visited] = FinalCount /\ written'[Visited] = FinalCount
  BY <1>1 DEF CertSound
<1>3. CASE \E f \in Fetch : Latest(f, "cert") /\ (fetch[f].first.is = "ok" => fetch[f].first.n = FinalCount)
  <2>1. PICK f \in Fetch : Latest(f, "cert") /\ (fetch[f].first.is = "ok" => fetch[f].first.n = FinalCount)
    BY <1>3
  <2>2. Latest(f, "cert")' /\ fetch[f].page = "cert"
    BY <2>1, PageKeptKeeps DEF Latest
  <2>3. fetch'[f].first.is = "ok" => fetch'[f].first.n = FinalCount
    BY <1>2, <2>1, <2>2
  <2> QED BY <1>2, <2>2, <2>3
<1>4. CASE AllBehind("cert") /\ (cert = FinalCount \/ missed \/ outdated["cert"])
  <2>1. AllBehind("cert")'
    BY <1>4, PageKeptKeeps
  <2> QED BY <1>2, <1>4, <2>1
<1> QED BY <1>1, <1>3, <1>4 DEF CertSound

LEMMA DataKept ==
    ASSUME DataOvertaken, PageKept("data"), PageKept("cert"),
           \A g, h \in Fetch : fetch[g].page = "data" /\ fetch[h].page = "cert" =>
                                  (g \in ahead'[h] => g \in ahead[h])
    PROVE  DataOvertaken'
<1> SUFFICES ASSUME NEW g \in Fetch, fetch'[g].page = "data"
    PROVE  /\ (\E f \in Fetch : fetch'[f].page = "cert" /\ g \in ahead'[f]) => <<g, "data">> \in behind'
           /\ <<g, "cert">> \in behind' => <<g, "data">> \in behind'
  BY DEF DataOvertaken
<1>1. fetch[g].page = "data" /\ (<<g, "data">> \in behind' <=> <<g, "data">> \in behind)
  BY DEF PageKept
<1>2. <<g, "cert">> \in behind' <=> <<g, "cert">> \in behind
  BY DEF PageKept
<1>3. ASSUME NEW f \in Fetch, fetch'[f].page = "cert", g \in ahead'[f] PROVE <<g, "data">> \in behind
  <2>1. fetch[f].page = "cert"
    BY <1>3 DEF PageKept
  <2>2. g \in ahead[f]
    BY <1>1, <1>3, <2>1
  <2> QED BY <1>1, <2>1, <2>2 DEF DataOvertaken
<1> QED BY <1>1, <1>2, <1>3 DEF DataOvertaken

\* Nothing but answers at the core changes: the pages do not.
LEMMA AllKept ==
    ASSUME \A g \in Fetch : fetch'[g].page = fetch[g].page /\ fetch'[g].of = fetch[g].of,
           ahead' = ahead, behind' = behind
    PROVE  \A part : PageKept(part)
BY DEF PageKept

\* What was answered stays true as the journal grows.
LEMMA AnsweredGrows ==
    ASSUME NEW row \in FetchRow, AnswerSound(row), RestOK, RestOK', height <= height',
           \A p \in Proc : written[p] <= written'[p]
    PROVE  AnswerSound(row)'
<1>1. /\ row.first.n \in Nat /\ row.first.m \in Nat /\ row.second.n \in Nat
      /\ row.since \in Nat
  BY RowTypes, OutcomeTypes
<1>2. height \in Nat /\ height' \in Nat /\ \A p \in Proc : written[p] \in Nat /\ written'[p] \in Nat
  BY PageTypes DEF RestOK
<1>3. row.page \in {"history", "data", "cert"} =>
          IF row.first.is = "ok" THEN row.first.n <= written'[row.of] ELSE row.first.n = 0
  <2> SUFFICES ASSUME row.page \in {"history", "data", "cert"}
      PROVE IF row.first.is = "ok" THEN row.first.n <= written'[row.of] ELSE row.first.n = 0
    OBVIOUS
  <2>1. row.of \in Proc
    BY PageTypes DEF AnswerSound
  <2>2. PICK w : w = written[row.of]
    OBVIOUS
  <2>3. PICK v : v = written'[row.of]
    OBVIOUS
  <2>4. w \in Nat /\ v \in Nat /\ w <= v
    BY <1>2, <2>1, <2>2, <2>3
  <2>5. IF row.first.is = "ok" THEN row.first.n <= w ELSE row.first.n = 0
    BY <2>2 DEF AnswerSound
  <2>6. IF row.first.is = "ok" THEN row.first.n <= v ELSE row.first.n = 0
    BY <1>1, <2>4, <2>5
  <2> QED BY <2>3, <2>6
<1>4. row.page = "refresh" =>
          /\ row.since <= height'
          /\ row.first.is = "reading" => row.since <= row.first.n /\ row.first.n <= height'
          /\ row.first.is = "ok" => /\ row.since <= row.first.n /\ row.first.n <= row.first.m
                                    /\ row.first.m <= height'
          /\ row.second.is = "ok" => row.since <= row.second.n /\ row.second.n <= height'
  BY <1>1, <1>2 DEF AnswerSound
<1> QED BY <1>3, <1>4 DEF AnswerSound

LEMMA AnswersKept ==
    ASSUME PagesInv, RestOK', height <= height', \A p \in Proc : written[p] <= written'[p],
           NEW g \in Fetch, fetch'[g] = fetch[g]
    PROVE  AnswerSound(fetch[g])'
<1>1. QueueOK(fetch, ahead) /\ RestOK /\ AnswerSound(fetch[g])
  BY PagesTypeParts DEF PagesInv
<1>2. PICK row : row = fetch[g]
  OBVIOUS
<1>3. row \in FetchRow /\ AnswerSound(row)
  BY <1>1, <1>2 DEF QueueOK
<1>4. AnswerSound(row)'
  BY <1>1, <1>3, AnsweredGrows
<1>5. row = fetch'[g]
  BY <1>2
<1> QED BY <1>4, <1>5 DEF AnswerSound

LEMMA RestBounds ==
    RestOK => /\ height \in Nat /\ 1 <= height /\ height <= MaxRecords
              /\ \A p \in Proc : written[p] \in Nat /\ written[p] <= FinalCount
              /\ written \in [Proc -> 0..FinalCount]
BY PageTypes DEF RestOK

\* The core records.
LEMMA RecordInv ==
    ASSUME PagesInv, RecordElse \/ \E p \in Proc : RecordOf(p)
    PROVE  PagesInv'
<1>1. QueueOK(fetch, ahead) /\ RestOK
  BY PagesTypeParts DEF PagesInv
<1>2. /\ height < MaxRecords /\ height' = height + 1
      /\ fetch' = fetch /\ ahead' = ahead /\ behind' = behind /\ outdated' = outdated
      /\ UNCHANGED <<heading, history, shown, typed, unheard, data, cert, missed,
                     filter, rows, rowsError>>
  BY DEF RecordElse, RecordOf, inFlight, explorer, processPage, dashboard, crossing
<1>3. /\ \A p \in Proc : written[p] <= written'[p] /\ written'[p] <= height'
      /\ written' \in [Proc -> 0..FinalCount]
      /\ written[Visited] = FinalCount => written'[Visited] = FinalCount
  <2>1. \A p \in Proc : written[p] \in Nat /\ written[p] <= FinalCount /\ written[p] <= height
    BY <1>1, RestBounds DEF PagesInv
  <2>2. CASE RecordElse
    <3>1. written' = written
      BY <2>2 DEF RecordElse
    <3>2. height \in Nat
      BY <1>1, RestBounds
    <3> QED BY <1>1, <1>2, <2>1, <3>1, <3>2, RestBounds
  <2>3. CASE \E p \in Proc : RecordOf(p)
    <3>1. PICK p \in Proc : RecordOf(p)
      BY <2>3
    <3>2. written[p] < FinalCount /\ written' = [written EXCEPT ![p] = written[p] + 1]
      BY <3>1 DEF RecordOf
    <3>3. height \in Nat /\ FinalCount \in Nat
      BY <1>1, RestBounds, PageTypes
    <3>4. written[p] + 1 \in 0..FinalCount /\ written[p] + 1 <= height + 1 /\ written[p] <= written[p] + 1
      BY <2>1, <3>2, <3>3
    <3>5. \A q \in Proc : written'[q] = IF q = p THEN written[p] + 1 ELSE written[q]
      BY <1>1, <3>2, RestBounds
    <3>6. written' \in [Proc -> 0..FinalCount]
      BY <1>1, <3>2, <3>4, RestBounds
    <3>7. ASSUME NEW q \in Proc PROVE written[q] <= written'[q] /\ written'[q] <= height'
      <4>1. CASE q = p
        BY <1>2, <3>4, <3>5, <4>1
      <4>2. CASE q # p
        BY <1>2, <2>1, <3>3, <3>5, <4>2
      <4> QED BY <4>1, <4>2
    <3>8. written[Visited] = FinalCount => written'[Visited] = FinalCount
      BY <3>2, <3>3, <3>5, PageTypes
    <3> QED BY <3>6, <3>7, <3>8
  <2> QED BY <2>2, <2>3
<1>4. height' \in 1..MaxRecords /\ height <= height'
  BY <1>1, <1>2, RestBounds, PageTypes
<1>5. QueueOK(fetch', ahead') /\ RestOK'
  BY <1>1, <1>2, <1>3, <1>4 DEF RestOK
<1>6. PagesTypeOK'
  BY <1>5, PagesTypeParts
<1>7. \A f \in Fetch : AnswerSound(fetch[f])'
  BY <1>2, <1>3, <1>4, <1>5, AnswersKept
<1>8. \A part : PageKept(part)
  BY <1>2, AllKept
<1>9. HistorySound' /\ RowsSound'
  BY <1>2, <1>8, HistoryKept, RowsKept DEF PagesInv
<1>10. DataOvertaken'
  BY <1>2 DEF PagesInv, DataOvertaken
<1>11. CertSound'
  BY <1>2, <1>3, <1>8, CertKept DEF PagesInv
<1>12. BehindIsInFlight' /\ StatusIsConsistent'
  BY <1>2 DEF PagesInv, BehindIsInFlight, StatusIsConsistent
<1> QED BY <1>3, <1>6, <1>7, <1>9, <1>10, <1>11, <1>12 DEF PagesInv

\* The core answers: the row of f becomes another, of the same part of a page.
LEMMA AnswerInv ==
    ASSUME PagesInv, NEW f \in Fetch, NEW row \in FetchRow,
           fetch' = [fetch EXCEPT ![f] = row],
           row.page = fetch[f].page, row.of = fetch[f].of,
           AnswerSound(row),
           \/ row.first = fetch[f].first
           \/ row.page = "cert" /\ row.first.is = "ok" => row.first.n = written[Visited],
           UNCHANGED <<height, written, ahead, explorer, processPage, dashboard, crossing>>
    PROVE  PagesInv'
<1>1. QueueOK(fetch, ahead) /\ RestOK
  BY PagesTypeParts DEF PagesInv
<1>2. /\ height' = height /\ written' = written
      /\ ahead' = ahead /\ behind' = behind /\ outdated' = outdated
      /\ UNCHANGED <<heading, history, shown, typed, unheard, data, cert, missed,
                     filter, rows, rowsError>>
  BY DEF explorer, processPage, dashboard, crossing
<1>3. /\ fetch' \in [Fetch -> FetchRow] /\ fetch'[f] = row
      /\ \A g \in Fetch : g # f => fetch'[g] = fetch[g]
  BY <1>1 DEF QueueOK
<1>4. \A g \in Fetch : fetch'[g].page = fetch[g].page /\ fetch'[g].of = fetch[g].of
  BY <1>3
<1>5. QueueOK(fetch', ahead')
  BY <1>1, <1>2, <1>3, <1>4 DEF QueueOK
<1>6. RestOK'
  BY <1>1, <1>2 DEF RestOK
<1>7. PagesTypeOK'
  BY <1>5, <1>6, PagesTypeParts
<1>8. \A part : PageKept(part)
  BY <1>2, <1>4, AllKept
<1>9. HistorySound' /\ RowsSound'
  BY <1>2, <1>8, HistoryKept, RowsKept DEF PagesInv
<1>10. DataOvertaken' /\ BehindIsInFlight'
  BY <1>2, <1>4 DEF PagesInv, DataOvertaken, BehindIsInFlight
<1>11. CertSound'
  <2>1. \A g \in Fetch : fetch[g].page = "cert" =>
               \/ fetch'[g].first = fetch[g].first
               \/ fetch'[g].first.is = "ok" => fetch'[g].first.n = written[Visited]
    BY <1>3
  <2> QED BY <1>2, <1>8, <2>1, CertKept DEF PagesInv
<1>12. \A g \in Fetch : AnswerSound(fetch[g])'
  <2> SUFFICES ASSUME NEW g \in Fetch PROVE AnswerSound(fetch[g])'
    OBVIOUS
  <2>1. CASE g = f
    <3>1. AnswerSound(row)'
      BY <1>2 DEF AnswerSound
    <3>2. fetch'[g] = row
      BY <1>3, <2>1
    <3> QED BY <3>1, <3>2 DEF AnswerSound
  <2>2. CASE g # f
    <3>1. fetch'[g] = fetch[g]
      BY <1>3, <2>2
    <3>2. AnswerSound(fetch[g])
      BY DEF PagesInv
    <3> QED BY <1>2, <3>1, <3>2 DEF AnswerSound
  <2> QED BY <2>1, <2>2
<1>13. (\A p \in Proc : written[p] <= height)' /\ StatusIsConsistent'
  BY <1>2 DEF PagesInv, StatusIsConsistent
<1> QED BY <1>7, <1>9, <1>10, <1>11, <1>12, <1>13 DEF PagesInv

\* Served writes one answer into a row.
LEMMA ServedFirst ==
    ASSUME PagesInv, NEW f \in Fetch, NEW o \in Replied, Served(f, "first", o)
    PROVE  \E row \in FetchRow :
              /\ fetch' = [fetch EXCEPT ![f] = row]
              /\ row.page = fetch[f].page /\ row.of = fetch[f].of /\ row.first = o
              /\ row.second = fetch[f].second /\ row.since = fetch[f].since
<1>1. QueueOK(fetch, ahead)
  BY PagesTypeParts DEF PagesInv
<1>2. PICK old : old = fetch[f]
  OBVIOUS
<1>3. PICK row : row = [old EXCEPT !.first = o]
  OBVIOUS
<1>4. old \in FetchRow
  BY <1>1, <1>2 DEF QueueOK
<1>5. /\ row \in FetchRow /\ row.page = old.page /\ row.of = old.of /\ row.first = o
      /\ row.second = old.second /\ row.since = old.since
  BY <1>3, <1>4 DEF FetchRow
<1>6. fetch' = [fetch EXCEPT ![f] = row]
  BY <1>2, <1>3 DEF Served
<1> QED BY <1>2, <1>5, <1>6

LEMMA ServedSecond ==
    ASSUME PagesInv, NEW f \in Fetch, NEW o \in Replied, Served(f, "second", o)
    PROVE  \E row \in FetchRow :
              /\ fetch' = [fetch EXCEPT ![f] = row]
              /\ row.page = fetch[f].page /\ row.of = fetch[f].of /\ row.second = o
              /\ row.first = fetch[f].first /\ row.since = fetch[f].since
<1>1. QueueOK(fetch, ahead)
  BY PagesTypeParts DEF PagesInv
<1>2. PICK old : old = fetch[f]
  OBVIOUS
<1>3. PICK row : row = [old EXCEPT !.second = o]
  OBVIOUS
<1>4. old \in FetchRow
  BY <1>1, <1>2 DEF QueueOK
<1>5. /\ row \in FetchRow /\ row.page = old.page /\ row.of = old.of /\ row.second = o
      /\ row.first = old.first /\ row.since = old.since
  BY <1>3, <1>4 DEF FetchRow
<1>6. fetch' = [fetch EXCEPT ![f] = row]
  BY <1>2, <1>3 DEF Served
<1> QED BY <1>2, <1>5, <1>6

LEMMA ServedIsSo ==
    ASSUME NEW f, NEW part, NEW o, Served(f, part, o)
    PROVE  UNCHANGED <<height, written, ahead, explorer, processPage, dashboard, crossing>>
BY DEF Served, crossing

LEMMA ServeProcessInv == ASSUME PagesInv, NEW f \in Fetch, ServeProcess(f) PROVE PagesInv'
<1>1. QueueOK(fetch, ahead) /\ RestOK /\ AnswerSound(fetch[f])
  BY PagesTypeParts DEF PagesInv
<1>2. fetch[f].page \in {"history", "data", "cert"} /\ fetch[f].of \in Proc
  BY <1>1, PageTypes DEF ServeProcess, AnswerSound
<1>3. PICK n : n = written[fetch[f].of]
  OBVIOUS
<1>4. n \in Nat /\ n <= height /\ height \in Nat /\ height <= MaxRecords
  BY <1>1, <1>2, <1>3, RestBounds DEF PagesInv
<1>5. PICK o : o = Reply(n, 0)
  OBVIOUS
<1>6. o \in Replied /\ o.is = "ok" /\ o.n = n
  <2>1. n \in 0..MaxRecords /\ 0 \in 0..MaxRecords
    BY <1>4, PageTypes
  <2> QED BY <1>5, <2>1 DEF Reply, Replied
<1>7. Served(f, "first", o)
  BY <1>3, <1>5 DEF ServeProcess
<1>8. PICK row \in FetchRow :
              /\ fetch' = [fetch EXCEPT ![f] = row]
              /\ row.page = fetch[f].page /\ row.of = fetch[f].of /\ row.first = o
              /\ row.second = fetch[f].second /\ row.since = fetch[f].since
  BY <1>6, <1>7, ServedFirst
<1>9. AnswerSound(row)
  <2>1. o.n <= written[row.of]
    BY <1>3, <1>4, <1>6, <1>8
  <2>2. row.page \in {"history", "data", "cert"} /\ row.first.is = "ok" /\ row.first.n <= written[row.of]
    BY <1>2, <1>6, <1>8, <2>1
  <2> QED BY <1>1, <1>8, <2>2 DEF AnswerSound
<1>10. row.page = "cert" /\ row.first.is = "ok" => row.first.n = written[Visited]
  BY <1>1, <1>3, <1>6, <1>8 DEF AnswerSound
<1> QED BY <1>7, <1>8, <1>9, <1>10, AnswerInv, ServedIsSo

LEMMA ServeRowsInv == ASSUME PagesInv, NEW f \in Fetch, ServeRows(f) PROVE PagesInv'
<1>1. AnswerSound(fetch[f])
  BY DEF PagesInv
<1>2. PICK o : o = Reply(0, 0)
  OBVIOUS
<1>3. o \in Replied
  BY <1>2, PageTypes DEF Reply, Replied
<1>4. Served(f, "first", o) /\ fetch[f].page = "rows"
  BY <1>2 DEF ServeRows
<1>5. PICK row \in FetchRow :
              /\ fetch' = [fetch EXCEPT ![f] = row]
              /\ row.page = fetch[f].page /\ row.of = fetch[f].of /\ row.first = o
              /\ row.second = fetch[f].second /\ row.since = fetch[f].since
  BY <1>3, <1>4, ServedFirst
<1>6. AnswerSound(row) /\ row.page # "cert"
  BY <1>1, <1>4, <1>5 DEF AnswerSound
<1> QED BY <1>4, <1>5, <1>6, AnswerInv, ServedIsSo

LEMMA ServeTipInv == ASSUME PagesInv, NEW f \in Fetch, ServeTip(f) PROVE PagesInv'
<1>1. QueueOK(fetch, ahead) /\ RestOK /\ AnswerSound(fetch[f]) /\ fetch[f].page = "refresh"
  BY PagesTypeParts DEF PagesInv, ServeTip
<1>2. PICK h : h = height
  OBVIOUS
<1>3. h \in 0..MaxRecords /\ 0 \in 0..MaxRecords /\ h \in Nat
  BY <1>1, <1>2, RestBounds, PageTypes
<1>4. PICK n : n = fetch[f].first.n
  OBVIOUS
<1>5. n \in 0..MaxRecords /\ n \in Nat /\ fetch[f].since \in Nat
  <2>1. fetch[f] \in FetchRow
    BY <1>1 DEF QueueOK
  <2>2. fetch[f].first \in Replied /\ fetch[f].since \in Nat
    BY <2>1, RowTypes
  <2> QED BY <1>4, <2>2, OutcomeTypes, PageTypes
<1>6. CASE fetch[f].first = Waiting /\ Served(f, "first", [is |-> "reading", n |-> height, m |-> 0])
  <2>1. PICK o : o = [is |-> "reading", n |-> h, m |-> 0]
    OBVIOUS
  <2>2. o \in Replied /\ o.is = "reading" /\ o.n = h
    BY <1>3, <2>1 DEF Replied
  <2>3. Served(f, "first", o)
    BY <1>2, <1>6, <2>1
  <2>4. PICK row \in FetchRow :
              /\ fetch' = [fetch EXCEPT ![f] = row]
              /\ row.page = fetch[f].page /\ row.of = fetch[f].of /\ row.first = o
              /\ row.second = fetch[f].second /\ row.since = fetch[f].since
    BY <2>2, <2>3, ServedFirst
  <2>5. AnswerSound(row) /\ row.page # "cert"
    <3>1. h <= height
      BY <1>2, <1>3
    <3> QED BY <1>1, <1>2, <2>2, <2>4, <3>1 DEF AnswerSound
  <2> QED BY <2>3, <2>4, <2>5, AnswerInv, ServedIsSo
<1>7. CASE /\ fetch[f].first.is = "reading"
           /\ Served(f, "first", [is |-> "ok", n |-> fetch[f].first.n, m |-> height])
  <2>1. PICK o : o = [is |-> "ok", n |-> n, m |-> h]
    OBVIOUS
  <2>2. o \in Replied /\ o.is = "ok" /\ o.n = n /\ o.m = h
    BY <1>3, <1>5, <2>1 DEF Replied
  <2>3. Served(f, "first", o)
    BY <1>2, <1>4, <1>7, <2>1
  <2>4. PICK row \in FetchRow :
              /\ fetch' = [fetch EXCEPT ![f] = row]
              /\ row.page = fetch[f].page /\ row.of = fetch[f].of /\ row.first = o
              /\ row.second = fetch[f].second /\ row.since = fetch[f].since
    BY <2>2, <2>3, ServedFirst
  <2>5. AnswerSound(row) /\ row.page # "cert"
    <3>1. h <= height
      BY <1>2, <1>3
    <3>2. row.since <= n /\ n <= h
      BY <1>1, <1>2, <1>4, <1>7, <2>4 DEF AnswerSound
    <3> QED BY <1>1, <1>2, <2>2, <2>4, <3>1, <3>2 DEF AnswerSound
  <2> QED BY <2>3, <2>4, <2>5, AnswerInv, ServedIsSo
<1> QED BY <1>6, <1>7 DEF ServeTip

LEMMA ServeNodesInv == ASSUME PagesInv, NEW f \in Fetch, ServeNodes(f) PROVE PagesInv'
<1>1. QueueOK(fetch, ahead) /\ RestOK /\ AnswerSound(fetch[f]) /\ fetch[f].page = "refresh"
  BY PagesTypeParts DEF PagesInv, ServeNodes
<1>2. PICK h : h = height
  OBVIOUS
<1>3. h \in 0..MaxRecords /\ 0 \in 0..MaxRecords /\ h \in Nat
  BY <1>1, <1>2, RestBounds, PageTypes
<1>4. PICK o : o = Reply(h, 0)
  OBVIOUS
<1>5. o \in Replied /\ o.is = "ok" /\ o.n = h
  BY <1>3, <1>4 DEF Reply, Replied
<1>6. Served(f, "second", o)
  BY <1>2, <1>4 DEF ServeNodes
<1>7. PICK row \in FetchRow :
              /\ fetch' = [fetch EXCEPT ![f] = row]
              /\ row.page = fetch[f].page /\ row.of = fetch[f].of /\ row.second = o
              /\ row.first = fetch[f].first /\ row.since = fetch[f].since
  BY <1>5, <1>6, ServedSecond
<1>8. h <= height /\ row.since <= h
  BY <1>1, <1>2, <1>3, <1>7 DEF AnswerSound
<1>9. AnswerSound(row) /\ row.page # "cert"
  BY <1>1, <1>5, <1>7, <1>8 DEF AnswerSound
<1> QED BY <1>6, <1>7, <1>9, AnswerInv, ServedIsSo

LEMMA ServeFailsInv == ASSUME PagesInv, NEW f \in Fetch, ServeFails(f) PROVE PagesInv'
<1>1. AnswerSound(fetch[f])
  BY DEF PagesInv
<1>2. Failed \in Replied /\ Failed.is = "failed" /\ Failed.n = 0
  BY PageTypes DEF Failed
<1>3. CASE Served(f, "first", Failed)
  <2>1. PICK row \in FetchRow :
              /\ fetch' = [fetch EXCEPT ![f] = row]
              /\ row.page = fetch[f].page /\ row.of = fetch[f].of /\ row.first = Failed
              /\ row.second = fetch[f].second /\ row.since = fetch[f].since
    BY <1>2, <1>3, ServedFirst
  <2>2. AnswerSound(row)
    BY <1>1, <1>2, <2>1 DEF AnswerSound
  <2>3. row.page = "cert" /\ row.first.is = "ok" => row.first.n = written[Visited]
    BY <1>2, <2>1
  <2> QED BY <1>3, <2>1, <2>2, <2>3, AnswerInv, ServedIsSo
<1>4. CASE fetch[f].page = "refresh" /\ Served(f, "second", Failed)
  <2>1. PICK row \in FetchRow :
              /\ fetch' = [fetch EXCEPT ![f] = row]
              /\ row.page = fetch[f].page /\ row.of = fetch[f].of /\ row.second = Failed
              /\ row.first = fetch[f].first /\ row.since = fetch[f].since
    BY <1>2, <1>4, ServedSecond
  <2>2. AnswerSound(row) /\ row.page # "cert"
    BY <1>1, <1>2, <1>4, <2>1 DEF AnswerSound
  <2> QED BY <1>4, <2>1, <2>2, AnswerInv, ServedIsSo
<1> QED BY <1>3, <1>4 DEF ServeFails

LEMMA ServeInv == ASSUME PagesInv, Serve PROVE PagesInv'
BY ServeProcessInv, ServeRowsInv, ServeTipInv, ServeNodesInv, ServeFailsInv DEF Serve

LEMMA TypeHeadingInv == ASSUME PagesInv, NEW p \in Proc, TypeHeading(p) PROVE PagesInv'
<1>1. QueueOK(fetch, ahead) /\ RestOK
  BY PagesTypeParts DEF PagesInv
<1>2. /\ heading' = p /\ typed' = TRUE
      /\ UNCHANGED <<height, written, fetch, ahead, history, shown, unheard, data, cert, missed,
                     filter, rows, rowsError, behind, outdated>>
  BY DEF TypeHeading, inFlight, processPage, dashboard, crossing
<1>3. QueueOK(fetch', ahead') /\ RestOK'
  BY <1>1, <1>2 DEF RestOK
<1>4. PagesTypeOK'
  BY <1>3, PagesTypeParts
<1>5. \A part : PageKept(part)
  BY <1>2, AllKept
<1>6. HistorySound'
  BY <1>2 DEF HistorySound
<1>7. RowsSound' /\ CertSound'
  BY <1>2, <1>5, RowsKept, CertKept DEF PagesInv
<1>8. DataOvertaken' /\ BehindIsInFlight' /\ StatusIsConsistent'
  BY <1>2 DEF PagesInv, DataOvertaken, BehindIsInFlight, StatusIsConsistent
<1>9. (\A g \in Fetch : AnswerSound(fetch[g]))' /\ (\A q \in Proc : written[q] <= height)'
  BY <1>2 DEF PagesInv, AnswerSound
<1> QED BY <1>4, <1>6, <1>7, <1>8, <1>9 DEF PagesInv

LEMMA AskKept ==
    ASSUME PagesInv, NEW f \in Fetch, NEW part \in {"history", "refresh", "data", "rows"},
           NEW of \in Proc \cup Filter \cup {Blank}, Ask(f, part, of)
    PROVE  /\ \A other : other # part /\ other # "none" => PageKept(other)
           /\ Latest(f, part)' /\ fetch'[f].of = of
           /\ BehindIsInFlight' /\ DataOvertaken'
<1>1. /\ fetch[f].page = "none" /\ fetch'[f].page = part /\ fetch'[f].of = of
      /\ \A g \in Fetch : g # f => fetch'[g] = fetch[g] /\ ahead'[g] = ahead[g] /\ f \notin ahead[g]
      /\ ahead'[f] = {g \in Fetch : fetch[g].page # "none"}
      /\ behind' = behind
  BY AskFacts
<1>2. ASSUME NEW other, other # part, other # "none" PROVE PageKept(other)
  <2>1. \A g \in Fetch : fetch'[g].page = other <=> fetch[g].page = other
    BY <1>1, <1>2
  <2>2. \A g \in Fetch : fetch[g].page = other => g # f
    BY <1>1, <1>2
  <2> QED BY <1>1, <2>1, <2>2 DEF PageKept
<1>3. <<f, part>> \notin behind /\ <<f, "cert">> \notin behind
  <2>1. \A x : <<f, x>> \in behind => fetch[f].page = x \/ fetch[f].page = "data"
    BY DEF PagesInv, BehindIsInFlight
  <2> QED BY <1>1, <2>1
<1>4. Latest(f, part)'
  <2>1. part # "none"
    OBVIOUS
  <2>2. \A g \in Fetch : fetch'[g].page = part => g = f \/ g \in ahead'[f]
    BY <1>1, <2>1
  <2> QED BY <1>1, <1>3, <2>2 DEF Latest
<1>5. BehindIsInFlight'
  <2>1. behind \subseteq Fetch \X Shows
    BY DEF PagesInv, PagesTypeOK
  <2>2. ASSUME NEW b \in behind
        PROVE  \/ fetch'[b[1]].page = b[2]
               \/ fetch'[b[1]].page = "data" /\ b[2] = "cert"
    <3>1. b[1] \in Fetch /\ b[2] \in Shows
      BY <2>1
    <3>2. \/ fetch[b[1]].page = b[2]
          \/ fetch[b[1]].page = "data" /\ b[2] = "cert"
      BY DEF PagesInv, BehindIsInFlight
    <3>3. b[1] # f
      BY <1>1, <3>1, <3>2 DEF Shows
    <3> QED BY <1>1, <3>1, <3>2, <3>3
  <2> QED BY <1>1, <2>2 DEF BehindIsInFlight
<1>6. DataOvertaken'
  <2> SUFFICES ASSUME NEW g \in Fetch, fetch'[g].page = "data"
      PROVE  /\ (\E h \in Fetch : fetch'[h].page = "cert" /\ g \in ahead'[h]) => <<g, "data">> \in behind
             /\ <<g, "cert">> \in behind => <<g, "data">> \in behind
    BY <1>1 DEF DataOvertaken
  <2>1. CASE g = f
    <3>1. ASSUME NEW h \in Fetch, fetch'[h].page = "cert", g \in ahead'[h] PROVE FALSE
      <4>1. h # f
        BY <1>1, <3>1
      <4> QED BY <1>1, <2>1, <3>1, <4>1
    <3> QED BY <1>3, <2>1, <3>1
  <2>2. CASE g # f
    <3>1. fetch[g].page = "data"
      BY <1>1, <2>2
    <3>2. ASSUME NEW h \in Fetch, fetch'[h].page = "cert", g \in ahead'[h]
          PROVE  <<g, "data">> \in behind
      <4>1. h # f
        BY <1>1, <3>2
      <4>2. fetch[h].page = "cert" /\ g \in ahead[h]
        BY <1>1, <3>2, <4>1
      <4> QED BY <3>1, <4>2 DEF PagesInv, DataOvertaken
    <3>3. <<g, "cert">> \in behind => <<g, "data">> \in behind
      BY <3>1 DEF PagesInv, DataOvertaken
    <3> QED BY <3>2, <3>3
  <2> QED BY <2>1, <2>2
<1> QED BY <1>1, <1>2, <1>4, <1>5, <1>6

\* Another part of a page is as it was when f is over.
LEMMA EndKept ==
    ASSUME PagesInv, NEW f \in Fetch, Ends(f), NEW other, other # "none", other # fetch[f].page,
           \A g \in Fetch : <<g, other>> \in behind' <=> <<g, other>> \in behind
    PROVE  PageKept(other)
<1>1. /\ fetch'[f].page = "none"
      /\ \A g \in Fetch : g # f => fetch'[g] = fetch[g] /\ ahead'[g] = ahead[g] \ {f}
  BY EndFacts
<1>2. \A g \in Fetch : fetch'[g].page = other <=> fetch[g].page = other
  BY <1>1
<1>3. \A g \in Fetch : fetch[g].page = other => g # f
  OBVIOUS
<1> QED BY <1>1, <1>2, <1>3 DEF PageKept

\* f is over, and those asked for before it are overtaken.
LEMMA Overtakes ==
    ASSUME PagesInv, NEW f \in Fetch, NEW part, part # "none", fetch[f].page = part, Ends(f),
           \A g \in Fetch : g # f /\ fetch[g].page = part =>
               (<<g, part>> \in behind' <=> <<g, part>> \in behind \/ g \in ahead[f])
    PROVE  /\ Latest(f, part) => AllBehind(part)' /\ <<f, part>> \notin behind
           /\ \A g \in Fetch : Latest(g, part) /\ g # f => Latest(g, part)' /\ fetch'[g] = fetch[g]
           /\ AllBehind(part) => AllBehind(part)' /\ <<f, part>> \in behind
<1>1. /\ fetch'[f].page = "none"
      /\ \A g \in Fetch : g # f => fetch'[g] = fetch[g] /\ ahead'[g] = ahead[g] \ {f}
  BY EndFacts
<1>2. QueueOK(fetch, ahead)
  BY PagesTypeParts DEF PagesInv
<1>3. \A g \in Fetch : fetch'[g].page = part => g # f /\ fetch[g].page = part
  BY <1>1
<1>4. ASSUME Latest(f, part) PROVE AllBehind(part)' /\ <<f, part>> \notin behind
  <2>1. \A g \in Fetch : fetch'[g].page = part => <<g, part>> \in behind'
    BY <1>3, <1>4 DEF Latest
  <2> QED BY <1>4, <2>1 DEF AllBehind, Latest
<1>5. ASSUME NEW g \in Fetch, Latest(g, part), g # f PROVE Latest(g, part)' /\ fetch'[g] = fetch[g]
  <2>1. fetch[g].page = part /\ <<g, part>> \notin behind /\ f \in ahead[g]
    BY <1>5 DEF Latest
  <2>2. g \notin ahead[f]
    BY <1>2, <1>5, <2>1 DEF QueueOK
  <2>3. <<g, part>> \notin behind'
    BY <1>5, <2>1, <2>2
  <2>4. \A h \in Fetch : fetch'[h].page = part => h = g \/ h \in ahead'[g]
    BY <1>1, <1>3, <1>5 DEF Latest
  <2> QED BY <1>1, <1>5, <2>1, <2>3, <2>4 DEF Latest
<1>6. ASSUME AllBehind(part) PROVE AllBehind(part)' /\ <<f, part>> \in behind
  <2>1. \A g \in Fetch : fetch'[g].page = part => <<g, part>> \in behind'
    BY <1>3, <1>6 DEF AllBehind
  <2> QED BY <1>6, <2>1 DEF AllBehind
<1> QED BY <1>4, <1>5, <1>6

LEMMA ArrivesFacts ==
    ASSUME PagesInv, NEW f \in Fetch, NEW part \in Shows, Arrives(f, part)
    PROVE  /\ outdated' \in [Shows -> BOOLEAN]
           /\ outdated'[part] <=> <<f, part>> \in behind
           /\ \A s \in Shows : s # part => outdated'[s] = outdated[s]
           /\ behind' \subseteq Fetch \X Shows
           /\ \A g \in Fetch, s \in Shows :
                 <<g, s>> \in behind' <=>
                    IF s = part
                    THEN /\ g # f
                         /\ \/ <<g, s>> \in behind
                            \/ g \in Before(f, part)
                            \/ part = "cert" /\ g \in Before(f, "data")
                    ELSE <<g, s>> \in behind
<1>1. RestOK /\ QueueOK(fetch, ahead)
  BY PagesTypeParts DEF PagesInv
<1>2. PICK passed : passed = Before(f, part) \cup (IF part = "cert" THEN Before(f, "data") ELSE {})
  OBVIOUS
<1>3. behind' = (behind \cup passed \X {part}) \ {<<f, part>>}
  BY <1>2 DEF Arrives
<1>4. passed \subseteq Fetch
  BY <1>1, <1>2 DEF Before, QueueOK
<1>5. \A g : g \in passed <=> \/ g \in Before(f, part)
                              \/ part = "cert" /\ g \in Before(f, "data")
  BY <1>2
<1>7. outdated' = [outdated EXCEPT ![part] = <<f, part>> \in behind] /\ outdated \in [Shows -> BOOLEAN]
  BY <1>1 DEF Arrives, RestOK
<1>8. /\ outdated' \in [Shows -> BOOLEAN]
      /\ outdated'[part] <=> <<f, part>> \in behind
      /\ \A s \in Shows : s # part => outdated'[s] = outdated[s]
  <2>1. outdated' \in [Shows -> BOOLEAN]
    BY <1>7
  <2>2. outdated'[part] <=> <<f, part>> \in behind
    BY <1>7
  <2>3. \A s \in Shows : s # part => outdated'[s] = outdated[s]
    BY <1>7
  <2> QED BY <2>1, <2>2, <2>3
<1>9. behind' \subseteq Fetch \X Shows
  BY <1>1, <1>3, <1>4 DEF RestOK
<1>10. ASSUME NEW g \in Fetch, NEW s \in Shows
       PROVE  <<g, s>> \in behind' <=>
                    IF s = part THEN g # f /\ (<<g, s>> \in behind \/ g \in passed)
                    ELSE <<g, s>> \in behind
  BY <1>3
<1> QED BY <1>5, <1>8, <1>9, <1>10

\* A fetch that is asked for has nothing answered; the others keep their answers.
LEMMA AskAnswered ==
    ASSUME PagesInv, NEW f \in Fetch, NEW part \in {"history", "refresh", "data", "rows"},
           NEW of \in Proc \cup Filter \cup {Blank}, Ask(f, part, of),
           UNCHANGED <<height, written>>,
           part = "history" => of \in Proc, part = "data" => of = Visited,
           part = "rows" => of \in Filter
    PROVE  (\A g \in Fetch : AnswerSound(fetch[g]))' /\ (\A p \in Proc : written[p] <= height)'
<1>1. /\ fetch'[f].page = part /\ fetch'[f].of = of /\ fetch'[f].first = Waiting
      /\ fetch'[f].second = Waiting
      /\ fetch'[f].since = IF part = "refresh" THEN height ELSE 0
      /\ \A g \in Fetch : g # f => fetch'[g] = fetch[g]
  BY AskFacts
<1>2. height \in Nat
  BY PagesTypeParts, RestBounds DEF PagesInv
<1>3. AnswerSound(fetch[f])'
  <2>1. Waiting.is = "waiting" /\ Waiting.n = 0
    BY DEF Waiting
  <2>2. part = "refresh" => fetch'[f].since <= height'
    BY <1>1, <1>2
  <2> QED BY <1>1, <2>1, <2>2 DEF AnswerSound
<1>4. ASSUME NEW g \in Fetch, g # f PROVE AnswerSound(fetch[g])'
  <2>1. fetch'[g] = fetch[g] /\ AnswerSound(fetch[g])
    BY <1>1, <1>4 DEF PagesInv
  <2> QED BY <2>1 DEF AnswerSound
<1> QED BY <1>3, <1>4 DEF PagesInv

LEMMA LoadHistoryInv ==
    ASSUME PagesInv, NEW f \in Fetch, NEW p \in Proc, LoadHistory(f, p)
    PROVE  PagesInv'
<1>1. /\ Ask(f, "history", p) /\ p \in Proc \cup Filter \cup {Blank}
      /\ heading' = p /\ typed' = FALSE /\ unheard' = FALSE
      /\ UNCHANGED <<height, written, history, shown, data, cert, missed, filter, rows, rowsError>>
  BY DEF LoadHistory, processPage, dashboard
<1>2. QueueOK(fetch', ahead') /\ behind' = behind /\ outdated' = outdated
  BY <1>1, AskFacts
<1>3. RestOK'
  BY <1>1, <1>2, PagesTypeParts DEF PagesInv, RestOK
<1>4. PagesTypeOK'
  BY <1>2, <1>3, PagesTypeParts
<1>5. (\A g \in Fetch : AnswerSound(fetch[g]))' /\ (\A q \in Proc : written[q] <= height)'
  BY <1>1, AskAnswered
<1>6. /\ \A other : other # "history" /\ other # "none" => PageKept(other)
      /\ Latest(f, "history")' /\ fetch'[f].of = p
      /\ BehindIsInFlight' /\ DataOvertaken'
  BY <1>1, AskKept
<1>7. HistorySound'
  BY <1>1, <1>6 DEF HistorySound
<1>8. RowsSound'
  BY <1>1, <1>2, <1>6, RowsKept DEF PagesInv
<1>9. CertSound'
  <2>1. \A g \in Fetch : fetch[g].page = "cert" => fetch'[g].first = fetch[g].first
    BY <1>1, AskFacts
  <2> QED BY <1>1, <1>2, <1>6, <2>1, CertKept DEF PagesInv
<1>10. StatusIsConsistent'
  BY <1>1 DEF PagesInv, StatusIsConsistent
<1> QED BY <1>4, <1>5, <1>6, <1>7, <1>8, <1>9, <1>10 DEF PagesInv

LEMMA RefreshInv == ASSUME PagesInv, NEW f \in Fetch, Refresh(f) PROVE PagesInv'
<1>1. /\ Ask(f, "refresh", Blank) /\ Blank \in Proc \cup Filter \cup {Blank}
      /\ UNCHANGED <<height, written, heading, typed, unheard, history, shown, data, cert, missed,
                     filter, rows, rowsError>>
  BY DEF Refresh, explorer, processPage, dashboard
<1>2. QueueOK(fetch', ahead') /\ behind' = behind /\ outdated' = outdated
  BY <1>1, AskFacts
<1>3. RestOK'
  BY <1>1, <1>2, PagesTypeParts DEF PagesInv, RestOK
<1>4. PagesTypeOK'
  BY <1>2, <1>3, PagesTypeParts
<1>5. (\A g \in Fetch : AnswerSound(fetch[g]))' /\ (\A q \in Proc : written[q] <= height)'
  BY <1>1, AskAnswered
<1>6. /\ \A other : other # "refresh" /\ other # "none" => PageKept(other)
      /\ BehindIsInFlight' /\ DataOvertaken'
  BY <1>1, AskKept
<1>7. HistorySound' /\ RowsSound'
  BY <1>1, <1>2, <1>6, HistoryKept, RowsKept DEF PagesInv
<1>9. CertSound'
  <2>1. \A g \in Fetch : fetch[g].page = "cert" => fetch'[g].first = fetch[g].first
    BY <1>1, AskFacts
  <2> QED BY <1>1, <1>2, <1>6, <2>1, CertKept DEF PagesInv
<1>10. StatusIsConsistent'
  BY <1>1 DEF PagesInv, StatusIsConsistent
<1> QED BY <1>4, <1>5, <1>6, <1>7, <1>9, <1>10 DEF PagesInv

LEMMA LoadProcessInv == ASSUME PagesInv, NEW f \in Fetch, LoadProcess(f) PROVE PagesInv'
<1>1. /\ Ask(f, "data", Visited) /\ Visited \in Proc \cup Filter \cup {Blank}
      /\ UNCHANGED <<height, written, heading, typed, unheard, history, shown, data, cert, missed,
                     filter, rows, rowsError>>
  BY PageTypes DEF LoadProcess, explorer, processPage, dashboard
<1>2. QueueOK(fetch', ahead') /\ behind' = behind /\ outdated' = outdated
  BY <1>1, AskFacts
<1>3. RestOK'
  BY <1>1, <1>2, PagesTypeParts DEF PagesInv, RestOK
<1>4. PagesTypeOK'
  BY <1>2, <1>3, PagesTypeParts
<1>5. (\A g \in Fetch : AnswerSound(fetch[g]))' /\ (\A q \in Proc : written[q] <= height)'
  BY <1>1, AskAnswered
<1>6. /\ \A other : other # "data" /\ other # "none" => PageKept(other)
      /\ BehindIsInFlight' /\ DataOvertaken'
  BY <1>1, AskKept
<1>7. HistorySound' /\ RowsSound'
  BY <1>1, <1>2, <1>6, HistoryKept, RowsKept DEF PagesInv
<1>9. CertSound'
  <2>1. \A g \in Fetch : fetch[g].page = "cert" => fetch'[g].first = fetch[g].first
    BY <1>1, AskFacts
  <2> QED BY <1>1, <1>2, <1>6, <2>1, CertKept DEF PagesInv
<1>10. StatusIsConsistent'
  BY <1>1 DEF PagesInv, StatusIsConsistent
<1> QED BY <1>4, <1>5, <1>6, <1>7, <1>9, <1>10 DEF PagesInv

LEMMA ChooseFilterInv ==
    ASSUME PagesInv, NEW f \in Fetch, NEW s \in Filter, ChooseFilter(f, s)
    PROVE  PagesInv'
<1>1. /\ Ask(f, "rows", s) /\ s \in Proc \cup Filter \cup {Blank}
      /\ filter' = s /\ rowsError' = FALSE
      /\ UNCHANGED <<height, written, heading, typed, unheard, history, shown, data, cert, missed, rows>>
  BY DEF ChooseFilter, explorer, processPage
<1>2. QueueOK(fetch', ahead') /\ behind' = behind /\ outdated' = outdated
  BY <1>1, AskFacts
<1>3. RestOK'
  BY <1>1, <1>2, PagesTypeParts DEF PagesInv, RestOK
<1>4. PagesTypeOK'
  BY <1>2, <1>3, PagesTypeParts
<1>5. (\A g \in Fetch : AnswerSound(fetch[g]))' /\ (\A q \in Proc : written[q] <= height)'
  BY <1>1, AskAnswered
<1>6. /\ \A other : other # "rows" /\ other # "none" => PageKept(other)
      /\ Latest(f, "rows")' /\ fetch'[f].of = s
      /\ BehindIsInFlight' /\ DataOvertaken'
  BY <1>1, AskKept
<1>7. HistorySound'
  BY <1>1, <1>2, <1>6, HistoryKept DEF PagesInv
<1>8. RowsSound'
  BY <1>1, <1>6 DEF RowsSound
<1>9. CertSound'
  <2>1. \A g \in Fetch : fetch[g].page = "cert" => fetch'[g].first = fetch[g].first
    BY <1>1, AskFacts
  <2> QED BY <1>1, <1>2, <1>6, <2>1, CertKept DEF PagesInv
<1>10. StatusIsConsistent'
  BY <1>1 DEF PagesInv, StatusIsConsistent
<1> QED BY <1>4, <1>5, <1>6, <1>7, <1>8, <1>9, <1>10 DEF PagesInv

LEMMA EndAnswered ==
    ASSUME PagesInv, NEW f \in Fetch, Ends(f), UNCHANGED <<height, written>>
    PROVE  (\A g \in Fetch : AnswerSound(fetch[g]))' /\ (\A p \in Proc : written[p] <= height)'
<1>1. fetch'[f] = Free /\ \A g \in Fetch : g # f => fetch'[g] = fetch[g]
  BY EndFacts
<1>2. AnswerSound(fetch[f])'
  BY <1>1 DEF AnswerSound, Free
<1>3. ASSUME NEW g \in Fetch, g # f PROVE AnswerSound(fetch[g])'
  <2>1. fetch'[g] = fetch[g] /\ AnswerSound(fetch[g])
    BY <1>1, <1>3 DEF PagesInv
  <2> QED BY <2>1 DEF AnswerSound
<1> QED BY <1>2, <1>3 DEF PagesInv

LEMMA EndInFlight ==
    ASSUME PagesInv, NEW f \in Fetch, Ends(f),
           \A b \in behind' : /\ b[1] \in Fetch /\ b[1] # f
                              /\ \/ b \in behind
                                 \/ fetch[b[1]].page = b[2]
                                 \/ fetch[b[1]].page = "data" /\ b[2] = "cert"
    PROVE  BehindIsInFlight'
<1>1. \A g \in Fetch : g # f => fetch'[g] = fetch[g]
  BY EndFacts
<1>2. ASSUME NEW b \in behind'
      PROVE  \/ fetch'[b[1]].page = b[2]
             \/ fetch'[b[1]].page = "data" /\ b[2] = "cert"
  <2>1. \/ fetch[b[1]].page = b[2]
        \/ fetch[b[1]].page = "data" /\ b[2] = "cert"
    BY DEF PagesInv, BehindIsInFlight
  <2> QED BY <1>1, <2>1
<1> QED BY <1>2 DEF BehindIsInFlight

\* A fetch that is over leaves what another load's data owe to the certificate.
LEMMA EndData ==
    ASSUME PagesInv, NEW f \in Fetch, Ends(f),
           \A g \in Fetch : g # f => (<<g, "data">> \in behind => <<g, "data">> \in behind'),
           \A g \in Fetch : g # f /\ fetch[g].page = "data" =>
               (<<g, "cert">> \in behind' => \/ <<g, "cert">> \in behind
                                             \/ fetch[f].page = "cert" /\ g \in ahead[f])
    PROVE  DataOvertaken'
<1>1. /\ fetch'[f].page = "none"
      /\ \A g \in Fetch : g # f => fetch'[g] = fetch[g] /\ ahead'[g] = ahead[g] \ {f}
  BY EndFacts
<1> SUFFICES ASSUME NEW g \in Fetch, fetch'[g].page = "data"
    PROVE  /\ (\E h \in Fetch : fetch'[h].page = "cert" /\ g \in ahead'[h]) => <<g, "data">> \in behind'
           /\ <<g, "cert">> \in behind' => <<g, "data">> \in behind'
  BY DEF DataOvertaken
<1>2. g # f /\ fetch[g].page = "data"
  BY <1>1
<1>3. /\ \A h \in Fetch : fetch[h].page = "cert" /\ g \in ahead[h] => <<g, "data">> \in behind
      /\ <<g, "cert">> \in behind => <<g, "data">> \in behind
  BY <1>2 DEF PagesInv, DataOvertaken
<1>4. ASSUME NEW h \in Fetch, fetch'[h].page = "cert", g \in ahead'[h] PROVE <<g, "data">> \in behind'
  <2>1. h # f
    BY <1>1, <1>4
  <2>2. fetch[h].page = "cert" /\ g \in ahead[h]
    BY <1>1, <1>4, <2>1
  <2> QED BY <1>2, <1>3, <2>2
<1>5. ASSUME <<g, "cert">> \in behind' PROVE <<g, "data">> \in behind'
  BY <1>2, <1>3, <1>5
<1> QED BY <1>4, <1>5

LEMMA HistoryShown ==
    ASSUME PagesInv, NEW f \in Fetch, fetch[f].page = "history"
    PROVE  fetch[f].of \in Proc /\ fetch[f].first.n \in 0..FinalCount
<1>1. AnswerSound(fetch[f]) /\ RestOK /\ fetch[f] \in FetchRow
  BY PagesTypeParts DEF PagesInv, QueueOK
<1>2. fetch[f].of \in Proc
  BY <1>1 DEF AnswerSound
<1>3. fetch[f].first.n \in Nat
  BY <1>1, RowTypes, OutcomeTypes
<1>4. PICK w : w = written[fetch[f].of]
  OBVIOUS
<1>5. w \in Nat /\ w <= FinalCount /\ FinalCount \in Nat
  BY <1>1, <1>2, <1>4, RestBounds, PageTypes
<1>6. fetch[f].first.n <= w \/ fetch[f].first.n = 0
  BY <1>1, <1>4 DEF AnswerSound
<1> QED BY <1>2, <1>3, <1>5, <1>6

LEMMA HistoryArrivesInv == ASSUME PagesInv, NEW f \in Fetch, HistoryArrives(f) PROVE PagesInv'
<1>1. /\ fetch[f].page = "history" /\ history' = [of |-> fetch[f].of, n |-> fetch[f].first.n]
      /\ unheard' = FALSE /\ Arrives(f, "history") /\ Ends(f)
      /\ UNCHANGED <<height, written, heading, shown, typed, data, cert, missed, filter, rows, rowsError>>
  BY DEF HistoryArrives, processPage, dashboard
<1>2. /\ outdated' \in [Shows -> BOOLEAN]
      /\ outdated'["history"] <=> <<f, "history">> \in behind
      /\ \A s \in Shows : s # "history" => outdated'[s] = outdated[s]
      /\ behind' \subseteq Fetch \X Shows
      /\ \A g \in Fetch, s \in Shows :
            <<g, s>> \in behind' <=>
               IF s = "history" THEN g # f /\ (<<g, s>> \in behind \/ g \in Before(f, "history"))
               ELSE <<g, s>> \in behind
  BY <1>1, ArrivesFacts DEF Shows
<1>3. QueueOK(fetch', ahead')
  BY <1>1, EndFacts
<1>4. RestOK'
  <2>1. history'.of \in Proc /\ history'.n \in 0..FinalCount
    BY <1>1, HistoryShown
  <2> QED BY <1>1, <1>2, <2>1, PagesTypeParts DEF PagesInv, RestOK
<1>5. PagesTypeOK'
  BY <1>3, <1>4, PagesTypeParts
<1>6. (\A g \in Fetch : AnswerSound(fetch[g]))' /\ (\A q \in Proc : written[q] <= height)'
  BY <1>1, EndAnswered
<1>7. PageKept("rows") /\ PageKept("cert")
  BY <1>1, <1>2, EndKept DEF Shows
<1>8. BehindIsInFlight'
  <2>1. ASSUME NEW b \in behind'
        PROVE  /\ b[1] \in Fetch /\ b[1] # f
               /\ \/ b \in behind
                  \/ fetch[b[1]].page = b[2]
                  \/ fetch[b[1]].page = "data" /\ b[2] = "cert"
    <3>1. b[1] \in Fetch /\ b[2] \in Shows /\ b = <<b[1], b[2]>>
      BY <1>2
    <3>2. b[2] # "history" => b \in behind
      BY <1>2, <3>1
    <3>3. b[2] # "history" => b[1] # f
      BY <1>1, <3>2 DEF PagesInv, BehindIsInFlight
    <3>4. b[2] = "history" => b[1] # f /\ (b \in behind \/ b[1] \in Before(f, "history"))
      BY <1>2, <3>1
    <3>5. b[1] \in Before(f, "history") => fetch[b[1]].page = "history"
      BY DEF Before
    <3> QED BY <3>1, <3>2, <3>3, <3>4, <3>5
  <2> QED BY <1>1, <2>1, EndInFlight
<1>9. DataOvertaken'
  BY <1>1, <1>2, EndData DEF Shows
<1>10. RowsSound' /\ StatusIsConsistent'
  BY <1>1, <1>2, <1>7, RowsKept DEF PagesInv, StatusIsConsistent, Shows
<1>11. CertSound'
  <2>1. \A g \in Fetch : fetch[g].page = "cert" => fetch'[g].first = fetch[g].first
    BY <1>1, EndFacts
  <2> QED BY <1>1, <1>2, <1>7, <2>1, CertKept DEF PagesInv, Shows
<1>12. HistorySound'
  <2>1. \A g \in Fetch : g # f /\ fetch[g].page = "history" =>
            (<<g, "history">> \in behind' <=> <<g, "history">> \in behind \/ g \in ahead[f])
    BY <1>2 DEF Before, Shows
  <2>2. /\ Latest(f, "history") => AllBehind("history")'
        /\ \A g \in Fetch : Latest(g, "history") /\ g # f => Latest(g, "history")' /\ fetch'[g] = fetch[g]
        /\ AllBehind("history") => AllBehind("history")' /\ <<f, "history">> \in behind
    BY <1>1, <2>1, Overtakes
  <2>3. CASE typed
    BY <1>1, <2>3 DEF HistorySound
  <2>4. CASE \E g \in Fetch : Latest(g, "history") /\ fetch[g].of = heading
    <3>1. PICK g \in Fetch : Latest(g, "history") /\ fetch[g].of = heading
      BY <2>4
    <3>2. CASE g = f
      BY <1>1, <2>2, <3>1, <3>2 DEF HistorySound
    <3>3. CASE g # f
      BY <1>1, <2>2, <3>1, <3>3 DEF HistorySound
    <3> QED BY <3>2, <3>3
  <2>5. CASE AllBehind("history")
    BY <1>2, <2>2, <2>5 DEF HistorySound
  <2> QED BY <2>3, <2>4, <2>5 DEF PagesInv, HistorySound
<1> QED BY <1>5, <1>6, <1>8, <1>9, <1>10, <1>11, <1>12 DEF PagesInv

LEMMA HistoryIsLostInv == ASSUME PagesInv, NEW f \in Fetch, HistoryIsLost(f) PROVE PagesInv'
<1>1. /\ fetch[f].page = "history" /\ unheard' = (unheard \/ <<f, "history">> \notin behind)
      /\ behind' = (behind \cup Before(f, "history") \X {"history"}) \ {<<f, "history">>}
      /\ Ends(f) /\ history' = history /\ outdated' = outdated
      /\ UNCHANGED <<height, written, heading, shown, typed, data, cert, missed, filter, rows, rowsError>>
  BY DEF HistoryIsLost, processPage, dashboard
<1>2. RestOK /\ QueueOK(fetch, ahead)
  BY PagesTypeParts DEF PagesInv
<1>3. /\ behind' \subseteq Fetch \X Shows
      /\ \A g \in Fetch, s \in Shows :
            <<g, s>> \in behind' <=>
               IF s = "history" THEN g # f /\ (<<g, s>> \in behind \/ g \in Before(f, "history"))
               ELSE <<g, s>> \in behind
  <2>1. PICK passed : passed = Before(f, "history")
    OBVIOUS
  <2>2. behind' = (behind \cup passed \X {"history"}) \ {<<f, "history">>}
    BY <1>1, <2>1
  <2>3. passed \subseteq Fetch /\ "history" \in Shows
    BY <1>2, <2>1 DEF Before, QueueOK, Shows
  <2>4. behind' \subseteq Fetch \X Shows
    BY <1>2, <2>2, <2>3 DEF RestOK
  <2>5. ASSUME NEW g \in Fetch, NEW s \in Shows
        PROVE  <<g, s>> \in behind' <=>
                   IF s = "history" THEN g # f /\ (<<g, s>> \in behind \/ g \in passed)
                   ELSE <<g, s>> \in behind
    BY <2>2
  <2> QED BY <2>1, <2>4, <2>5
<1>4. QueueOK(fetch', ahead')
  BY <1>1, EndFacts
<1>5. RestOK'
  <2>1. unheard' \in BOOLEAN
    BY <1>1
  <2> QED BY <1>1, <1>2, <1>3, <2>1 DEF RestOK
<1>6. PagesTypeOK'
  BY <1>4, <1>5, PagesTypeParts
<1>7. (\A g \in Fetch : AnswerSound(fetch[g]))' /\ (\A q \in Proc : written[q] <= height)'
  BY <1>1, EndAnswered
<1>8. PageKept("rows") /\ PageKept("cert")
  BY <1>1, <1>3, EndKept DEF Shows
<1>9. BehindIsInFlight'
  <2>1. ASSUME NEW b \in behind'
        PROVE  /\ b[1] \in Fetch /\ b[1] # f
               /\ \/ b \in behind
                  \/ fetch[b[1]].page = b[2]
                  \/ fetch[b[1]].page = "data" /\ b[2] = "cert"
    <3>1. b[1] \in Fetch /\ b[2] \in Shows /\ b = <<b[1], b[2]>>
      BY <1>3
    <3>2. b[2] # "history" => b \in behind
      BY <1>3, <3>1
    <3>3. b[2] # "history" => b[1] # f
      BY <1>1, <3>2 DEF PagesInv, BehindIsInFlight
    <3>4. b[2] = "history" => b[1] # f /\ (b \in behind \/ b[1] \in Before(f, "history"))
      BY <1>3, <3>1
    <3>5. b[1] \in Before(f, "history") => fetch[b[1]].page = "history"
      BY DEF Before
    <3> QED BY <3>1, <3>2, <3>3, <3>4, <3>5
  <2> QED BY <1>1, <2>1, EndInFlight
<1>10. DataOvertaken'
  BY <1>1, <1>3, EndData DEF Shows
<1>11. RowsSound' /\ StatusIsConsistent'
  BY <1>1, <1>8, RowsKept DEF PagesInv, StatusIsConsistent
<1>12. CertSound'
  <2>1. \A g \in Fetch : fetch[g].page = "cert" => fetch'[g].first = fetch[g].first
    BY <1>1, EndFacts
  <2> QED BY <1>1, <1>8, <2>1, CertKept DEF PagesInv
<1>13. HistorySound'
  <2>1. \A g \in Fetch : g # f /\ fetch[g].page = "history" =>
            (<<g, "history">> \in behind' <=> <<g, "history">> \in behind \/ g \in ahead[f])
    BY <1>3 DEF Before, Shows
  <2>2. /\ Latest(f, "history") => AllBehind("history")' /\ <<f, "history">> \notin behind
        /\ \A g \in Fetch : Latest(g, "history") /\ g # f => Latest(g, "history")' /\ fetch'[g] = fetch[g]
        /\ AllBehind("history") => AllBehind("history")'
    BY <1>1, <2>1, Overtakes
  <2>3. CASE typed
    BY <1>1, <2>3 DEF HistorySound
  <2>4. CASE \E g \in Fetch : Latest(g, "history") /\ fetch[g].of = heading
    <3>1. PICK g \in Fetch : Latest(g, "history") /\ fetch[g].of = heading
      BY <2>4
    <3>2. CASE g = f
      BY <1>1, <2>2, <3>1, <3>2 DEF HistorySound
    <3>3. CASE g # f
      BY <1>1, <2>2, <3>1, <3>3 DEF HistorySound
    <3> QED BY <3>2, <3>3
  <2>5. CASE AllBehind("history") /\ (history.of = heading \/ unheard \/ outdated["history"])
    BY <1>1, <2>2, <2>5 DEF HistorySound
  <2> QED BY <2>3, <2>4, <2>5 DEF PagesInv, HistorySound
<1> QED BY <1>6, <1>7, <1>9, <1>10, <1>11, <1>12, <1>13 DEF PagesInv

LEMMA RowsArriveInv == ASSUME PagesInv, NEW f \in Fetch, RowsArrive(f) PROVE PagesInv'
<1>1. /\ fetch[f].page = "rows" /\ Arrives(f, "rows") /\ Ends(f)
      /\ \/ rows' = fetch[f].of /\ rowsError' = rowsError
         \/ rowsError' = TRUE /\ rows' = rows
      /\ UNCHANGED <<height, written, heading, history, shown, typed, unheard, data, cert, missed, filter>>
  BY DEF RowsArrive, processPage, explorer
<1>2. /\ outdated' \in [Shows -> BOOLEAN]
      /\ outdated'["rows"] <=> <<f, "rows">> \in behind
      /\ \A s \in Shows : s # "rows" => outdated'[s] = outdated[s]
      /\ behind' \subseteq Fetch \X Shows
      /\ \A g \in Fetch, s \in Shows :
            <<g, s>> \in behind' <=>
               IF s = "rows" THEN g # f /\ (<<g, s>> \in behind \/ g \in Before(f, "rows"))
               ELSE <<g, s>> \in behind
  BY <1>1, ArrivesFacts DEF Shows
<1>3. QueueOK(fetch', ahead')
  BY <1>1, EndFacts
<1>4. RestOK'
  <2>1. fetch[f].of \in Filter
    BY <1>1 DEF PagesInv, AnswerSound
  <2>2. rows' \in Filter \cup {Blank} /\ rowsError' \in BOOLEAN
    BY <1>1, <2>1, PagesTypeParts DEF PagesInv, RestOK
  <2> QED BY <1>1, <1>2, <2>2, PagesTypeParts DEF PagesInv, RestOK
<1>5. PagesTypeOK'
  BY <1>3, <1>4, PagesTypeParts
<1>6. (\A g \in Fetch : AnswerSound(fetch[g]))' /\ (\A q \in Proc : written[q] <= height)'
  BY <1>1, EndAnswered
<1>7. PageKept("history") /\ PageKept("cert")
  BY <1>1, <1>2, EndKept DEF Shows
<1>8. BehindIsInFlight'
  <2>1. ASSUME NEW b \in behind'
        PROVE  /\ b[1] \in Fetch /\ b[1] # f
               /\ \/ b \in behind
                  \/ fetch[b[1]].page = b[2]
                  \/ fetch[b[1]].page = "data" /\ b[2] = "cert"
    <3>1. b[1] \in Fetch /\ b[2] \in Shows /\ b = <<b[1], b[2]>>
      BY <1>2
    <3>2. b[2] # "rows" => b \in behind
      BY <1>2, <3>1
    <3>3. b[2] # "rows" => b[1] # f
      BY <1>1, <3>2 DEF PagesInv, BehindIsInFlight
    <3>4. b[2] = "rows" => b[1] # f /\ (b \in behind \/ b[1] \in Before(f, "rows"))
      BY <1>2, <3>1
    <3>5. b[1] \in Before(f, "rows") => fetch[b[1]].page = "rows"
      BY DEF Before
    <3> QED BY <3>1, <3>2, <3>3, <3>4, <3>5
  <2> QED BY <1>1, <2>1, EndInFlight
<1>9. DataOvertaken'
  BY <1>1, <1>2, EndData DEF Shows
<1>10. HistorySound' /\ StatusIsConsistent'
  BY <1>1, <1>2, <1>7, HistoryKept DEF PagesInv, StatusIsConsistent, Shows
<1>11. CertSound'
  <2>1. \A g \in Fetch : fetch[g].page = "cert" => fetch'[g].first = fetch[g].first
    BY <1>1, EndFacts
  <2> QED BY <1>1, <1>2, <1>7, <2>1, CertKept DEF PagesInv, Shows
<1>12. RowsSound'
  <2>1. \A g \in Fetch : g # f /\ fetch[g].page = "rows" =>
            (<<g, "rows">> \in behind' <=> <<g, "rows">> \in behind \/ g \in ahead[f])
    BY <1>2 DEF Before, Shows
  <2>2. /\ Latest(f, "rows") => AllBehind("rows")'
        /\ \A g \in Fetch : Latest(g, "rows") /\ g # f => Latest(g, "rows")' /\ fetch'[g] = fetch[g]
        /\ AllBehind("rows") => AllBehind("rows")' /\ <<f, "rows">> \in behind
    BY <1>1, <2>1, Overtakes
  <2>4. CASE \E g \in Fetch : Latest(g, "rows") /\ fetch[g].of = filter
    <3>1. PICK g \in Fetch : Latest(g, "rows") /\ fetch[g].of = filter
      BY <2>4
    <3>2. CASE g = f
      BY <1>1, <2>2, <3>1, <3>2 DEF RowsSound
    <3>3. CASE g # f
      BY <1>1, <2>2, <3>1, <3>3 DEF RowsSound
    <3> QED BY <3>2, <3>3
  <2>5. CASE AllBehind("rows")
    BY <1>2, <2>2, <2>5 DEF RowsSound
  <2> QED BY <2>4, <2>5 DEF PagesInv, RowsSound
<1> QED BY <1>5, <1>6, <1>8, <1>9, <1>10, <1>11, <1>12 DEF PagesInv

LEMMA RefreshArrivesInv == ASSUME PagesInv, NEW f \in Fetch, RefreshArrives(f) PROVE PagesInv'
<1>1. /\ fetch[f].page = "refresh" /\ Ends(f) /\ behind' = behind /\ outdated' = outdated
      /\ UNCHANGED <<height, written, heading, history, typed, unheard, data, cert, missed,
                     filter, rows, rowsError>>
  BY DEF RefreshArrives, processPage, dashboard, crossing
<1>2. QueueOK(fetch, ahead) /\ RestOK /\ AnswerSound(fetch[f])
  BY PagesTypeParts DEF PagesInv
<1>3. QueueOK(fetch', ahead')
  BY <1>1, EndFacts
<1>4. RestOK'
  BY <1>1, <1>2 DEF RestOK
<1>5. PagesTypeOK'
  BY <1>3, <1>4, PagesTypeParts
<1>6. (\A g \in Fetch : AnswerSound(fetch[g]))' /\ (\A q \in Proc : written[q] <= height)'
  BY <1>1, EndAnswered
<1>7. PageKept("history") /\ PageKept("cert") /\ PageKept("rows")
  BY <1>1, EndKept
<1>8. BehindIsInFlight'
  <2>1. \A b \in behind' : b[1] \in Fetch /\ b[1] # f /\ b \in behind
    BY <1>1, <1>2 DEF PagesInv, BehindIsInFlight, RestOK, Shows
  <2> QED BY <1>1, <2>1, EndInFlight
<1>9. DataOvertaken'
  BY <1>1, EndData
<1>10. HistorySound' /\ RowsSound'
  BY <1>1, <1>7, HistoryKept, RowsKept DEF PagesInv
<1>11. CertSound'
  <2>1. \A g \in Fetch : fetch[g].page = "cert" => fetch'[g].first = fetch[g].first
    BY <1>1, EndFacts
  <2> QED BY <1>1, <1>7, <2>1, CertKept DEF PagesInv
<1>12. StatusIsConsistent'
  <2>1. fetch[f] \in FetchRow /\ height \in Nat
    BY <1>2, RestBounds DEF QueueOK
  <2>2. /\ fetch[f].first.n \in Nat /\ fetch[f].first.m \in Nat /\ fetch[f].second.n \in Nat
        /\ fetch[f].since \in Nat
    BY <2>1, RowTypes, OutcomeTypes
  <2>3. CASE /\ fetch[f].first.is = "ok" /\ fetch[f].second.is = "ok"
             /\ shown' = [tip |-> fetch[f].first.n, count |-> fetch[f].first.m,
                          top |-> fetch[f].second.n, grew |-> height # fetch[f].since]
    <3>1. PICK grown : grown = (height # fetch[f].since)
      OBVIOUS
    <3>2. /\ shown'.tip = fetch[f].first.n /\ shown'.count = fetch[f].first.m
          /\ shown'.top = fetch[f].second.n /\ shown'.grew = grown
      BY <2>3, <3>1
    <3>3. /\ fetch[f].since <= fetch[f].first.n /\ fetch[f].first.n <= fetch[f].first.m
          /\ fetch[f].first.m <= height
          /\ fetch[f].since <= fetch[f].second.n /\ fetch[f].second.n <= height
      BY <1>1, <1>2, <2>3 DEF AnswerSound
    <3>4. height = fetch[f].since => fetch[f].first.n = fetch[f].second.n
      BY <2>1, <2>2, <3>3
    <3>5. shown'.grew \/ shown'.tip = shown'.top
      BY <3>1, <3>2, <3>4
    <3> QED BY <3>2, <3>3, <3>5 DEF StatusIsConsistent
  <2>4. CASE shown' = [tip |-> 0, count |-> 0, top |-> 0, grew |-> FALSE]
    BY <2>4 DEF StatusIsConsistent
  <2> QED BY <2>3, <2>4 DEF RefreshArrives
<1> QED BY <1>5, <1>6, <1>8, <1>9, <1>10, <1>11, <1>12 DEF PagesInv

LEMMA CertificateArrivesInv ==
    ASSUME PagesInv, NEW f \in Fetch, CertificateArrives(f)
    PROVE  PagesInv'
<1>1. /\ fetch[f].page = "cert" /\ Arrives(f, "cert") /\ Ends(f)
      /\ UNCHANGED <<height, written, heading, history, shown, typed, unheard, data, filter, rows, rowsError>>
  BY DEF CertificateArrives, dashboard, explorer
<1>a. \/ fetch[f].first.is = "ok" /\ cert' = fetch[f].first.n /\ missed' = FALSE
      \/ missed' = TRUE /\ cert' = cert
  BY DEF CertificateArrives
<1>2. /\ outdated' \in [Shows -> BOOLEAN]
      /\ outdated'["cert"] <=> <<f, "cert">> \in behind
      /\ \A s \in Shows : s # "cert" => outdated'[s] = outdated[s]
      /\ behind' \subseteq Fetch \X Shows
      /\ \A g \in Fetch, s \in Shows :
            <<g, s>> \in behind' <=>
               IF s = "cert"
               THEN g # f /\ (<<g, s>> \in behind \/ g \in Before(f, "cert") \/ g \in Before(f, "data"))
               ELSE <<g, s>> \in behind
  BY <1>1, ArrivesFacts DEF Shows
<1>b. \A g, part : g \in Before(f, part) <=> g \in ahead[f] /\ fetch[g].page = part
  BY DEF Before
<1>3. QueueOK(fetch', ahead')
  BY <1>1, EndFacts
<1>4. RestOK'
  <2>1. fetch[f].first.is = "ok" => fetch[f].first.n \in 0..FinalCount
    <3>1. AnswerSound(fetch[f]) /\ fetch[f] \in FetchRow /\ RestOK
      BY PagesTypeParts DEF PagesInv, QueueOK
    <3>2. fetch[f].first.n \in Nat
      BY <3>1, RowTypes, OutcomeTypes
    <3>3. PICK w : w = written[Visited]
      OBVIOUS
    <3>4. w \in Nat /\ w <= FinalCount /\ FinalCount \in Nat
      BY <3>1, <3>3, RestBounds, PageTypes
    <3>5. fetch[f].first.is = "ok" => fetch[f].first.n <= w
      BY <1>1, <3>1, <3>3 DEF AnswerSound
    <3> QED BY <3>2, <3>4, <3>5
  <2>2. cert' \in 0..FinalCount /\ missed' \in BOOLEAN
    BY <1>a, <2>1, PagesTypeParts DEF PagesInv, RestOK
  <2> QED BY <1>1, <1>2, <2>2, PagesTypeParts DEF PagesInv, RestOK
<1>5. PagesTypeOK'
  BY <1>3, <1>4, PagesTypeParts
<1>6. (\A g \in Fetch : AnswerSound(fetch[g]))' /\ (\A q \in Proc : written[q] <= height)'
  BY <1>1, EndAnswered
<1>7. PageKept("history") /\ PageKept("rows")
  BY <1>1, <1>2, EndKept DEF Shows
<1>8. BehindIsInFlight'
  <2>1. ASSUME NEW b \in behind'
        PROVE  /\ b[1] \in Fetch /\ b[1] # f
               /\ \/ b \in behind
                  \/ fetch[b[1]].page = b[2]
                  \/ fetch[b[1]].page = "data" /\ b[2] = "cert"
    <3>1. b[1] \in Fetch /\ b[2] \in Shows /\ b = <<b[1], b[2]>>
      BY <1>2
    <3>2. b[2] # "cert" => b \in behind
      BY <1>2, <3>1
    <3>3. b[2] # "cert" => b[1] # f
      BY <1>1, <3>2 DEF PagesInv, BehindIsInFlight
    <3>4. b[2] = "cert" =>
              b[1] # f /\ (b \in behind \/ b[1] \in Before(f, "cert") \/ b[1] \in Before(f, "data"))
      BY <1>2, <3>1
    <3>5. /\ b[1] \in Before(f, "cert") => fetch[b[1]].page = "cert"
          /\ b[1] \in Before(f, "data") => fetch[b[1]].page = "data"
      BY <1>b
    <3> QED BY <3>1, <3>2, <3>3, <3>4, <3>5
  <2> QED BY <1>1, <2>1, EndInFlight
<1>9. DataOvertaken'
  <2>1. \A g \in Fetch : <<g, "data">> \in behind => <<g, "data">> \in behind'
    BY <1>2 DEF Shows
  <2>2. \A g \in Fetch : g # f /\ fetch[g].page = "data" =>
            (<<g, "cert">> \in behind' => \/ <<g, "cert">> \in behind
                                          \/ fetch[f].page = "cert" /\ g \in ahead[f])
    BY <1>1, <1>2, <1>b DEF Shows
  <2> QED BY <1>1, <2>1, <2>2, EndData
<1>10. HistorySound' /\ RowsSound' /\ StatusIsConsistent'
  BY <1>1, <1>2, <1>7, HistoryKept, RowsKept DEF PagesInv, StatusIsConsistent, Shows
<1>12. CertSound'
  <2>1. \A g \in Fetch : g # f /\ fetch[g].page = "cert" =>
            (<<g, "cert">> \in behind' <=> <<g, "cert">> \in behind \/ g \in ahead[f])
    BY <1>2, <1>b DEF Shows
  <2>2. /\ Latest(f, "cert") => AllBehind("cert")'
        /\ \A g \in Fetch : Latest(g, "cert") /\ g # f => Latest(g, "cert")' /\ fetch'[g] = fetch[g]
        /\ AllBehind("cert") => AllBehind("cert")' /\ <<f, "cert">> \in behind
    BY <1>1, <2>1, Overtakes
  <2> SUFFICES ASSUME data = FinalCount, ~outdated["data"]
      PROVE  /\ written[Visited] = FinalCount
             /\ \/ \E g \in Fetch :
                     /\ Latest(g, "cert")'
                     /\ fetch'[g].first.is = "ok" => fetch'[g].first.n = FinalCount
                \/ AllBehind("cert")' /\ (cert' = FinalCount \/ missed' \/ outdated'["cert"])
    BY <1>1, <1>2 DEF CertSound, Shows
  <2>3. written[Visited] = FinalCount
    BY DEF PagesInv, CertSound
  <2>4. CASE \E g \in Fetch : Latest(g, "cert") /\ (fetch[g].first.is = "ok" => fetch[g].first.n = FinalCount)
    <3>1. PICK g \in Fetch : Latest(g, "cert") /\ (fetch[g].first.is = "ok" => fetch[g].first.n = FinalCount)
      BY <2>4
    <3>2. CASE g = f
      BY <1>a, <2>2, <2>3, <3>1, <3>2
    <3>3. CASE g # f
      BY <2>2, <2>3, <3>1, <3>3
    <3> QED BY <3>2, <3>3
  <2>5. CASE AllBehind("cert")
    BY <1>2, <2>2, <2>3, <2>5
  <2> QED BY <2>4, <2>5 DEF PagesInv, CertSound
<1> QED BY <1>5, <1>6, <1>8, <1>9, <1>10, <1>12 DEF PagesInv

\* The data of a load could not be read: it is over.
LEMMA DataFailsInv ==
    ASSUME PagesInv, NEW f \in Fetch, fetch[f].page = "data", Ends(f),
           behind' = behind \ {<<f, "data">>, <<f, "cert">>},
           UNCHANGED <<data, outdated, height, written, explorer, cert, missed, dashboard>>
    PROVE  PagesInv'
<1>1. UNCHANGED <<height, written, heading, history, shown, typed, unheard, data, outdated, cert, missed,
                  filter, rows, rowsError>>
  BY DEF explorer, dashboard
<1>2. QueueOK(fetch, ahead) /\ RestOK
  BY PagesTypeParts DEF PagesInv
<1>3. QueueOK(fetch', ahead')
  BY <1>1, EndFacts
<1>4. RestOK'
  BY <1>1, <1>2 DEF RestOK
<1>5. PagesTypeOK'
  BY <1>3, <1>4, PagesTypeParts
<1>6. (\A g \in Fetch : AnswerSound(fetch[g]))' /\ (\A q \in Proc : written[q] <= height)'
  BY <1>1, EndAnswered
<1>7. /\ \A g \in Fetch : <<g, "history">> \in behind' <=> <<g, "history">> \in behind
      /\ \A g \in Fetch : <<g, "rows">> \in behind' <=> <<g, "rows">> \in behind
      /\ \A g \in Fetch : \A s : g # f => (<<g, s>> \in behind' <=> <<g, s>> \in behind)
  OBVIOUS
<1>8. PageKept("history") /\ PageKept("rows")
  BY <1>7, EndKept
<1>9. BehindIsInFlight'
  <2>1. ASSUME NEW b \in behind' PROVE b[1] \in Fetch /\ b[1] # f /\ b \in behind
    <3>1. b \in behind /\ b[1] \in Fetch /\ b[2] \in Shows /\ b = <<b[1], b[2]>>
      BY <1>2 DEF RestOK
    <3>2. \/ fetch[b[1]].page = b[2]
          \/ fetch[b[1]].page = "data" /\ b[2] = "cert"
      BY <3>1 DEF PagesInv, BehindIsInFlight
    <3>3. b[1] # f
      BY <3>1, <3>2
    <3> QED BY <3>1, <3>3
  <2> QED BY <1>1, <2>1, EndInFlight
<1>10. DataOvertaken'
  BY <1>7, EndData
<1>11. HistorySound' /\ RowsSound' /\ StatusIsConsistent'
  BY <1>1, <1>8, HistoryKept, RowsKept DEF PagesInv, StatusIsConsistent
<1>12. CertSound'
  <2>1. /\ fetch'[f].page = "none"
        /\ \A g \in Fetch : g # f => fetch'[g] = fetch[g] /\ ahead'[g] = ahead[g] \ {f}
    BY EndFacts
  <2>2. ASSUME NEW g \in Fetch, Latest(g, "cert") PROVE Latest(g, "cert")' /\ fetch'[g] = fetch[g]
    <3>1. g # f /\ fetch[g].page = "cert" /\ <<g, "cert">> \notin behind
      BY <2>2 DEF Latest
    <3>2. fetch'[g] = fetch[g] /\ <<g, "cert">> \notin behind'
      BY <2>1, <3>1
    <3>3. \A h \in Fetch : fetch'[h].page = "cert" => h = g \/ h \in ahead'[g]
      <4> SUFFICES ASSUME NEW h \in Fetch, fetch'[h].page = "cert" PROVE h = g \/ h \in ahead'[g]
        OBVIOUS
      <4>1. h # f /\ fetch[h].page = "cert"
        BY <2>1
      <4>2. h = g \/ h \in ahead[g]
        BY <2>2, <4>1 DEF Latest
      <4> QED BY <2>1, <3>1, <4>1, <4>2
    <3> QED BY <3>1, <3>2, <3>3 DEF Latest
  <2>3. ASSUME AllBehind("cert") PROVE AllBehind("cert")'
    <3>1. ASSUME NEW h \in Fetch, fetch'[h].page = "cert" PROVE <<h, "cert">> \in behind'
      <4>1. h # f /\ fetch[h].page = "cert"
        BY <2>1, <3>1
      <4>2. <<h, "cert">> \in behind
        BY <2>3, <4>1 DEF AllBehind
      <4> QED BY <1>7, <4>1, <4>2
    <3> QED BY <3>1 DEF AllBehind
  <2> QED BY <1>1, <2>2, <2>3 DEF PagesInv, CertSound
<1> QED BY <1>5, <1>6, <1>9, <1>10, <1>11, <1>12 DEF PagesInv

LEMMA DataAnsweredInv ==
    ASSUME PagesInv, NEW f \in Fetch, fetch[f].page = "data",
           fetch[f].first.is = "ok", data' = fetch[f].first.n,
           fetch' = [fetch EXCEPT ![f] = [@ EXCEPT !.page = "cert", !.first = Waiting]],
           Arrives(f, "data"),
           UNCHANGED <<ahead, height, written, explorer, cert, missed, dashboard>>
    PROVE  PagesInv'
<1>1. UNCHANGED <<height, written, ahead, heading, history, shown, typed, unheard, cert, missed,
                  filter, rows, rowsError>>
  BY DEF explorer, dashboard
<1>2. QueueOK(fetch, ahead) /\ RestOK /\ AnswerSound(fetch[f]) /\ fetch[f] \in FetchRow
  BY PagesTypeParts DEF PagesInv, QueueOK
<1>3. PICK old : old = fetch[f]
  OBVIOUS
<1>4. PICK row : row = [old EXCEPT !.page = "cert", !.first = Waiting]
  OBVIOUS
<1>5. row \in FetchRow /\ row.page = "cert" /\ row.first = Waiting /\ row.of = old.of
  BY <1>2, <1>3, <1>4, PageTypes DEF FetchRow
<1>6. fetch' = [fetch EXCEPT ![f] = row]
  BY <1>3, <1>4
<1>7. /\ fetch' \in [Fetch -> FetchRow] /\ fetch'[f] = row
      /\ \A g \in Fetch : g # f => fetch'[g] = fetch[g]
  BY <1>2, <1>5, <1>6 DEF QueueOK
<1>8. \A g \in Fetch : fetch'[g].page = "none" <=> fetch[g].page = "none"
  BY <1>5, <1>7
<1>9. QueueOK(fetch', ahead')
  BY <1>1, <1>2, <1>7, <1>8 DEF QueueOK
<1>10. fetch[f].first.n \in Nat /\ fetch[f].first.n <= written[Visited] /\ fetch[f].first.n <= FinalCount
  <2>1. fetch[f].first.n \in Nat
    BY <1>2, RowTypes, OutcomeTypes
  <2>2. fetch[f].first.n <= written[Visited]
    BY <1>2 DEF AnswerSound
  <2>3. written[Visited] \in Nat /\ written[Visited] <= FinalCount /\ FinalCount \in Nat
    BY <1>2, RestBounds, PageTypes
  <2> QED BY <2>1, <2>2, <2>3
<1>11. /\ outdated' \in [Shows -> BOOLEAN]
       /\ outdated'["data"] <=> <<f, "data">> \in behind
       /\ \A s \in Shows : s # "data" => outdated'[s] = outdated[s]
       /\ behind' \subseteq Fetch \X Shows
       /\ \A g \in Fetch, s \in Shows :
             <<g, s>> \in behind' <=>
                IF s = "data" THEN g # f /\ (<<g, s>> \in behind \/ g \in Before(f, "data"))
                ELSE <<g, s>> \in behind
  BY ArrivesFacts DEF Shows
<1>12. RestOK'
  <2>1. data' \in 0..FinalCount
    BY <1>10, PageTypes
  <2> QED BY <1>1, <1>2, <1>11, <2>1 DEF RestOK
<1>13. PagesTypeOK'
  BY <1>9, <1>12, PagesTypeParts
<1>14. (\A g \in Fetch : AnswerSound(fetch[g]))' /\ (\A q \in Proc : written[q] <= height)'
  <2>1. AnswerSound(fetch[f])'
    <3>1. Waiting.is = "waiting" /\ Waiting.n = 0
      BY DEF Waiting
    <3>2. fetch[f].of = Visited
      BY <1>2 DEF AnswerSound
    <3> QED BY <1>3, <1>5, <1>7, <3>1, <3>2 DEF AnswerSound
  <2>2. ASSUME NEW g \in Fetch, g # f PROVE AnswerSound(fetch[g])'
    <3>1. fetch'[g] = fetch[g] /\ AnswerSound(fetch[g])
      BY <1>7, <2>2 DEF PagesInv
    <3> QED BY <1>1, <3>1 DEF AnswerSound
  <2> QED BY <1>1, <2>1, <2>2 DEF PagesInv
<1>15. PageKept("history") /\ PageKept("rows")
  <2>1. ASSUME NEW other \in {"history", "rows"} PROVE PageKept(other)
    <3>1. \A g \in Fetch : fetch'[g].page = other <=> fetch[g].page = other
      BY <1>5, <1>7
    <3>2. \A g \in Fetch : fetch[g].page = other => fetch'[g].of = fetch[g].of
      BY <1>7
    <3>3. \A g \in Fetch : <<g, other>> \in behind' <=> <<g, other>> \in behind
      BY <1>11 DEF Shows
    <3> QED BY <1>1, <3>1, <3>2, <3>3 DEF PageKept
  <2> QED BY <2>1
<1>16. BehindIsInFlight'
  <2>1. ASSUME NEW b \in behind'
        PROVE  \/ fetch'[b[1]].page = b[2]
               \/ fetch'[b[1]].page = "data" /\ b[2] = "cert"
    <3>1. b[1] \in Fetch /\ b[2] \in Shows /\ b = <<b[1], b[2]>>
      BY <1>11
    <3>2. CASE b[2] = "data"
      <4>1. b[1] # f /\ (b \in behind \/ b[1] \in Before(f, "data"))
        BY <1>11, <3>1, <3>2
      <4>2. fetch[b[1]].page = "data"
        BY <3>2, <4>1 DEF PagesInv, BehindIsInFlight, Before
      <4> QED BY <1>7, <3>1, <3>2, <4>1, <4>2
    <3>3. CASE b[2] # "data"
      <4>1. b \in behind
        BY <1>11, <3>1, <3>3
      <4>2. \/ fetch[b[1]].page = b[2]
            \/ fetch[b[1]].page = "data" /\ b[2] = "cert"
        BY <4>1 DEF PagesInv, BehindIsInFlight
      <4>3. CASE b[1] = f
        BY <1>5, <1>7, <3>1, <3>3, <4>2, <4>3
      <4>4. CASE b[1] # f
        BY <1>7, <3>1, <4>2, <4>4
      <4> QED BY <4>3, <4>4
    <3> QED BY <3>2, <3>3
  <2> QED BY <2>1 DEF BehindIsInFlight
<1>17. DataOvertaken'
  <2> SUFFICES ASSUME NEW g \in Fetch, fetch'[g].page = "data"
      PROVE  /\ (\E h \in Fetch : fetch'[h].page = "cert" /\ g \in ahead'[h]) => <<g, "data">> \in behind'
             /\ <<g, "cert">> \in behind' => <<g, "data">> \in behind'
    BY DEF DataOvertaken
  <2>1. g # f /\ fetch[g].page = "data"
    BY <1>5, <1>7
  <2>2. /\ \A h \in Fetch : fetch[h].page = "cert" /\ g \in ahead[h] => <<g, "data">> \in behind
        /\ <<g, "cert">> \in behind => <<g, "data">> \in behind
    BY <2>1 DEF PagesInv, DataOvertaken
  <2>3. <<g, "data">> \in behind => <<g, "data">> \in behind'
    BY <1>11, <2>1 DEF Shows
  <2>4. g \in ahead[f] => <<g, "data">> \in behind'
    BY <1>11, <2>1 DEF Before, Shows
  <2>5. ASSUME NEW h \in Fetch, fetch'[h].page = "cert", g \in ahead'[h] PROVE <<g, "data">> \in behind'
    <3>1. CASE h = f
      BY <1>1, <2>4, <2>5, <3>1
    <3>2. CASE h # f
      BY <1>1, <1>7, <2>2, <2>3, <2>5, <3>2
    <3> QED BY <3>1, <3>2
  <2>6. <<g, "cert">> \in behind' <=> <<g, "cert">> \in behind
    BY <1>11 DEF Shows
  <2> QED BY <2>2, <2>3, <2>5, <2>6
<1>18. HistorySound' /\ RowsSound' /\ StatusIsConsistent'
  BY <1>1, <1>11, <1>15, HistoryKept, RowsKept DEF PagesInv, StatusIsConsistent, Shows
<1>19. CertSound'
  <2> SUFFICES ASSUME data' = FinalCount, ~outdated'["data"]
      PROVE  written'[Visited] = FinalCount /\ Latest(f, "cert")' /\ fetch'[f].first.is # "ok"
    BY DEF CertSound
  <2>1. written'[Visited] = FinalCount
    <3>1. written[Visited] \in Nat /\ written[Visited] <= FinalCount /\ FinalCount \in Nat
      BY <1>2, RestBounds, PageTypes
    <3> QED BY <1>1, <1>10, <3>1
  <2>2. <<f, "data">> \notin behind
    BY <1>11
  <2>3. /\ \A h \in Fetch : fetch[h].page = "cert" => f \notin ahead[h]
        /\ <<f, "cert">> \notin behind
    BY <2>2 DEF PagesInv, DataOvertaken
  <2>4. <<f, "cert">> \notin behind'
    BY <1>11, <2>3 DEF Shows
  <2>5. \A h \in Fetch : fetch'[h].page = "cert" => h = f \/ h \in ahead'[f]
    <3> SUFFICES ASSUME NEW h \in Fetch, fetch'[h].page = "cert", h # f PROVE h \in ahead[f]
      BY <1>1
    <3>1. fetch[h].page = "cert" /\ f \notin ahead[h]
      BY <1>7, <2>3
    <3> QED BY <1>2, <3>1 DEF QueueOK
  <2>6. fetch'[f].page = "cert" /\ fetch'[f].first.is # "ok"
    BY <1>5, <1>7 DEF Waiting
  <2> QED BY <2>1, <2>4, <2>5, <2>6 DEF Latest
<1> QED BY <1>13, <1>14, <1>16, <1>17, <1>18, <1>19 DEF PagesInv

LEMMA PagesStep == PagesInv /\ [PagesNext]_pagesVars => PagesInv'
<1> SUFFICES ASSUME PagesInv, [PagesNext]_pagesVars PROVE PagesInv'
  OBVIOUS
<1>1. CASE RecordElse \/ \E p \in Proc : RecordOf(p)
  BY <1>1, RecordInv
<1>2. CASE Serve
  BY <1>2, ServeInv
<1>3. CASE Explore
  BY <1>3, TypeHeadingInv, LoadHistoryInv, HistoryArrivesInv, HistoryIsLostInv DEF Explore
<1>4. CASE FollowChain
  BY <1>4, RefreshInv, RefreshArrivesInv DEF FollowChain
<1>5. CASE FollowProcess
  <2>1. ASSUME NEW f \in Fetch, DataArrives(f) PROVE PagesInv'
    BY <2>1, DataAnsweredInv, DataFailsInv DEF DataArrives
  <2> QED BY <1>5, <2>1, LoadProcessInv, CertificateArrivesInv DEF FollowProcess
<1>6. CASE Watch
  BY <1>6, RowsArriveInv, ChooseFilterInv DEF Watch
<1>7. CASE UNCHANGED pagesVars
  <2>1. /\ UNCHANGED <<height, written, fetch, ahead, heading, history, shown, typed, unheard,
                       data, cert, missed, filter, rows, rowsError, behind, outdated>>
    BY <1>7 DEF pagesVars, inFlight, explorer, processPage, dashboard, crossing
  <2>2. PagesTypeOK'
    BY <2>1 DEF PagesInv, PagesTypeOK
  <2>3. HistorySound' /\ RowsSound'
    BY <2>1 DEF PagesInv, HistorySound, RowsSound, Latest, AllBehind
  <2>4. CertSound' /\ DataOvertaken'
    BY <2>1 DEF PagesInv, CertSound, DataOvertaken, Latest, AllBehind
  <2>5. (\A g \in Fetch : AnswerSound(fetch[g]))' /\ (\A q \in Proc : written[q] <= height)'
    BY <2>1 DEF PagesInv, AnswerSound
  <2>6. BehindIsInFlight' /\ StatusIsConsistent'
    BY <2>1 DEF PagesInv, BehindIsInFlight, StatusIsConsistent
  <2> QED BY <2>2, <2>3, <2>4, <2>5, <2>6 DEF PagesInv
<1> QED BY <1>1, <1>2, <1>3, <1>4, <1>5, <1>6, <1>7 DEF PagesNext

\* The pages of the portal, for any journal, processes, filters and number of fetches in flight:
\* with nothing in flight a page shows what it is headed, the status and the list of the chain
\* agree, and a finished process stands with its certificate, in whatever order answers come, fail
\* or are lost; the named exceptions are a heading edited, a connection broken, and an answer
\* shown that one asked for later had overtaken.
THEOREM PagesSpecShowsWhatIsSo == PagesSpec => []PagesShowWhatIsSo
<1>1. PagesInit => PagesInv
  BY PagesInitInv
<1>2. PagesInv /\ [PagesNext]_pagesVars => PagesInv'
  BY PagesStep
<1>3. PagesInv => PagesShowWhatIsSo
  BY PagesImply
<1> QED BY <1>1, <1>2, <1>3, PTL DEF PagesSpec
=============================================================================
