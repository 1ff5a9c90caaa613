---------------------------- MODULE PortalHandoff ----------------------------
(***************************************************************************)
(* The hand-off of a process from the portal to the core.  Three programs  *)
(* take part, and each may lose what the others hold:                      *)
(*   edge  ProcessesService (portal/backend) keeps a record per process    *)
(*         and per idempotency key and saves both to a file at each change *)
(*   core  OrchestratorService behind its HTTP API; only the journal       *)
(*         outlives a restart                                              *)
(*   page  the process page of the browser, which polls until it has seen  *)
(*         the verdict and the mint                                        *)
(*                                                                         *)
(* A handler of the edge runs for one request of the browser and waits for *)
(* one call to the core at a time (handler[h].at):                         *)
(*   create, continue, recreate, get, resume (the get's own continue)      *)
(* A call is sent, is run by the core, is answered; a handler that gave up *)
(* after the timeout leaves a call the core goes on with to an orphan.     *)
(* The core's pipeline is reduced to the records the portal sees; its own  *)
(* hazards are those of PrimaryPipeline.                                   *)
(*                                                                         *)
(* Bounds: one page; MaxRestarts restarts of the edge; MaxFaults restarts  *)
(* of the core, timeouts, failed saves, rejected or failed runs, in any    *)
(* mix; one orphan per element of Orphan; the handlers of Watcher serve    *)
(* the page's loads only; packages in Second are attached to a process     *)
(* created with another.                                                   *)
(***************************************************************************)
EXTENDS Naturals, FiniteSets

CONSTANTS Key,      \* idempotency keys of one institution
          Pid,      \* process ids the edge makes, in this order
          Hash,     \* document packages
          Second,   \* those attached later
          Handler, Watcher, Orphan,
          None,
          MaxFaults, MaxRestarts

ASSUME HandoffAssumption ==
    /\ Pid \subseteq Nat
    /\ Second \subseteq Hash /\ Watcher \subseteq Handler /\ Handler \cap Orphan = {}
    /\ MaxFaults \in Nat /\ MaxRestarts \in Nat

VARIABLES byId, byIdem, disk, sessions,  \* edge; disk is the file of the store
          handler,                       \* its suspended requests
          call,                          \* its calls to the core
          facts, registered, keys,       \* core: journal, its registration of
                                         \* the package, keys in memory
          page,
          faults, restarts,
          unsaved,   \* ghost: a save has failed
          cut,       \* ghost: processes with a run that ended short of open
          late       \* ghost: processes with a package attached after hand-off

edge == <<byId, byIdem, disk>>
core == <<facts, registered, keys>>
ghosts == <<unsaved, cut, late>>
faulted == <<faults, restarts>>
vars == <<edge, sessions, handler, call, core, page, faulted, ghosts>>

Caller == Handler \cup Orphan

Record == [status : {"awaiting_core", "submitted_to_core"}, hash : Hash, key : Key]
Claim == [pid : Pid, hash : Hash]             \* what a key stands for at the edge
Registration == [key : Key, hash : Hash]      \* what the core took over at open

ASSUME NoneIsNoValue == None \notin Pid \cup Key \cup Hash \cup Record \cup Claim \cup Registration

Fact == {"start", "open", "verdict0", "verdict1", "mint", "abort"}

\* What a status read shows of a process.
View == [pot : BOOLEAN, mint : BOOLEAN]
Nothing == [pot |-> FALSE, mint |-> FALSE]

Idle == [op |-> "none", at |-> "idle", pid |-> None]

Suspended == [op : {"none", "create", "retry", "load"},
              at : {"idle", "create", "continue", "recreate", "get", "resume"},
              pid : Pid \cup {None}]

Calls == [op : {"none", "create", "continue", "get"},
          at : {"none", "sent", "open", "pot", "mint", "answered"},
          pid : Pid \cup {None}, key : Key \cup {None}, hash : Hash \cup {None},
          code : {"none", "ok", "notfound", "error"}, view : View]

NoCall == [op |-> "none", at |-> "none", pid |-> None, key |-> None, hash |-> None,
           code |-> "none", view |-> Nothing]

TypeOK ==
    /\ byId \in [Pid -> Record \cup {None}]
    /\ byIdem \in [Key -> Claim \cup {None}]
    /\ disk.byId \in [Pid -> Record \cup {None}]
    /\ disk.byIdem \in [Key -> Claim \cup {None}]
    /\ sessions \in BOOLEAN
    /\ handler \in [Handler -> Suspended]
    /\ call \in [Caller -> Calls]
    /\ facts \in [Pid -> SUBSET Fact]
    /\ registered \in [Pid -> Registration \cup {None}]
    /\ keys \subseteq Key
    /\ page \in [pid : Pid \cup {None}, data : View]
    /\ faults \in 0..MaxFaults /\ restarts \in 0..MaxRestarts
    /\ unsaved \in BOOLEAN /\ cut \subseteq Pid /\ late \subseteq Pid

Init ==
    /\ byId = [p \in Pid |-> None] /\ byIdem = [k \in Key |-> None]
    /\ disk = [byId |-> byId, byIdem |-> byIdem]
    /\ sessions = TRUE
    /\ handler = [h \in Handler |-> Idle]
    /\ call = [c \in Caller |-> NoCall]
    /\ facts = [p \in Pid |-> {}] /\ registered = [p \in Pid |-> None] /\ keys = {}
    /\ page = [pid |-> None, data |-> Nothing]
    /\ faults = 0 /\ restarts = 0
    /\ unsaved = FALSE /\ cut = {} /\ late = {}

Fault ==
    /\ faults < MaxFaults /\ faults' = faults + 1
    /\ UNCHANGED restarts
-----------------------------------------------------------------------------
(***************************************************************************)
(* The core, as the portal sees it.                                        *)
(***************************************************************************)

\* The status read: the first verdict and the mint of the history.
Seen(p) == [pot |-> "verdict1" \in facts[p], mint |-> "mint" \in facts[p]]

Answer(c, code, view) ==
    call' = [call EXCEPT ![c] =
        IF c \in Orphan THEN NoCall
        ELSE [@ EXCEPT !.at = "answered", !.code = code, !.view = view]]

GoOn(c, at) == call' = [call EXCEPT ![c].at = at]

Running(c) == call[c].at \in {"open", "pot", "mint"}

Journal(p, fact) == facts' = [facts EXCEPT ![p] = @ \cup {fact}]

\* runPrimary: a used key is refused, an unused one is used before the limit of
\* concurrent processes is looked at; then comes the first record.
Admit(c) ==
    LET p == call[c].pid IN
    /\ call[c].op = "create" /\ call[c].at = "sent"
    /\ keys' = keys \cup {call[c].key}
    /\ \/ /\ call[c].key \in keys
          /\ Answer(c, "error", Nothing)
          /\ UNCHANGED <<facts, faulted, cut>>
       \/ /\ call[c].key \notin keys
          /\ Journal(p, "start") /\ GoOn(c, "open")
          /\ UNCHANGED <<faulted, cut>>
       \/ /\ call[c].key \notin keys /\ Fault
          /\ Answer(c, "error", Nothing)
          /\ cut' = cut \cup {p}
          /\ UNCHANGED facts
    /\ UNCHANGED <<edge, sessions, handler, registered, page, unsaved, late>>

\* continuePrimary: a minted process is complete, one that was never opened or
\* was aborted cannot go on, any other takes up where its records end.
Resume(c) ==
    LET known == facts[call[c].pid]
        stuck == "open" \notin known \/ ("abort" \in known /\ "verdict1" \notin known) IN
    /\ call[c].op = "continue" /\ call[c].at = "sent"
    /\ \/ known = {} /\ Answer(c, "notfound", Nothing)
       \/ "mint" \in known /\ Answer(c, "ok", Seen(call[c].pid))
       \/ /\ known # {} /\ "mint" \notin known
          /\ \/ stuck /\ Answer(c, "error", Nothing)
             \/ ~stuck /\ GoOn(c, IF "verdict1" \in known THEN "mint" ELSE "pot")
    /\ UNCHANGED <<edge, sessions, handler, core, page, faulted, ghosts>>

Read(c) ==
    /\ call[c].op = "get" /\ call[c].at = "sent"
    /\ IF facts[call[c].pid] = {} THEN Answer(c, "notfound", Nothing)
       ELSE Answer(c, "ok", Seen(call[c].pid))
    /\ UNCHANGED <<edge, sessions, handler, core, page, faulted, ghosts>>

\* process_open and the registration of the asset with the package's hash.
Open(c) ==
    LET p == call[c].pid IN
    /\ call[c].at = "open"
    /\ \/ /\ "open" \in facts[p]
          /\ Answer(c, "error", Nothing)
          /\ UNCHANGED <<facts, registered>>
       \/ /\ "open" \notin facts[p]
          /\ Journal(p, "open") /\ GoOn(c, "pot")
          /\ registered' = [registered EXCEPT ![p] = [key |-> call[c].key, hash |-> call[c].hash]]
    /\ UNCHANGED <<edge, sessions, handler, keys, page, faulted, ghosts>>

\* The first verdict is the verdict: the key of the record is the process's.
Confirm(c) ==
    LET p == call[c].pid IN
    /\ call[c].at = "pot"
    /\ \/ "verdict1" \in facts[p] /\ Answer(c, "error", Nothing) /\ UNCHANGED <<facts, faulted>>
       \/ "verdict0" \in facts[p] /\ Answer(c, "error", Nothing) /\ UNCHANGED <<facts, faulted>>
       \/ /\ {"verdict0", "verdict1"} \cap facts[p] = {}
          /\ Journal(p, "verdict1") /\ GoOn(c, "mint") /\ UNCHANGED faulted
       \/ /\ {"verdict0", "verdict1"} \cap facts[p] = {}
          /\ facts' = [facts EXCEPT ![p] = @ \cup {"verdict0"}
                          \cup (IF call[c].op = "create" THEN {"abort"} ELSE {})]
          /\ Answer(c, "error", Nothing) /\ Fault
    /\ UNCHANGED <<edge, sessions, handler, registered, keys, page, ghosts>>

\* The mint, and what settles it: if that fails the answer is an error.
Mint(c) ==
    LET p == call[c].pid IN
    /\ call[c].at = "mint"
    /\ \/ /\ "mint" \in facts[p] /\ Answer(c, "error", Nothing)
          /\ UNCHANGED <<facts, faulted>>
       \/ /\ "mint" \notin facts[p] /\ Journal(p, "mint")
          /\ \/ Answer(c, "ok", [pot |-> TRUE, mint |-> TRUE]) /\ UNCHANGED faulted
             \/ Answer(c, "error", Nothing) /\ Fault
    /\ UNCHANGED <<edge, sessions, handler, registered, keys, page, ghosts>>

Unopened(C) == {call[c].pid : c \in {d \in C : call[d].op = "create" /\ Running(d)
                                         /\ "open" \notin facts[call[d].pid]}}

\* A run fails: L1, L2 or the journal before open; the oracle, L3 or the
\* journal after it.
CoreFails(c) ==
    /\ Running(c) /\ Fault
    /\ Answer(c, "error", Nothing)
    /\ cut' = cut \cup Unopened({c})
    /\ UNCHANGED <<edge, sessions, handler, core, page, unsaved, late>>

\* A restart: keys in memory are gone, whoever waits gets CORE_UNAVAILABLE.
CoreRestarts ==
    /\ Fault
    /\ keys' = {}
    /\ cut' = cut \cup Unopened(Caller)
    /\ call' = [c \in Caller |->
           IF c \in Orphan THEN NoCall
           ELSE IF call[c].at \in {"none", "answered"} THEN call[c]
           ELSE [call[c] EXCEPT !.at = "answered", !.code = "error"]]
    /\ UNCHANGED <<edge, sessions, handler, facts, registered, page, unsaved, late>>

CoreStep(c) ==
    Admit(c) \/ Resume(c) \/ Read(c) \/ Open(c) \/ Confirm(c) \/ Mint(c)
-----------------------------------------------------------------------------
(***************************************************************************)
(* The edge.                                                               *)
(***************************************************************************)

Request(op, p, k, d) == [NoCall EXCEPT !.op = op, !.at = "sent", !.pid = p, !.key = k, !.hash = d]

\* h waits for a call.
Await(h, op, at, request) ==
    /\ handler' = [handler EXCEPT ![h] = [op |-> op, at |-> at, pid |-> request.pid]]
    /\ call' = [call EXCEPT ![h] = request]

End(h) ==
    /\ handler' = [handler EXCEPT ![h] = Idle]
    /\ call' = [call EXCEPT ![h] = NoCall]

\* CoreApiClient.createProcess of a record.
CreateCall(p, rec) == Request("create", p, rec.key, rec.hash)

\* persist: the file is written in the turn that changed the maps, or the
\* write throws and the request ends with an error.
Persist(records, idem) ==
    /\ byId' = records /\ byIdem' = idem
    /\ disk' = [byId |-> records, byIdem |-> idem]

PersistFails(h, records, idem) ==
    /\ Fault
    /\ byId' = records /\ byIdem' = idem /\ unsaved' = TRUE
    /\ End(h)
    /\ UNCHANGED disk

Answered(h, at) == handler[h].at = at /\ call[h].at = "answered"

\* makeProcessId: an id nobody has seen.
Fresh(p) ==
    LET unseen == {q \in Pid : byId[q] = None /\ facts[q] = {} /\ \A c \in Caller : call[c].pid # q}
    IN p \in unseen /\ \A q \in unseen : p <= q

\* Faulty variant of Create: the record is saved only with the core's answer.
CreateUnsaved(h, k, d, p) ==
    LET records == [byId EXCEPT ![p] = [status |-> "awaiting_core", hash |-> d, key |-> k]] IN
    /\ sessions /\ handler[h].at = "idle" /\ byIdem[k] = None
    /\ Fresh(p)
    /\ byId' = records /\ byIdem' = [byIdem EXCEPT ![k] = [pid |-> p, hash |-> d]]
    /\ Await(h, "create", "create", CreateCall(p, records[p]))
    /\ UNCHANGED <<disk, sessions, core, page, faulted, ghosts>>

\* create: a fresh process id, saved before the core is called.  A known key
\* is answered from its record, or refused, and changes nothing.
Create(h, k, d, p) ==
    LET records == [byId EXCEPT ![p] = [status |-> "awaiting_core", hash |-> d, key |-> k]]
        idem == [byIdem EXCEPT ![k] = [pid |-> p, hash |-> d]] IN
    /\ sessions /\ handler[h].at = "idle" /\ byIdem[k] = None
    /\ Fresh(p)
    /\ \/ /\ Persist(records, idem)
          /\ Await(h, "create", "create", CreateCall(p, records[p]))
          /\ UNCHANGED <<faulted, unsaved>>
       \/ PersistFails(h, records, idem)
    /\ UNCHANGED <<sessions, core, page, cut, late>>

\* After the core's answer to create.  A failure sets awaiting_core whatever
\* another request has made of the record in the meantime.
Created(h) ==
    LET p == handler[h].pid
        status == IF call[h].code = "ok" THEN "submitted_to_core" ELSE "awaiting_core"
        records == [byId EXCEPT ![p].status = status] IN
    /\ Answered(h, "create")
    /\ \/ /\ Persist(records, byIdem) /\ End(h)
          /\ UNCHANGED <<faulted, unsaved>>
       \/ PersistFails(h, records, byIdem)
    /\ UNCHANGED <<sessions, core, page, cut, late>>

\* retryHandoff: continue first.
Retry(h) ==
    LET p == page.pid IN
    /\ h \notin Watcher
    /\ sessions /\ handler[h].at = "idle" /\ p # None /\ byId[p] # None
    /\ Await(h, "retry", "continue", Request("continue", p, None, None))
    /\ UNCHANGED <<edge, sessions, core, page, faulted, ghosts>>

\* Faulty variant of Continued: a failed continue is the end of the retry.
ContinuedOnly(h) ==
    LET p == handler[h].pid
        records == [byId EXCEPT ![p].status = "submitted_to_core"] IN
    /\ Answered(h, "continue") /\ End(h)
    /\ IF call[h].code = "ok" THEN Persist(records, byIdem) ELSE UNCHANGED edge
    /\ UNCHANGED <<sessions, core, page, faulted, ghosts>>

\* The process can be continued, or is refreshed from the core, or is handed
\* off once more.
Continued(h) ==
    LET p == handler[h].pid
        records == [byId EXCEPT ![p].status = "submitted_to_core"] IN
    /\ Answered(h, "continue")
    /\ \/ /\ call[h].code = "ok"
          /\ \/ Persist(records, byIdem) /\ End(h) /\ UNCHANGED <<faulted, unsaved>>
             \/ PersistFails(h, records, byIdem)
       \/ /\ call[h].code # "ok" /\ byId[p].status = "submitted_to_core"
          /\ Await(h, "retry", "get", Request("get", p, None, None))
          /\ UNCHANGED <<edge, faulted, unsaved>>
       \/ /\ call[h].code # "ok" /\ byId[p].status = "awaiting_core"
          /\ Await(h, "retry", "recreate", CreateCall(p, byId[p]))
          /\ UNCHANGED <<edge, faulted, unsaved>>
    /\ UNCHANGED <<sessions, core, page, cut, late>>

\* After the second hand-off; a failure changes nothing.
Recreated(h) ==
    LET p == handler[h].pid
        records == IF call[h].code = "ok"
                   THEN [byId EXCEPT ![p].status = "submitted_to_core"] ELSE byId IN
    /\ Answered(h, "recreate")
    /\ \/ Persist(records, byIdem) /\ End(h) /\ UNCHANGED <<faulted, unsaved>>
       \/ PersistFails(h, records, byIdem)
    /\ UNCHANGED <<sessions, core, page, cut, late>>

\* get, for the data of the page or for its certificate: getCertificate is a
\* get whose response is put into words.
Load(h) ==
    /\ sessions /\ handler[h].at = "idle" /\ page.pid # None
    /\ Await(h, "load", "get", Request("get", page.pid, None, None))
    /\ UNCHANGED <<edge, sessions, core, page, faulted, ghosts>>

\* The response of get, which the page shows, in whatever order overlapping
\* loads are answered; a retry's refresh is not shown.
Respond(h, view) ==
    /\ End(h)
    /\ page' = IF handler[h].op = "load" THEN [page EXCEPT !.data = view] ELSE page

\* Faulty variant of Got: any record of the edge counts as handed off.
GotAnything(h) ==
    LET p == handler[h].pid IN
    /\ Answered(h, "get") /\ byId[p] # None
    /\ Persist([byId EXCEPT ![p].status = "submitted_to_core"], byIdem)
    /\ Respond(h, call[h].view)
    /\ UNCHANGED <<sessions, core, faulted, ghosts>>

\* What the core knows counts as handed off; a process with neither verdict
\* nor mint is continued on the way.  Without the core the record must do.
Got(h) ==
    LET p == handler[h].pid
        records == IF byId[p] = None THEN byId
                   ELSE [byId EXCEPT ![p].status = "submitted_to_core"] IN
    /\ Answered(h, "get")
    /\ \/ /\ call[h].code = "ok"
          /\ \/ /\ IF byId[p] = None THEN UNCHANGED edge ELSE Persist(records, byIdem)
                /\ \/ /\ call[h].view = Nothing
                      /\ Await(h, handler[h].op, "resume", Request("continue", p, None, None))
                      /\ UNCHANGED page
                   \/ /\ call[h].view # Nothing
                      /\ Respond(h, call[h].view)
                /\ UNCHANGED <<faulted, unsaved>>
             \/ byId[p] # None /\ PersistFails(h, records, byIdem) /\ UNCHANGED page
       \/ /\ call[h].code # "ok" /\ byId[p] # None
          /\ Respond(h, Nothing)
          /\ UNCHANGED <<edge, faulted, unsaved>>
       \/ /\ call[h].code # "ok" /\ byId[p] = None         \* 404
          /\ End(h)
          /\ UNCHANGED <<edge, page, faulted, unsaved>>
    /\ UNCHANGED <<sessions, core, cut, late>>

\* The outcome of the get's own continue.
Resumed(h) ==
    /\ Answered(h, "resume")
    /\ Respond(h, call[h].view)
    /\ UNCHANGED <<edge, sessions, core, faulted, ghosts>>

\* The core knows a package of p, or is about to.
HandedOff(p) ==
    \/ registered[p] # None
    \/ \E c \in Caller : call[c].op = "create" /\ call[c].pid = p

\* attachDocuments: a new package, at whatever point the process is.
Attach(h, p, d) ==
    LET records == [byId EXCEPT ![p] = [@ EXCEPT !.hash = d, !.status = "awaiting_core"]] IN
    /\ sessions /\ handler[h].at = "idle" /\ byId[p] # None
    /\ \/ /\ Persist(records, byIdem)
          /\ UNCHANGED <<handler, call, faulted, unsaved>>
       \/ PersistFails(h, records, byIdem)
    /\ late' = IF HandedOff(p) THEN late \cup {p} ELSE late
    /\ UNCHANGED <<sessions, core, page, cut>>

\* The timeout of 180 s: the edge takes the core for unavailable, the core
\* goes on with what it was asked.
TimesOut(h, o) ==
    /\ call[h].op \in {"create", "continue"} /\ call[h].at # "answered"
    /\ call[o].op = "none" /\ Fault
    /\ call' = [call EXCEPT ![o] = call[h],
                            ![h] = [@ EXCEPT !.at = "answered", !.code = "error"]]
    /\ UNCHANGED <<edge, sessions, handler, core, page, ghosts>>

\* Runs of the core that its restarting client has asked for.
Abandoned == {h \in Handler : call[h].op \in {"create", "continue"} /\ call[h].at # "answered"}

\* A restart: the maps are read back from the file, sessions are gone.  Bound:
\* there is an orphan for what the core still runs.
EdgeRestarts ==
    /\ restarts < MaxRestarts /\ restarts' = restarts + 1
    /\ byId' = disk.byId /\ byIdem' = disk.byIdem
    /\ sessions' = FALSE
    /\ handler' = [h \in Handler |-> Idle]
    /\ \/ /\ Abandoned = {}
          /\ call' = [c \in Caller |-> IF c \in Orphan THEN call[c] ELSE NoCall]
       \/ \E h \in Abandoned, o \in Orphan :
             /\ Abandoned = {h} /\ call[o].op = "none"
             /\ call' = [c \in Caller |->
                    IF c = o THEN call[h] ELSE IF c \in Orphan THEN call[c] ELSE NoCall]
    /\ UNCHANGED <<disk, core, page, faults, ghosts>>

\* Sessions live in the edge's memory; nothing is asked without one.
Login ==
    /\ ~sessions /\ sessions' = TRUE
    /\ UNCHANGED <<edge, handler, call, core, page, faulted, ghosts>>

HandlerStep(h) == Created(h) \/ Continued(h) \/ Recreated(h) \/ Got(h) \/ Resumed(h)
-----------------------------------------------------------------------------
(***************************************************************************)
(* The process page.                                                       *)
(***************************************************************************)
Finished == page.data.pot /\ page.data.mint

OpenPage(p) ==
    /\ page.pid = None /\ byId[p] # None
    /\ page' = [page EXCEPT !.pid = p]
    /\ UNCHANGED <<edge, sessions, handler, call, core, faulted, ghosts>>

\* Faulty variant of Poll: the page stops once the verdict is there.
PollUntilVerified(h) == ~page.data.pot /\ Load(h)

\* Every three seconds, whether or not the load before was answered.
Poll(h) == ~Finished /\ Load(h)

\* The buttons "Retry / continue on Core" are there until the page has seen
\* the verdict and the mint.
PressRetry(h) == ~Finished /\ Retry(h)

Next ==
    \/ \E c \in Caller : CoreStep(c) \/ CoreFails(c)
    \/ CoreRestarts \/ EdgeRestarts \/ Login
    \/ \E h \in Handler :
          \/ HandlerStep(h) \/ Poll(h) \/ PressRetry(h)
          \/ \E o \in Orphan : TimesOut(h, o)
    \/ \E h \in Handler \ Watcher, p \in Pid :
          \/ \E k \in Key, d \in Hash \ Second : Create(h, k, d, p)
          \/ \E d \in Second : Attach(h, p, d)
    \/ \E p \in Pid : OpenPage(p)

Spec == Init /\ [][Next]_vars

\* The core runs its calls, the edge its answers; the page's timer fires again
\* and again, as does its user's patience with the retry button and the login.
\* A request may have to wait for one of the few handlers: strong fairness.
FairSpec ==
    /\ Spec
    /\ \A c \in Caller : WF_vars(CoreStep(c))
    /\ \A h \in Handler : WF_vars(HandlerStep(h))
    /\ WF_vars(Login)
    /\ SF_vars(\E h \in Handler : Poll(h))
    /\ SF_vars(\E h \in Handler : PressRetry(h))
-----------------------------------------------------------------------------
\* A record that says "submitted_to_core", in memory or in the file, is of a
\* process the core's journal knows: neither a timeout nor a restart of either
\* side makes the edge claim a hand-off that did not happen.
SubmittedIsKnown ==
    \A p \in Pid, records \in {byId, disk.byId} :
        records[p] # None /\ records[p].status = "submitted_to_core" => facts[p] # {}

\* One idempotency key opens at most one process of the core, across restarts
\* of both sides and all retries, as long as every save of the edge succeeded:
\* the key is in the file before the core hears of it.
KeyOpensOneProcess ==
    ~unsaved => \A p, q \in Pid :
        (registered[p] # None /\ registered[q] # None
         /\ registered[p].key = registered[q].key) => p = q

\* The package the edge shows, and puts into the certificate, is the one the
\* core registered, unless a package was attached after the hand-off.
ShownPackageIsRegistered ==
    \A p \in Pid : (registered[p] # None /\ byId[p] # None /\ p \notin late /\ ~unsaved)
        => byId[p].hash = registered[p].hash

\* A page that says the process is complete speaks of a verdict and a mint on
\* the core's journal.
FinishedIsMinted == Finished => {"verdict1", "mint"} \subseteq facts[page.pid]

\* The page of a verified and minted process ends up saying so and keeps
\* saying so, although answers to overlapping loads may overtake each other
\* and a finished page polls no more.
MintedIsShown ==
    (\E p \in Pid : page.pid = p /\ {"verdict1", "mint"} \subseteq facts[p]) ~> []Finished

\* A process the edge has on file gets opened by the core if its user insists,
\* unless the core has ended one of its runs short of open: then its key may
\* be used up, or a poll may have marked it submitted for a first record, and
\* no retry opens it.
HandoffGetsThrough ==
    (\E p \in Pid : page.pid = p /\ disk.byId[p] # None)
        ~> (\E p \in Pid : page.pid = p /\ ("open" \in facts[p] \/ p \in cut))

\* What the edge or the page says of a process happened at the core: the hand-off, the
\* package that was registered, the mint.
SaidIsSo ==
    /\ TypeOK
    /\ SubmittedIsKnown
    /\ ShownPackageIsRegistered
    /\ FinishedIsMinted
-----------------------------------------------------------------------------
(***************************************************************************)
(* The invariant the proofs of PortalHandoffProofs rest on.                *)
(***************************************************************************)

\* A call speaks of a process, goes to the mint above its verdict, and its
\* answer shows nothing but the journal.
SoundCall(k) ==
    \/ k = NoCall
    \/ /\ k.op # "none" /\ k.pid \in Pid
       /\ k.op = "create" => k.key \in Key /\ k.hash \in Hash
       /\ k.at = "open" => k.op = "create"
       /\ k.at = "mint" => "verdict1" \in facts[k.pid]
       /\ k.code = "ok" => facts[k.pid] # {}
       /\ k.view.pot => "verdict1" \in facts[k.pid]
       /\ k.view.mint => "mint" \in facts[k.pid]

\* A waiting handler waits for a call on its process; only a status read is
\* asked for a process the edge may have lost.
HandlerSound(h) ==
    handler[h].at # "idle" =>
        /\ handler[h].pid \in Pid /\ call[h].pid = handler[h].pid /\ call[h].op # "none"
        /\ handler[h].at \in {"create", "continue", "recreate"} => byId[handler[h].pid] # None
        /\ handler[h].op = "load" => handler[h].pid = page.pid

\* What the page shows is on the journal of the process it is open on.
PageSound ==
    /\ page.data.pot \/ page.data.mint => page.pid \in Pid
    /\ page.data.pot => "verdict1" \in facts[page.pid]
    /\ page.data.mint => "mint" \in facts[page.pid]

\* As long as every save succeeded, the file is the memory, a record is found
\* by its key, and what the core registered, or is asked to, is a record's.
SaysRecord(p, key, hash) ==
    /\ byId[p] # None /\ byId[p].key = key
    /\ p \notin late => byId[p].hash = hash

SavesSound ==
    ~unsaved =>
        /\ disk.byId = byId /\ disk.byIdem = byIdem
        /\ \A p \in Pid : byId[p] # None =>
              byIdem[byId[p].key] # None /\ byIdem[byId[p].key].pid = p
        /\ \A p \in Pid : registered[p] # None =>
              SaysRecord(p, registered[p].key, registered[p].hash)
        /\ \A c \in Caller : call[c].op = "create" =>
              SaysRecord(call[c].pid, call[c].key, call[c].hash)

HandoffInv ==
    /\ TypeOK
    /\ \A p \in Pid : registered[p] # None => facts[p] # {}
    /\ \A c \in Caller : SoundCall(call[c])
    /\ \A h \in Handler : HandlerSound(h)
    /\ PageSound
    /\ SubmittedIsKnown
    /\ SavesSound
=============================================================================
