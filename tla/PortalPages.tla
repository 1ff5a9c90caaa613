----------------------------- MODULE PortalPages -----------------------------
(***************************************************************************)
(* The pages of the portal that only read, while the journal grows: the    *)
(* explorer of the chain, the page of one process, the dashboard.  A page  *)
(* asks, goes on, and shows an answer when it arrives; nothing compares it *)
(* with what has been asked for or shown since.  A fetch is one handler:   *)
(*   history  the explorer's records of a process                          *)
(*   refresh  its status and its latest nodes, asked for together          *)
(*   process  the state of a process, then its certificate; polled until   *)
(*            the process is finished                                      *)
(*   rows     the dashboard's processes of a status, the filter            *)
(* An answer is the number of records that it counts: those of the process *)
(* or those of the journal.  The process page has its process for life,    *)
(* the process is finished with its last record.                           *)
(* Bounds: MaxRecords records, of a process at most FinalCount; a fetch for *)
(* each element of Fetch is in flight.  Any answer may fail.               *)
(***************************************************************************)
EXTENDS Naturals

CONSTANTS Proc, Fetch, Filter,
          Visited,              \* the process of the process page
          Every,                \* the filter the dashboard starts with
          Blank,                \* nothing typed, nothing shown
          MaxRecords, FinalCount

ASSUME PagesAssumption ==
    /\ Blank \notin Proc \cup Filter /\ Visited \in Proc /\ Every \in Filter
    /\ MaxRecords \in Nat \ {0} /\ FinalCount \in Nat \ {0}

VARIABLES height, written,        \* the journal: records, those of each process
          fetch, ahead,           \* what is in flight, with those asked for before it
          heading, history,       \* explorer: process typed, records shown
          shown,                  \* explorer: status and list
          data, cert,             \* process page
          filter, rows, rowsError,\* dashboard
          typed,                  \* ghost: the heading was edited since it was asked for
          behind, outdated,       \* ghost: fetches that one asked for later has
                                  \* overtaken, what they left on a page
          missed,                 \* ghost: the last certificate failed
          unheard                 \* ghost: the last history was never answered

inFlight == <<fetch, ahead>>
explorer == <<heading, history, shown, typed, unheard>>
processPage == <<data, cert, missed>>
dashboard == <<filter, rows, rowsError>>
crossing == <<behind, outdated>>
pagesVars == <<height, written, inFlight, explorer, processPage, dashboard, crossing>>

Shows == {"history", "data", "cert", "rows"}
Waiting == [is |-> "waiting", n |-> 0, m |-> 0]
Failed == [is |-> "failed", n |-> 0, m |-> 0]
Reply(n, m) == [is |-> "ok", n |-> n, m |-> m]
Replied == [is : {"waiting", "reading", "ok", "failed"}, n : 0..MaxRecords, m : 0..MaxRecords]
Free == [page |-> "none", of |-> Blank, first |-> Waiting, second |-> Waiting, since |-> 0]

\* Types; what is in flight was asked for one after the other.
PagesTypeOK ==
    /\ height \in 1..MaxRecords /\ written \in [Proc -> 0..FinalCount]
    /\ fetch \in [Fetch -> [page : {"none", "history", "refresh", "data", "cert", "rows"},
                            of : Proc \cup Filter \cup {Blank},
                            first : Replied, second : Replied, since : 0..MaxRecords]]
    /\ ahead \in [Fetch -> SUBSET Fetch]
    /\ \A f, g \in Fetch : g \in ahead[f] => "none" \notin {fetch[f].page, fetch[g].page}
    /\ \A f, g \in Fetch : f # g /\ "none" \notin {fetch[f].page, fetch[g].page} =>
          (g \in ahead[f] <=> f \notin ahead[g])
    /\ \A f \in Fetch : f \notin ahead[f]
    /\ heading \in Proc \cup {Blank}
    /\ history.of \in Proc \cup {Blank} /\ history.n \in 0..FinalCount
    /\ {data, cert} \subseteq 0..FinalCount
    /\ filter \in Filter /\ rows \in Filter \cup {Blank} /\ rowsError \in BOOLEAN
    /\ {typed, missed, unheard} \subseteq BOOLEAN
    /\ behind \subseteq Fetch \X Shows /\ outdated \in [Shows -> BOOLEAN]

PagesInit ==
    /\ height = 1 /\ written = [p \in Proc |-> 0]
    /\ fetch = [f \in Fetch |-> Free] /\ ahead = [f \in Fetch |-> {}]
    /\ heading = Blank /\ history = [of |-> Blank, n |-> 0]
    /\ shown = [tip |-> 0, count |-> 0, top |-> 0, grew |-> FALSE]
    /\ data = 0 /\ cert = 0 /\ missed = FALSE
    /\ filter = Every /\ rows = Blank /\ rowsError = FALSE
    /\ typed = FALSE /\ unheard = FALSE /\ behind = {} /\ outdated = [s \in Shows |-> FALSE]

\* Fetches for the same part of a page asked for before f.
Before(f, page) == {g \in ahead[f] : fetch[g].page = page}

Ask(f, page, of) ==
    /\ fetch[f] = Free
    /\ fetch' = [fetch EXCEPT ![f] =
           [page |-> page, of |-> of, first |-> Waiting, second |-> Waiting,
            since |-> IF page = "refresh" THEN height ELSE 0]]
    /\ ahead' = [ahead EXCEPT ![f] = {g \in Fetch : fetch[g].page # "none"}]
    /\ UNCHANGED crossing

\* The answer to f takes effect on a part of its page.  Of the process page,
\* a fetch for the data has the certificate still to come.
Arrives(f, page) ==
    /\ behind' = (behind \cup (Before(f, page) \cup
                     (IF page = "cert" THEN Before(f, "data") ELSE {})) \X {page})
                    \ {<<f, page>>}
    /\ outdated' = [outdated EXCEPT ![page] = <<f, page>> \in behind]

Ends(f) ==
    /\ fetch' = [fetch EXCEPT ![f] = Free]
    /\ ahead' = [g \in Fetch |-> IF g = f THEN {} ELSE ahead[g] \ {f}]
-----------------------------------------------------------------------------
(***************************************************************************)
(* The core: it records, and answers from what is recorded at that moment. *)
(***************************************************************************)
RecordElse ==
    /\ height < MaxRecords /\ height' = height + 1
    /\ UNCHANGED <<written, inFlight, explorer, processPage, dashboard, crossing>>

RecordOf(p) ==
    /\ height < MaxRecords /\ height' = height + 1
    /\ written[p] < FinalCount /\ written' = [written EXCEPT ![p] = @ + 1]
    /\ UNCHANGED <<inFlight, explorer, processPage, dashboard, crossing>>

Served(f, part, outcome) ==
    /\ fetch' = [fetch EXCEPT ![f][part] = outcome]
    /\ UNCHANGED <<height, written, ahead, explorer, processPage, dashboard, crossing>>

\* byProcess, the certificate and the list of processes: one read.
ServeProcess(f) ==
    /\ fetch[f].page \in {"history", "data", "cert"} /\ fetch[f].first = Waiting
    /\ Served(f, "first", Reply(written[fetch[f].of], 0))

ServeRows(f) ==
    /\ fetch[f].page = "rows" /\ fetch[f].first = Waiting
    /\ Served(f, "first", Reply(0, 0))

\* getStatus reads the tip, then the records.
ServeTip(f) ==
    /\ fetch[f].page = "refresh"
    /\ \/ /\ fetch[f].first = Waiting
          /\ Served(f, "first", [is |-> "reading", n |-> height, m |-> 0])
       \/ /\ fetch[f].first.is = "reading"
          /\ Served(f, "first", [is |-> "ok", n |-> fetch[f].first.n, m |-> height])

\* listNodes, answered apart from the status.
ServeNodes(f) ==
    /\ fetch[f].page = "refresh" /\ fetch[f].second = Waiting
    /\ Served(f, "second", Reply(height, 0))

ServeFails(f) ==
    \/ /\ fetch[f].page # "none" /\ fetch[f].first = Waiting
       /\ Served(f, "first", Failed)
    \/ /\ fetch[f].page = "refresh" /\ fetch[f].second = Waiting
       /\ Served(f, "second", Failed)

Serve == \E f \in Fetch : ServeProcess(f) \/ ServeRows(f) \/ ServeTip(f) \/ ServeNodes(f)
                          \/ ServeFails(f)
-----------------------------------------------------------------------------
(***************************************************************************)
(* The explorer.                                                           *)
(***************************************************************************)
TypeHeading(p) ==
    /\ heading' = p /\ typed' = TRUE
    /\ UNCHANGED <<height, written, inFlight, history, shown, unheard, processPage, dashboard,
                   crossing>>

\* loadProcessHistory, from the form or a link; the heading is changed at once.
LoadHistory(f, p) ==
    /\ Ask(f, "history", p)
    /\ heading' = p /\ typed' = FALSE /\ unheard' = FALSE
    /\ UNCHANGED <<height, written, history, shown, processPage, dashboard>>

HistoryArrives(f) ==
    /\ fetch[f].page = "history" /\ fetch[f].first.is \in {"ok", "failed"}
    /\ history' = [of |-> fetch[f].of, n |-> fetch[f].first.n]
    /\ unheard' = FALSE
    /\ Arrives(f, "history") /\ Ends(f)
    /\ UNCHANGED <<height, written, heading, shown, typed, processPage, dashboard>>

\* The connection breaks: nothing catches that, the records shown stay.
HistoryIsLost(f) ==
    /\ fetch[f].page = "history"
    /\ unheard' = (unheard \/ <<f, "history">> \notin behind)
    /\ behind' = (behind \cup Before(f, "history") \X {"history"}) \ {<<f, "history">>}
    /\ Ends(f)
    /\ UNCHANGED <<height, written, heading, history, shown, typed, processPage, dashboard,
                   outdated>>

\* The button is disabled while a refresh is on, after a verification comes one
\* in any case.
Refresh(f) ==
    /\ Ask(f, "refresh", Blank)
    /\ UNCHANGED <<height, written, explorer, processPage, dashboard>>

\* Promise.all: when both have answered, or one has failed; both or none are shown.
RefreshArrives(f) ==
    LET st == fetch[f].first  nl == fetch[f].second IN
    /\ fetch[f].page = "refresh"
    /\ \/ /\ st.is = "ok" /\ nl.is = "ok"
          /\ shown' = [tip |-> st.n, count |-> st.m, top |-> nl.n,
                       grew |-> height # fetch[f].since]
       \/ /\ "failed" \in {st.is, nl.is}
          /\ shown' = [tip |-> 0, count |-> 0, top |-> 0, grew |-> FALSE]
    /\ Ends(f)
    /\ UNCHANGED <<height, written, heading, history, typed, unheard, processPage, dashboard,
                   crossing>>
-----------------------------------------------------------------------------
(***************************************************************************)
(* The page of a process: load on opening, every three seconds until the   *)
(* data shown are finished, or by hand.                                    *)
(***************************************************************************)
LoadProcess(f) ==
    /\ Ask(f, "data", Visited)
    /\ UNCHANGED <<height, written, explorer, processPage, dashboard>>

\* Faulty variant of DataArrives: the certificate is asked for together with the data.
DataArrivesBoth(f) ==
    /\ fetch[f].page = "data" /\ fetch[f].first.is = "ok"
    /\ data' = fetch[f].first.n
    /\ \E n \in {data, fetch[f].first.n} :
          fetch' = [fetch EXCEPT ![f].page = "cert", ![f].first = Reply(n, 0)]
    /\ Arrives(f, "data")
    /\ UNCHANGED <<height, written, ahead, explorer, cert, missed, dashboard>>

DataArrives(f) ==
    /\ fetch[f].page = "data"
    /\ \/ /\ fetch[f].first.is = "ok"
          /\ data' = fetch[f].first.n
          /\ fetch' = [fetch EXCEPT ![f] = [@ EXCEPT !.page = "cert", !.first = Waiting]]
          /\ Arrives(f, "data") /\ UNCHANGED ahead
       \/ /\ fetch[f].first.is = "failed" /\ Ends(f)
          /\ behind' = behind \ {<<f, "data">>, <<f, "cert">>}
          /\ UNCHANGED <<data, outdated>>
    /\ UNCHANGED <<height, written, explorer, cert, missed, dashboard>>

CertificateArrives(f) ==
    /\ fetch[f].page = "cert"
    /\ \/ fetch[f].first.is = "ok" /\ cert' = fetch[f].first.n /\ missed' = FALSE
       \/ fetch[f].first.is = "failed" /\ missed' = TRUE /\ UNCHANGED cert
    /\ Arrives(f, "cert") /\ Ends(f)
    /\ UNCHANGED <<height, written, explorer, data, dashboard>>
-----------------------------------------------------------------------------
(***************************************************************************)
(* The dashboard loads when it is opened and whenever the filter changes.  *)
(***************************************************************************)

ChooseFilter(f, s) ==
    /\ filter' = s /\ rowsError' = FALSE
    /\ Ask(f, "rows", s)
    /\ UNCHANGED <<height, written, explorer, processPage, rows>>

\* On a failure the rows stay, under a message.
RowsArrive(f) ==
    /\ fetch[f].page = "rows"
    /\ \/ fetch[f].first.is = "ok" /\ rows' = fetch[f].of /\ UNCHANGED rowsError
       \/ fetch[f].first.is = "failed" /\ rowsError' = TRUE /\ UNCHANGED rows
    /\ Arrives(f, "rows") /\ Ends(f)
    /\ UNCHANGED <<height, written, explorer, processPage, filter>>
-----------------------------------------------------------------------------
Explore ==
    \/ \E p \in Proc : TypeHeading(p) \/ \E f \in Fetch : LoadHistory(f, p)
    \/ \E f \in Fetch : HistoryArrives(f) \/ HistoryIsLost(f)

FollowChain == \E f \in Fetch : Refresh(f) \/ RefreshArrives(f)

FollowProcess == \E f \in Fetch : LoadProcess(f) \/ DataArrives(f) \/ CertificateArrives(f)

Watch == \E f \in Fetch : RowsArrive(f) \/ \E s \in Filter : ChooseFilter(f, s)

PagesNext ==
    \/ RecordElse \/ \E p \in Proc : RecordOf(p)
    \/ Serve
    \/ Explore \/ FollowChain \/ FollowProcess \/ Watch

PagesSpec == PagesInit /\ [][PagesNext]_pagesVars

NoneInFlight(pages) == \A f \in Fetch : fetch[f].page \notin pages
-----------------------------------------------------------------------------
\* With nothing in flight, the records under the explorer's heading are those
\* of the process in the heading; unless the heading was edited, the connection
\* broke, or the answer shown last had been overtaken by one asked for later.
HistoryIsOfHeading ==
    NoneInFlight({"history"}) /\ ~typed =>
        history.of = heading \/ unheard \/ outdated["history"]

\* The status and the list shown are of one refresh: no tip is above the number
\* of records shown beside it, and if nothing was recorded meanwhile the list
\* starts with the tip.
StatusIsConsistent ==
    /\ shown.tip <= shown.count
    /\ shown.grew \/ shown.tip = shown.top

\* A page that shows a finished process, and so has stopped asking, shows the
\* certificate with the mint; unless the last certificate could not be read
\* (no poll comes to repair that), or answers of two loads have crossed.
FinishedHasCertificate ==
    NoneInFlight({"data", "cert"}) /\ data = FinalCount =>
        cert = FinalCount \/ missed \/ outdated["data"] \/ outdated["cert"]

\* With nothing in flight and no message shown, the rows are those of the
\* filter; unless the answer shown last had been overtaken.
RowsAreOfFilter ==
    NoneInFlight({"rows"}) /\ ~rowsError /\ rows # Blank =>
        rows = filter \/ outdated["rows"]

\* Pages show what they are headed, in whatever order their answers come, fail or are lost.
PagesShowWhatIsSo ==
    /\ PagesTypeOK
    /\ HistoryIsOfHeading
    /\ StatusIsConsistent
    /\ FinishedHasCertificate
    /\ RowsAreOfFilter
=============================================================================
