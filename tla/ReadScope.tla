------------------------------ MODULE ReadScope ------------------------------
(***************************************************************************)
(* What a reader of the journal is given over HTTP: the rules of           *)
(* read-scope.ts for one record, one process and a list, and the window of *)
(* the list, which is cut three times.  A journal is a sequence of rows; a *)
(* row is the institution named in its process id (NoProcess without one)  *)
(* and whether its type is that of a system record.  How a reader proves   *)
(* who it is, is left out.                                                 *)
(***************************************************************************)
EXTENDS Naturals, Sequences, SequencesExt

CONSTANTS Reader,              \* institutions that read
          Owner,               \* the names of institutions in process ids
          NoProcess,
          PageCap,             \* rows of an answer
          OverFetch, FetchCap, \* rows asked for instead of one, in all
          RecentCap            \* rows listRecent gives

ASSUME ReadScopeAssumption ==
    /\ {PageCap, OverFetch, FetchCap, RecentCap} \subseteq Nat \ {0}
    /\ PageCap < FetchCap /\ RecentCap <= FetchCap
    /\ NoProcess \notin Reader \cup Owner

Row == [of : Owner \cup {NoProcess}, system : BOOLEAN]

\* Who reads, and whether the public may read.
Principal == [kind : {"institution"}, id : Reader, open : {TRUE}]
                \cup [kind : {"ops", "anonymous"}, id : {NoProcess}, open : BOOLEAN]

Lesser(a, b) == IF a < b THEN a ELSE b
Greater(a, b) == IF a < b THEN b ELSE a

IsSystem(row) == row.of = NoProcess \/ row.system

\* processOwnedByInstitution: the name in the process id is compared with the
\* whole identifier, of which the id has only the letters and digits.
Owns(who, row) == who.kind = "institution" /\ row.of = who.id

CanReadProcess(who, of) ==
    \/ who.kind = "ops"
    \/ who.kind = "anonymous" /\ who.open
    \/ who.kind = "institution" /\ of = who.id

CanReadRecord(who, row) ==
    \/ who.kind = "ops" \/ IsSystem(row)
    \/ who.kind = "anonymous" /\ who.open
    \/ Owns(who, row)

Restricted(who) == who.kind = "institution" \/ (who.kind = "anonymous" /\ ~who.open)

\* The rows of a set, in their order.
Kept(rows, set) ==
    LET kept[i \in 0..Len(rows)] ==
            IF i = 0 THEN <<>>
            ELSE IF rows[i] \in set THEN Append(kept[i - 1], rows[i]) ELSE kept[i - 1]
    IN  kept[Len(rows)]

\* filterNodesForPrincipal
ScopedTo(who, rows) ==
    IF ~Restricted(who) THEN rows
    ELSE Kept(rows, {row \in Row : IsSystem(row) \/ Owns(who, row)})

Newest(rows, n) == SubSeq(rows, Greater(1, Len(rows) - n + 1), Len(rows))

\* Faulty variant of FetchLimit: as many rows are read as may be shown.
FetchLimitOnce(who, limit) == limit

\* More are read than may be shown, since some will be filtered out.
FetchLimit(who, limit) ==
    IF Restricted(who) THEN Lesser(FetchCap, limit * OverFetch) ELSE limit

\* listNodes: the newest first; one row at least is wanted.
ListNodes(who, journal, wanted) ==
    LET limit == Lesser(PageCap, wanted)
        recent == Reverse(Newest(journal, Lesser(RecentCap, FetchLimit(who, limit))))
        scoped == ScopedTo(who, recent)
    IN  SubSeq(scoped, 1, Lesser(limit, Len(scoped)))

\* byProcess: the last of its records, the oldest of them first.
ProcessRecords(journal, of, wanted) ==
    LET all == Kept(journal, {row \in Row : row.of = of})
    IN  [count |-> Len(all), rows |-> Newest(all, Lesser(FetchCap, wanted))]
=============================================================================
