----------------------------- MODULE EdgeSessions -----------------------------
(***************************************************************************)
(* Sessions of the portal: AuthService keeps them in memory, sends each    *)
(* change to Redis without waiting for it, and never reads Redis back; the *)
(* tabs of a browser share one session in its storage, and each goes on    *)
(* from what it found there.  A tab is                                     *)
(*   closed                                                                *)
(*   login, asking   on the login page; its login is on the way            *)
(*   cabinet         on a page that needs a session                        *)
(* A session is the number in whose order it was issued.  A command to     *)
(* Redis has a connection of its own, so commands may run in any order.    *)
(* Bounds: MaxSessions sessions, MaxEdgeStarts restarts of the edge; any   *)
(* request, answer or command may be lost.                                 *)
(***************************************************************************)
EXTENDS Naturals, FiniteSets

CONSTANTS Tab,
          Member,           \* institutions that try to sign in
          Account, Listed,  \* those configured at the edge, those allowlisted
          Certified,        \* those a certificate or a token can name
          MaxSessions, MaxEdgeStarts

ASSUME SessionsAssumption ==
    /\ Account \subseteq Member /\ Listed \subseteq Account /\ Certified \subseteq Member
    /\ {MaxSessions, MaxEdgeStarts} \subseteq Nat

VARIABLES known,             \* sessions in the edge's memory
          issued, past,      \* how many there have been; those out of date
          openedBy,          \* whose they are, and the secret they carry
          stored,            \* the session in the browser's storage
          tab, answer,       \* per tab: where it is, the session it is being told
          leaving,           \* sessions whose logout is on the way
          mirror, commands,  \* Redis; commands on the way to it
          edgeStarts,
          stray,             \* ghost: sessions Redis may keep, and why not
          forsaken, lost     \* ghost: sessions the browser no longer knows,
                             \* sessions the edge forgot in a restart

memory == <<known, issued, past, openedBy, edgeStarts>>
tabs == <<stored, tab, answer, leaving>>
redis == <<mirror, commands>>
sessionGhosts == <<stray, forsaken, lost>>
sessionVars == <<memory, tabs, redis, sessionGhosts>>

NoSession == 0
Number == 1..MaxSessions
Command == [op : {"set", "del"}, of : Number]
Set(s) == [op |-> "set", of |-> s]
Del(s) == [op |-> "del", of |-> s]

\* Types; what is stored, told or known has been issued.
SessionsTypeOK ==
    /\ issued \in 0..MaxSessions /\ edgeStarts \in 0..MaxEdgeStarts
    /\ known \cup past \cup mirror \cup leaving \subseteq 1..issued
    /\ stored \in 0..issued /\ answer \in [Tab -> 0..issued]
    /\ openedBy \in [Number -> [member : Member \cup {NoSession},
                               secret : {"none", "own", "made"}]]
    /\ tab \in [Tab -> {"closed", "login", "asking", "cabinet"}]
    /\ commands \subseteq Command
    /\ stray \cup forsaken \cup lost \subseteq 1..issued

SessionsInit ==
    /\ known = {} /\ issued = 0 /\ past = {} /\ edgeStarts = 0
    /\ openedBy = [s \in Number |-> [member |-> NoSession, secret |-> "none"]]
    /\ stored = NoSession /\ tab = [t \in Tab |-> "closed"]
    /\ answer = [t \in Tab |-> NoSession] /\ leaving = {}
    /\ mirror = {} /\ commands = {}
    /\ stray = {} /\ forsaken = {} /\ lost = {}

TabAt(t, where) == tab' = [tab EXCEPT ![t] = where]

\* loadSession: a stored session that is out of date is removed.
Loaded == IF stored \in past THEN NoSession ELSE stored
-----------------------------------------------------------------------------
(***************************************************************************)
(* The browser.                                                            *)
(***************************************************************************)

\* A page of the cabinet sends a visitor without a session to the login page,
\* and the login page one with a session to the dashboard.
OpenTab(t) ==
    /\ tab[t] # "asking"
    /\ stored' = Loaded
    /\ TabAt(t, IF Loaded = NoSession THEN "login" ELSE "cabinet")
    /\ UNCHANGED <<memory, answer, leaving, redis, sessionGhosts>>

PressLogin(t) ==
    /\ tab[t] = "login"
    /\ TabAt(t, "asking")
    /\ UNCHANGED <<memory, stored, answer, leaving, redis, sessionGhosts>>

\* saveSession replaces what another tab has stored.
LoginAnswered(t) ==
    /\ tab[t] = "asking" /\ answer[t] # NoSession
    /\ stored' = answer[t] /\ answer' = [answer EXCEPT ![t] = NoSession]
    /\ TabAt(t, "cabinet")
    /\ forsaken' = forsaken \cup ({stored} \ {NoSession, answer[t]})
    /\ UNCHANGED <<memory, leaving, redis, stray, lost>>

\* Refused, or an answer that does not arrive.
LoginFails(t) ==
    /\ tab[t] = "asking"
    /\ forsaken' = forsaken \cup ({answer[t]} \ {NoSession})
    /\ answer' = [answer EXCEPT ![t] = NoSession]
    /\ TabAt(t, "login")
    /\ UNCHANGED <<memory, stored, leaving, redis, stray, lost>>

\* The edge is told, and not waited for; the storage is cleared.
PressLogout(t) ==
    /\ tab[t] = "cabinet"
    /\ leaving' = leaving \cup ({Loaded} \ {NoSession})
    /\ stored' = NoSession
    /\ TabAt(t, "login")
    /\ UNCHANGED <<memory, answer, redis, sessionGhosts>>
-----------------------------------------------------------------------------
(***************************************************************************)
(* The edge.                                                               *)
(***************************************************************************)

\* A password needs an account, and it allowlisted.
ByPassword(m) == IF m \in Listed THEN "own" ELSE "refused"

\* A mapped certificate or a verified token needs no account, and gets a secret
\* made for it; but an account there is must be allowlisted.
ByCertificate(m) ==
    IF m \notin Certified \/ m \in Account \ Listed THEN "refused"
    ELSE IF m \in Account THEN "own" ELSE "made"

\* issueSession: the session is remembered, then sent to Redis.
Issue(t) ==
    LET s == issued + 1 IN
    /\ tab[t] = "asking" /\ answer[t] = NoSession /\ issued < MaxSessions
    /\ \E m \in Member : \E secret \in {ByPassword(m), ByCertificate(m)} \ {"refused"} :
          openedBy' = [openedBy EXCEPT ![s] = [member |-> m, secret |-> secret]]
    /\ issued' = s /\ known' = known \cup {s} /\ answer' = [answer EXCEPT ![t] = s]
    /\ commands' = commands \cup {Set(s)}
    /\ UNCHANGED <<past, edgeStarts, stored, tab, leaving, mirror, sessionGhosts>>

\* Faulty variant of Forget: Redis is not told.
ForgetHere(s) ==
    /\ known' = known \ {s}
    /\ UNCHANGED commands

Forget(s) ==
    /\ known' = known \ {s}
    /\ commands' = commands \cup {Del(s)}

\* logout; or it does not arrive.
LogoutArrives(s) ==
    /\ s \in leaving /\ leaving' = leaving \ {s}
    /\ \/ Forget(s) /\ UNCHANGED forsaken
       \/ forsaken' = forsaken \cup {s} /\ UNCHANGED <<known, commands>>
    /\ UNCHANGED <<issued, past, openedBy, edgeStarts, stored, tab, answer, mirror, stray, lost>>

\* resolve, in any request that carries a session: one out of date goes.
Resolve(t) ==
    /\ tab[t] = "cabinet" /\ stored \in known \cap past
    /\ Forget(stored)
    /\ UNCHANGED <<issued, past, openedBy, edgeStarts, tabs, mirror, sessionGhosts>>

TimePasses(s) ==
    /\ s \in (1..issued) \ past
    /\ past' = past \cup {s}
    /\ UNCHANGED <<known, issued, openedBy, edgeStarts, tabs, redis, sessionGhosts>>

EdgeStartsAgain ==
    /\ edgeStarts < MaxEdgeStarts /\ edgeStarts' = edgeStarts + 1
    /\ known' = {} /\ commands' = {} /\ answer' = [t \in Tab |-> NoSession]
    /\ lost' = lost \cup known
    /\ forsaken' = forsaken \cup ({answer[t] : t \in Tab} \ {NoSession})
    /\ stray' = stray \cup 1..issued
    /\ UNCHANGED <<issued, past, openedBy, stored, tab, leaving, mirror>>
-----------------------------------------------------------------------------
(***************************************************************************)
(* Redis.                                                                  *)
(***************************************************************************)
CommandRuns(c) ==
    /\ c \in commands /\ commands' = commands \ {c}
    /\ \/ c.op = "set" /\ mirror' = mirror \cup {c.of}
       \/ c.op = "del" /\ mirror' = mirror \ {c.of}
    \* a deletion that overtakes its writing finds nothing to delete
    /\ stray' = IF c.op = "del" /\ Set(c.of) \in commands THEN stray \cup {c.of} ELSE stray
    /\ UNCHANGED <<memory, tabs, forsaken, lost>>

CommandFails(c) ==
    /\ c \in commands /\ commands' = commands \ {c}
    /\ stray' = IF c.op = "del" THEN stray \cup {c.of} ELSE stray
    /\ UNCHANGED <<memory, tabs, mirror, forsaken, lost>>

\* Not before the session is out of date.
MirrorExpires(s) ==
    /\ s \in mirror \cap past /\ Set(s) \notin commands
    /\ mirror' = mirror \ {s}
    /\ UNCHANGED <<memory, tabs, commands, sessionGhosts>>
-----------------------------------------------------------------------------
SessionsNext ==
    \/ \E t \in Tab : OpenTab(t) \/ PressLogin(t) \/ LoginAnswered(t) \/ LoginFails(t)
                      \/ PressLogout(t) \/ Issue(t) \/ Resolve(t)
    \/ \E s \in Number : LogoutArrives(s) \/ TimePasses(s) \/ MirrorExpires(s)
    \/ \E c \in Command : CommandRuns(c) \/ CommandFails(c)
    \/ EdgeStartsAgain

SessionsSpec == SessionsInit /\ [][SessionsNext]_sessionVars
-----------------------------------------------------------------------------
\* A session in the browser that is not out of date is one the edge knows, or
\* one that it forgot in a restart: the browser then keeps it, and the login
\* page sends its user back to the dashboard, until the user logs out.
StoredIsKnown == stored # NoSession /\ stored \notin past => stored \in known \cup lost

\* A session the edge would accept is in the browser, or on its way there or
\* to its end; unless an answer or a logout did not arrive, or a login in
\* another tab replaced it.
KnownIsHeld ==
    \A s \in known \ past :
        s = stored \/ s \in leaving \cup forsaken \/ \E t \in Tab : answer[t] = s

\* Redis holds no session that the edge has ended, unless the deletion is on
\* its way, failed, or overtook the writing, or the edge was restarted.
MirrorHoldsKnown ==
    \A s \in mirror : s \in known \/ Del(s) \in commands \/ s \in stray

\* Whichever way it was opened, a session of an institution with an account is
\* of an allowlisted one and carries the secret of the account; only one without
\* carries a secret made for it, with which the core will refuse every hand-off.
SecretIsOfAccount ==
    \A s \in known : LET o == openedBy[s] IN
        IF o.member \in Account THEN o.member \in Listed /\ o.secret = "own"
        ELSE o.secret = "made"

\* Sessions are known alike at the edge, in Redis and in the browser; the exceptions are named.
SessionsAreKnown ==
    /\ SessionsTypeOK
    /\ StoredIsKnown
    /\ KnownIsHeld
    /\ MirrorHoldsKnown
    /\ SecretIsOfAccount
=============================================================================
