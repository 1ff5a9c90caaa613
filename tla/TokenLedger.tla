----------------------------- MODULE TokenLedger -----------------------------
(***************************************************************************)
(* TokenService (src/src/token/token.service.ts): the balances in memory   *)
(* and the facts in the journal they are a projection of.                  *)
(*                                                                         *)
(* Each operation changes the balances first and appends its fact after,   *)
(* so between the two another operation may run, the append may fail or    *)
(* the process may die.  One action is one piece of an operation between   *)
(* two awaits; pc[c] names the await caller c is suspended at:             *)
(*   gate     resolveOkToEmit's read        hydrate  listAll               *)
(*   ready    ensureHydrated returns        check    listByProcessId       *)
(*   lookup   append looks its key up       tip      append reads the tip  *)
(*   written  append returns                                               *)
(*                                                                         *)
(* The journal is what NodeChain shows of it: a sequence of facts, a read  *)
(* returns a prefix (its length is read[c]), and an append that finds its  *)
(* key unused succeeds exactly if nothing was appended since it read the   *)
(* tip.                                                                    *)
(*                                                                         *)
(* Bounds: MaxCalls calls per caller, MaxFacts facts, MaxCrashes crashes,  *)
(* MaxFailures appends that fail for reasons of their own.                 *)
(***************************************************************************)
EXTENDS Supply, FiniteSets

CONSTANTS Caller, Process, Holder,
          Verified,    \* processes with a journalled verdict verified = 1
          Amount,      \* amounts of a request, in arx
          Value,       \* valuations of a revaluation
          Operation,   \* the operations the callers use
          Overlapping, \* the requests that callers may make at the same time
          NoFact,
          MaxCalls, MaxFacts, MaxCrashes, MaxFailures

ASSUME LedgerAssumption ==
    /\ IsFiniteSet(Caller) /\ IsFiniteSet(Holder)
    /\ Verified \subseteq Process
    /\ Amount \subseteq Nat \ {0} /\ Value \subseteq Nat
    /\ Operation \subseteq {"mint", "remint", "burn", "transfer", "reval"}
    /\ MaxCalls \in Nat /\ MaxFacts \in Nat
    /\ MaxCrashes \in Nat /\ MaxFailures \in Nat

VARIABLES serial,      \* operations do not overlap, chosen once
          balances, minted, reminted, hydrated, \* the fields of TokenService
          journal,                              \* facts appended so far
          pc, req, read, found, fact,           \* the suspended operations
          calls, outcome,
          crashes, failures,
          told,      \* ghost: facts whose operation was reported done
          used,      \* ghost: processes used for a transfer or a revaluation
          raced,     \* ghost: keys two overlapping appends have used
          disturbed, \* ghost: an effect and its fact have come apart
          shortfall  \* ghost: a debit has thrown after others took effect

memory == <<balances, minted, reminted, hydrated>>
locals == <<pc, req, read, found, fact>>
ghosts == <<told, used, raced, disturbed, shortfall>>
faults == <<crashes, failures>>
vars == <<serial, memory, journal, locals, calls, outcome, faults, ghosts>>

Request ==
    [op : Operation \cap {"mint", "remint", "burn"}, pid : Process,
     holder : Holder, amount : Amount]
    \cup {r \in [op : Operation \cap {"transfer"}, pid : Process,
                 holder : Holder, to : Holder, amount : Amount] : r.holder # r.to}
    \cup [op : Operation \cap {"reval"}, pid : Process,
          previous : Value \ {0}, new : Value]

ASSUME OverlappingAssumption == Overlapping \subseteq Request

NoRequest == [op |-> "none"]
Await == {"idle", "gate", "hydrate", "ready", "check", "lookup", "tip", "written"}

\* A fact: op and pid name its record, claim tells burns of one process apart
\* (their clientRecordId holds a fresh UUID), entries are its signed amounts.
IsFact(f) ==
    /\ f.op \in Operation /\ f.pid \in Process
    /\ \A i \in DOMAIN f.entries :
         f.entries[i].holder \in Holder /\ f.entries[i].amount \in Int

SameKey(f, g) == f.op = g.op /\ f.pid = g.pid /\ f.claim = g.claim

\* Faulty variant of Journalled: the key is not looked up.
JournalledNever(f) == FALSE

Journalled(f) == \E i \in DOMAIN journal : SameKey(journal[i], f)

TypeOK ==
    /\ serial \in BOOLEAN
    /\ balances \in [Holder -> Nat]
    /\ minted \subseteq Process /\ reminted \subseteq Process
    /\ hydrated \in BOOLEAN
    /\ Len(journal) <= MaxFacts /\ \A i \in DOMAIN journal : IsFact(journal[i])
    /\ pc \in [Caller -> Await]
    /\ \A c \in Caller : req[c] \in Request \/ req[c] = NoRequest
    /\ read \in [Caller -> 0..Len(journal)]
    /\ found \in [Caller -> BOOLEAN]
    /\ \A c \in Caller : fact[c] = NoFact \/ IsFact(fact[c])
    /\ calls \in [Caller -> 0..MaxCalls]
    /\ crashes \in 0..MaxCrashes /\ failures \in 0..MaxFailures

Nothing == [h \in Holder |-> 0]

Init ==
    /\ serial \in BOOLEAN
    /\ balances = Nothing /\ minted = {} /\ reminted = {} /\ hydrated = FALSE
    /\ journal = <<>>
    /\ pc = [c \in Caller |-> "idle"] /\ req = [c \in Caller |-> NoRequest]
    /\ read = [c \in Caller |-> 0] /\ found = [c \in Caller |-> FALSE]
    /\ fact = [c \in Caller |-> NoFact]
    /\ calls = [c \in Caller |-> 0] /\ outcome = [c \in Caller |-> "none"]
    /\ crashes = 0 /\ failures = 0
    /\ told = {} /\ used = {} /\ raced = {}
    /\ disturbed = FALSE /\ shortfall = FALSE
-----------------------------------------------------------------------------
\* The mint facts, remints among them, of process p.
Mints(facts, p) ==
    {i \in DOMAIN facts : facts[i].op \in {"mint", "remint"} /\ facts[i].pid = p}

\* Faulty variant of ReplayFact: facts of a partial release are skipped.
ReplayFactNoRemint(state, f) ==
    IF f.op = "remint" \/ ~state.ok THEN state
    ELSE LET applied == Apply(state.balances, f.entries)
         IN  [balances |-> applied.balances, ok |-> applied.ok,
              minted |-> state.minted \cup IF f.op = "mint" THEN {f.pid} ELSE {}]

\* Faulty variant of ReplayFact: every fact marks its process as minted.
ReplayFactAllMinted(state, f) ==
    IF ~state.ok THEN state
    ELSE LET applied == Apply(state.balances, f.entries)
         IN  [balances |-> applied.balances, ok |-> applied.ok,
              minted |-> state.minted \cup {f.pid}]

\* hydrateFromJournal's loop.  A debit that throws ends it half way.
ReplayFact(state, f) ==
    IF ~state.ok THEN state
    ELSE LET applied == Apply(state.balances, f.entries)
         IN  [balances |-> applied.balances, ok |-> applied.ok,
              minted |-> state.minted \cup
                  IF f.op \in {"mint", "remint"} THEN {f.pid} ELSE {}]

Replay(facts) ==
    FoldLeft(ReplayFact, [balances |-> Nothing, ok |-> TRUE, minted |-> {}], facts)

\* What the last read of c returned.
ReadBy(c) == SubSeq(journal, 1, read[c])

Suspend(c, where) == pc' = [pc EXCEPT ![c] = where]

Finish(c, result) ==
    /\ Suspend(c, "idle")
    /\ outcome' = [outcome EXCEPT ![c] = result]
    /\ req' = [req EXCEPT ![c] = NoRequest]
    /\ read' = [read EXCEPT ![c] = 0]
    /\ found' = [found EXCEPT ![c] = FALSE]
    /\ fact' = [fact EXCEPT ![c] = NoFact]

\* ensureHydrated: at once if hydrated, after a listAll if not.
AwaitHydration(c) ==
    /\ Suspend(c, IF hydrated THEN "ready" ELSE "hydrate")
    /\ read' = [read EXCEPT ![c] = Len(journal)]

\* Operations in which the balance and its fact may now differ.
Unjournalled(c) == pc[c] \in {"lookup", "tip"}

\* mintAfterPot and remintAfterPartialRelease start at the gate.
CallMint(c, r) ==
    /\ pc[c] = "idle" /\ r.op \in {"mint", "remint"}
    /\ Suspend(c, "gate")
    /\ req' = [req EXCEPT ![c] = r]
    /\ UNCHANGED <<memory, journal, read, found, fact, outcome, faults, ghosts>>

\* burn, transferAfterPot and revalueAfterPot start with the hydration.  The
\* pipelines open a new process for every transfer and revaluation.
CallDirect(c, r) ==
    /\ pc[c] = "idle" /\ r.op \in {"burn", "transfer", "reval"}
    /\ r.op # "burn" => r.pid \in Verified \ used
    /\ used' = IF r.op = "burn" THEN used ELSE used \cup {r.pid}
    /\ AwaitHydration(c)
    /\ req' = [req EXCEPT ![c] = r]
    /\ UNCHANGED <<memory, journal, found, fact, outcome, faults, told, raced,
                   disturbed, shortfall>>

Call(c) ==
    /\ calls[c] < MaxCalls
    /\ serial => \A d \in Caller : pc[d] = "idle"
    /\ calls' = [calls EXCEPT ![c] = @ + 1]
    /\ \E r \in Request :
        /\ serial \/ r \in Overlapping
        /\ CallMint(c, r) \/ CallDirect(c, r)

\* resolveOkToEmit: without a journalled verdict the mint is refused.
PassGate(c) ==
    /\ pc[c] = "gate"
    /\ IF req[c].pid \in Verified
       THEN AwaitHydration(c) /\ UNCHANGED <<req, found, fact, outcome>>
       ELSE Finish(c, "MINT_WITHOUT_POT")
    /\ UNCHANGED <<memory, journal, calls, faults, ghosts>>

\* hydrateFromJournal, resumed with what listAll returned.  It drops what
\* others have done to the balances since, or are about to journal.
Hydrate(c) ==
    /\ pc[c] = "hydrate"
    /\ LET replayed == Replay(ReadBy(c)) IN
         /\ balances' = replayed.balances
         /\ minted' = replayed.minted
         /\ IF replayed.ok
            THEN /\ hydrated' = TRUE
                 /\ Suspend(c, "ready")
                 /\ UNCHANGED <<req, read, found, fact, outcome>>
            ELSE Finish(c, "INSUFFICIENT") /\ UNCHANGED hydrated
    /\ disturbed' = (read[c] < Len(journal) \/ \E d \in Caller : Unjournalled(d))
    /\ UNCHANGED <<reminted, journal, calls, faults, told, used, raced, shortfall>>

\* mintAfterPot 148: the set in memory, then a read of the journal.
MintCheck(c) ==
    /\ pc[c] = "ready" /\ req[c].op = "mint"
    /\ IF req[c].pid \in minted
       THEN Finish(c, "DOUBLE_MINT")
       ELSE /\ Suspend(c, "check")
            /\ read' = [read EXCEPT ![c] = Len(journal)]
            /\ UNCHANGED <<req, found, fact, outcome>>
    /\ UNCHANGED <<memory, journal, calls, faults, ghosts>>

\* remintAfterPartialRelease 212: a read of the journal.
RemintCheck(c) ==
    /\ pc[c] = "ready" /\ req[c].op = "remint"
    /\ Suspend(c, "check")
    /\ read' = [read EXCEPT ![c] = Len(journal)]
    /\ UNCHANGED <<memory, journal, req, found, fact, calls, outcome, faults,
                   ghosts>>

\* The entries change the balances and the append of their fact begins.  If a
\* debit throws, the entries before it stay.
TakeEffect(c, entries) ==
    LET applied == Apply(balances, entries)
        f == [op |-> req[c].op, pid |-> req[c].pid, entries |-> entries,
              claim |-> IF req[c].op = "burn" THEN <<c, calls[c]>> ELSE <<>>]
    IN  /\ balances' = applied.balances
        /\ IF applied.ok
           THEN /\ Suspend(c, "lookup")
                /\ fact' = [fact EXCEPT ![c] = f]
                /\ found' = [found EXCEPT ![c] = Journalled(f)]
                /\ raced' = IF \E d \in Caller : Unjournalled(d) /\ SameKey(fact[d], f)
                            THEN raced \cup {<<f.op, f.pid>>} ELSE raced
                /\ UNCHANGED <<req, read, outcome, disturbed, shortfall>>
           ELSE /\ Finish(c, "INSUFFICIENT")
                /\ disturbed' = (disturbed \/ applied.balances # balances)
                /\ shortfall' = (shortfall \/ applied.balances # balances)
                /\ UNCHANGED raced
        /\ UNCHANGED <<hydrated, journal, calls, faults, told, used>>

Credit(c) == <<[holder |-> req[c].holder, amount |-> req[c].amount]>>

\* mintAfterPot 148-175.
Mint(c) ==
    /\ pc[c] = "check" /\ req[c].op = "mint"
    /\ Mints(ReadBy(c), req[c].pid) = {}
    /\ TakeEffect(c, Credit(c))
    /\ minted' = minted \cup {req[c].pid}
    /\ UNCHANGED reminted

MintRefused(c) ==
    /\ pc[c] = "check" /\ req[c].op = "mint"
    /\ Mints(ReadBy(c), req[c].pid) # {}
    /\ Finish(c, "DOUBLE_MINT")
    /\ UNCHANGED <<memory, journal, calls, faults, ghosts>>

\* remintAfterPartialRelease 213-254: after a burn, and once.
Burnt(facts, p) == \E i \in DOMAIN facts : facts[i].op = "burn" /\ facts[i].pid = p
Reminted(facts, p) == \E i \in DOMAIN facts : facts[i].op = "remint" /\ facts[i].pid = p

MayRemint(c) ==
    /\ Burnt(ReadBy(c), req[c].pid)
    /\ req[c].pid \notin reminted /\ ~Reminted(ReadBy(c), req[c].pid)

Remint(c) ==
    /\ pc[c] = "check" /\ req[c].op = "remint" /\ MayRemint(c)
    /\ TakeEffect(c, Credit(c))
    /\ reminted' = reminted \cup {req[c].pid}
    /\ UNCHANGED minted

RemintRefused(c) ==
    /\ pc[c] = "check" /\ req[c].op = "remint" /\ ~MayRemint(c)
    /\ Finish(c, IF Burnt(ReadBy(c), req[c].pid) THEN "DOUBLE_REMINT"
                 ELSE "INVALID_PROCESS")
    /\ UNCHANGED <<memory, journal, calls, faults, ghosts>>

\* burn 276-285, transferAfterPot 331-341.
Debit(c) == <<[holder |-> req[c].holder, amount |-> -req[c].amount]>>

Burn(c) ==
    /\ pc[c] = "ready" /\ req[c].op = "burn"
    /\ TakeEffect(c, Debit(c))
    /\ UNCHANGED <<minted, reminted>>

Transfer(c) ==
    /\ pc[c] = "ready" /\ req[c].op = "transfer"
    /\ TakeEffect(c, Debit(c) \o <<[holder |-> req[c].to, amount |-> req[c].amount]>>)
    /\ UNCHANGED <<minted, reminted>>

\* revalueAfterPot 388-418, over the balances in any order of their map.
Revalue(c) ==
    /\ pc[c] = "ready" /\ req[c].op = "reval"
    /\ SumFunction(balances) > 0
    /\ \E order \in Orders(balances) :
         TakeEffect(c, Allocations(balances, order, req[c].previous, req[c].new))
    /\ UNCHANGED <<minted, reminted>>

RevalueRefused(c) ==
    /\ pc[c] = "ready" /\ req[c].op = "reval"
    /\ SumFunction(balances) = 0
    /\ Finish(c, "ZERO_SUPPLY")
    /\ UNCHANGED <<memory, journal, calls, faults, ghosts>>

\* append: the key is in the journal already; the earlier fact is the answer.
AnswerExisting(c) ==
    /\ pc[c] = "lookup" /\ found[c]
    /\ told' = told \cup {fact[c]}
    /\ disturbed' = TRUE
    /\ Finish(c, "ok")
    /\ UNCHANGED <<memory, journal, calls, faults, used, raced, shortfall>>

ReadTip(c) ==
    /\ pc[c] = "lookup" /\ ~found[c]
    /\ Suspend(c, "tip")
    /\ read' = [read EXCEPT ![c] = Len(journal)]
    /\ UNCHANGED <<memory, journal, req, found, fact, calls, outcome, faults,
                   ghosts>>

Write(c) ==
    /\ pc[c] = "tip" /\ read[c] = Len(journal) /\ Len(journal) < MaxFacts
    /\ journal' = Append(journal, fact[c])
    /\ Suspend(c, "written")
    /\ UNCHANGED <<memory, req, read, found, fact, calls, outcome, faults, ghosts>>

\* The append throws and so does the operation; its effect stays.
AppendThrows(c) ==
    /\ Finish(c, "STORAGE")
    /\ disturbed' = TRUE
    /\ UNCHANGED <<memory, journal, calls, told, used, raced, shortfall>>

\* Another append has taken the height since the tip was read.
WriteRefused(c) ==
    /\ pc[c] = "tip" /\ read[c] < Len(journal)
    /\ AppendThrows(c)
    /\ UNCHANGED faults

\* The store fails, or the journal has become read-only.
AppendFails(c) ==
    /\ Unjournalled(c) /\ failures < MaxFailures
    /\ failures' = failures + 1
    /\ AppendThrows(c)
    /\ UNCHANGED crashes

Answer(c) ==
    /\ pc[c] = "written"
    /\ told' = told \cup {fact[c]}
    /\ Finish(c, "ok")
    /\ UNCHANGED <<memory, journal, calls, faults, used, raced, disturbed, shortfall>>

\* The process dies and is started again: the journal remains.
Crash ==
    /\ crashes < MaxCrashes
    /\ crashes' = crashes + 1
    /\ balances' = Nothing /\ minted' = {} /\ reminted' = {} /\ hydrated' = FALSE
    /\ pc' = [c \in Caller |-> "idle"] /\ req' = [c \in Caller |-> NoRequest]
    /\ read' = [c \in Caller |-> 0] /\ found' = [c \in Caller |-> FALSE]
    /\ fact' = [c \in Caller |-> NoFact]
    /\ outcome' = [c \in Caller |-> "none"]
    /\ disturbed' = FALSE
    /\ UNCHANGED <<journal, calls, failures, told, used, raced, shortfall>>

Step ==
    \/ \E c \in Caller :
        \/ Call(c) \/ PassGate(c) \/ Hydrate(c)
        \/ MintCheck(c) \/ Mint(c) \/ MintRefused(c)
        \/ RemintCheck(c) \/ Remint(c) \/ RemintRefused(c)
        \/ Burn(c) \/ Transfer(c) \/ Revalue(c) \/ RevalueRefused(c)
        \/ AnswerExisting(c) \/ ReadTip(c) \/ Write(c) \/ WriteRefused(c)
        \/ AppendFails(c) \/ Answer(c)
    \/ Crash

Next == Step /\ UNCHANGED serial

Spec == Init /\ [][Next]_vars
-----------------------------------------------------------------------------
AtRest == \A c \in Caller : pc[c] = "idle"

\* The sum of all entries of the journal, whatever their order.
AddEntry(sum, entry) == [sum EXCEPT ![entry.holder] = @ + entry.amount]
AddFact(sum, f) == FoldLeft(AddEntry, sum, f.entries)
Net(facts) == FoldLeft(AddFact, Nothing, facts)

\* Overlapping operations keep the balances equal to the journal's net amounts
\* unless one of the few things that set disturbed has happened: an append
\* that threw or found its key taken, a debit that threw half way, a hydration
\* from a stale read or across an unfinished operation.
ProjectionUnlessDisturbed ==
    AtRest /\ hydrated /\ ~disturbed => balances = Net(journal)

\* A process has two mint facts, or two remint facts, only if two appends of
\* the same key overlapped: check, effect and append survive every other
\* interleaving, crash and retry.
MintedOnceUnlessRaced ==
    \A i, j \in DOMAIN journal :
        /\ i # j /\ journal[i].op \in {"mint", "remint"}
        /\ journal[i].op = journal[j].op /\ journal[i].pid = journal[j].pid
        => <<journal[i].op, journal[i].pid>> \in raced

\* An operation that was reported done has a fact in the journal, through
\* every race, failure and crash.
ToldIsJournalled == \A f \in told : Journalled(f)

\* "hydrateFromJournal() rebuilds balances from SoT": of operations one at a time, none of
\* whose appends failed and none of which threw half way, a replay never fails.
ReplaySucceeds == serial /\ failures = 0 /\ ~shortfall => Replay(journal).ok

\* "Every supply change is a journaled fact": of operations one at a time the balances in
\* memory at rest are those a restart would rebuild, unless an append failed or a
\* revaluation of three holders or more threw after it had changed some balances.
MemoryIsReplay ==
    serial /\ failures = 0 /\ ~shortfall /\ AtRest /\ hydrated =>
        balances = Replay(journal).balances

\* A mint that nothing overlapped and no append failed before, refused as a double mint, has
\* its mint in the journal: a caller that takes the refusal for "already done" is right.
RefusedMintIsJournalled ==
    [][\A c \in Caller :
          serial /\ failures = 0 /\ outcome'[c] = "DOUBLE_MINT" /\ pc[c] # "idle" /\ pc'[c] = "idle"
          => Mints(journal, req[c].pid) # {}]_vars

\* The ledger is its journal: what is in memory at rest is what the journal adds up to, what
\* was reported done is journalled, and a replay rebuilds it; each as far as its part says.
LedgerFollowsJournal ==
    /\ TypeOK
    /\ ReplaySucceeds
    /\ MemoryIsReplay
    /\ ProjectionUnlessDisturbed
    /\ ToldIsJournalled
-----------------------------------------------------------------------------
(***************************************************************************)
(* The inductive invariant behind MintedOnceUnlessRaced and                *)
(* ToldIsJournalled: what the lookup of a suspended append still says      *)
(* about the journal when the append is resumed.                           *)
(***************************************************************************)
KeyRaced(f) == <<f.op, f.pid>> \in raced

\* Only burns tell their facts apart by more than operation and process.
PlainKey(f) == f.op \in {"mint", "remint"} => f.claim = <<>>

\* The answer of the lookup holds until the append ends: a key that was found
\* stays journalled, one that was not is journalled by others only in a race.
CallInv(c) ==
    /\ pc[c] \in {"lookup", "tip", "written"} => PlainKey(fact[c])
    /\ pc[c] = "tip" => ~found[c]
    /\ pc[c] = "lookup" /\ found[c] => Journalled(fact[c])
    /\ pc[c] = "written" => Journalled(fact[c])
    /\ Unjournalled(c) /\ ~found[c] => KeyRaced(fact[c]) \/ ~Journalled(fact[c])

AppendInv ==
    /\ journal \in Seq(ToSet(journal))
    /\ pc \in [Caller -> Await] /\ found \in [Caller -> BOOLEAN]
    /\ DOMAIN fact = Caller
    /\ \A c \in Caller : CallInv(c)
    /\ \A c, d \in Caller :
         c # d /\ Unjournalled(c) /\ Unjournalled(d) /\ SameKey(fact[c], fact[d])
         => KeyRaced(fact[c])
    /\ \A i \in DOMAIN journal : PlainKey(journal[i])
    /\ \A i, j \in DOMAIN journal :
         i # j /\ SameKey(journal[i], journal[j]) => KeyRaced(journal[i])
    /\ ToldIsJournalled
=============================================================================
