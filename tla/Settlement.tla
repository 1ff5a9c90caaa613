----------------------------- MODULE Settlement -----------------------------
(***************************************************************************)
(* What is paid after a mint: CommissionService.settle and                 *)
(* distributeNodePayment, ReserveService.accrueFromCommission and          *)
(* partialRelease, the lazy hydration of both services, and the tick of    *)
(* the release daemon.                                                     *)
(*                                                                         *)
(* Each service keeps in memory what it could recompute from the journal;  *)
(* an effect is applied to memory first and its record appended an await   *)
(* later.  A record goes by the fact it states, the process it belongs to, *)
(* whom it concerns and its amount; NodeChainService models the append.    *)
(*                                                                         *)
(* A call is one action per piece between two awaits; pc names the await:  *)
(*   "settle"    ensureHydrated of the commission, hydrated already        *)
(*   "cload"     the commission reads the journal to hydrate from it       *)
(*   "settled?"  the journal is read for an earlier settlement             *)
(*   "pay"       commission_settled or a payment was appended              *)
(*   "accrue"    ensureHydrated of the reserve, for an accrual             *)
(*   "rload"     the reserve reads the journal to hydrate from it          *)
(*   "accrued?"  the journal is read for an earlier accrual                *)
(*   "append"    the append of the record in due; then on to next          *)
(*   "velocity"  the daemon lists the journal for the velocity             *)
(*   "idle"      at rest                                                   *)
(*                                                                         *)
(* A module that extends this one adds operations with pcs of their own.   *)
(* Bounds: MaxCalls for each caller, MaxFaults restarts or failing appends.*)
(***************************************************************************)
EXTENDS Integers, Sequences, SequencesExt, FiniteSets

CONSTANTS
    Caller,
    Minted,         \* the processes that were minted and are to be settled
    Node,           \* the confirmers that are paid
    Holder,
    Nobody,         \* "who" of a record that concerns no one
    Payment,        \* what each node is paid for a process
    AstShare,       \* what of the commission goes to the reserve
    Volume,         \* the valuation of a process
    Threshold,      \* the release phase begins above this volume
    MaxCalls, MaxFaults

ASSUME AmountsAssumption == {Payment, AstShare, Volume, Threshold, MaxCalls, MaxFaults} \subseteq Nat
ASSUME NobodyAssumption == Nobody \notin Node \cup Holder

VARIABLES
    journal,
    commission,     \* CommissionService: hydrated, settled processes, credits of the nodes
    reserve,        \* ReserveService: hydrated, own balance, volume, accrued processes
    active,         \* ReleaseDaemon.active
    pc,
    call,           \* of each call: its process, the record due and where it goes on, what
                    \* it read, the nodes left to pay, what another operation passes on
    calls, faults,
    raced,          \* history: two calls settled one process at the same time
    rehydrated,     \* history: a service was hydrated again over effects it had applied
    lost,           \* history: an append failed after its effect
    cut             \* history: a restart cut an append off after its effect

services == <<commission, reserve, active>>
running == <<pc, call>>
history == <<raced, rehydrated, lost, cut>>
settlementVars == <<journal, services, running, calls, faults, history>>

Fact(f, pid, who, amount) == [fact |-> f, pid |-> pid, who |-> who, amount |-> amount]
NoFact == Fact("none", Nobody, Nobody, 0)
NoArgs == [then |-> "none"]
NoCall == [pid |-> Nobody, due |-> NoFact, next |-> "idle", log |-> <<>>, amount |-> 0,
           left |-> {}, args |-> NoArgs]
Journalled(f, pid) == \E i \in DOMAIN journal : journal[i].fact = f /\ journal[i].pid = pid
Total(log, f) == SumFunction([i \in DOMAIN log |-> IF log[i].fact = f THEN log[i].amount ELSE 0])
TotalTo(log, f, n) ==
    SumFunction([i \in DOMAIN log |-> IF log[i].fact = f /\ log[i].who = n THEN log[i].amount ELSE 0])
Count(log, f) == SumFunction([i \in DOMAIN log |-> IF log[i].fact = f THEN 1 ELSE 0])
Of(log, f) == {log[i].pid : i \in {j \in DOMAIN log : log[j].fact = f}}

\* hydrateFromJournal of the commission.
CommissionFrom(log) ==
    [hydrated |-> TRUE, settled |-> Of(log, "commission"),
     credits |-> [n \in Node |-> TotalTo(log, "paid", n)]]

\* Faulty variant of ReserveFrom: the releases are not subtracted.
ReserveFromAccruals(log) ==
    [hydrated |-> TRUE, own |-> Total(log, "accrual"), accrued |-> Of(log, "accrual"),
     volume |-> Volume * Count(log, "accrual")]

\* hydrateFromJournal of the reserve.
ReserveFrom(log) ==
    [hydrated |-> TRUE, own |-> Total(log, "accrual") - Total(log, "released"),
     accrued |-> Of(log, "accrual"), volume |-> Volume * Count(log, "accrual")]

ColdCommission == [CommissionFrom(<<>>) EXCEPT !.hydrated = FALSE]
ColdReserve == [ReserveFrom(<<>>) EXCEPT !.hydrated = FALSE]

SettlementInit ==
    /\ commission = ColdCommission /\ reserve = ColdReserve /\ active = FALSE
    /\ pc = [c \in Caller |-> "idle"] /\ call = [c \in Caller |-> NoCall]
    /\ calls = [c \in Caller |-> 0] /\ faults = 0
    /\ raced = FALSE /\ rehydrated = FALSE /\ lost = FALSE /\ cut = FALSE

-----------------------------------------------------------------------------
Goto(c, l) == pc' = [pc EXCEPT ![c] = l]
Stop(c) == Goto(c, "idle") /\ call' = [call EXCEPT ![c] = NoCall]
Begin(c, l, pid) ==
    /\ pc[c] = "idle" /\ calls[c] < MaxCalls
    /\ calls' = [calls EXCEPT ![c] = @ + 1]
    /\ Goto(c, l)
    /\ call' = [call EXCEPT ![c] = [NoCall EXCEPT !.pid = pid]]
\* The append of a record that the call goes on from at next.
Due(c, f, next) ==
    /\ Goto(c, "append")
    /\ call' = [call EXCEPT ![c].due = f, ![c].next = next]

\* append under a key fixed by fact, process and whom it concerns.  The record that has the
\* key is returned, unless two calls append it at once and both find it missing.
AppendDue(c) ==
    LET r == call[c].due
        known == r \in ToSet(journal) IN
    /\ pc[c] = "append"
    /\ \/ journal' = IF known THEN journal ELSE Append(journal, r)
       \/ known /\ raced /\ journal' = Append(journal, r)
    /\ IF call[c].next = "idle" THEN Stop(c)
       ELSE Goto(c, call[c].next) /\ call' = [call EXCEPT ![c].due = NoFact, ![c].next = "idle"]
    /\ UNCHANGED <<services, calls, faults, history>>

\* The append throws, and the operation with it: the kill switch is engaged, or the
\* store fails.  What was applied to memory stays.
AppendFails(c) ==
    /\ pc[c] = "append" /\ faults < MaxFaults
    /\ faults' = faults + 1 /\ lost' = TRUE
    /\ Stop(c)
    /\ UNCHANGED <<journal, services, calls, raced, rehydrated, cut>>

-----------------------------------------------------------------------------
(***************************************************************************)
(* CommissionService                                                       *)
(***************************************************************************)
Settling(c, p) == call[c].pid = p /\ pc[c] # "idle"

Settle(c, p) ==
    /\ Begin(c, "settle", p)
    /\ raced' = (raced \/ \E d \in Caller \ {c} : Settling(d, p))
    /\ UNCHANGED <<journal, services, faults, rehydrated, lost, cut>>

\* Reads the journal and, in a later turn, replaces the memory by what it read.
LoadCommission(c) ==
    /\ pc[c] = "settle"
    /\ IF commission.hydrated THEN Goto(c, "settled?") /\ UNCHANGED call
       ELSE Goto(c, "cload") /\ call' = [call EXCEPT ![c].log = journal]
    /\ UNCHANGED <<journal, services, calls, faults, history>>

HydrateCommission(c) ==
    /\ pc[c] = "cload"
    /\ commission' = CommissionFrom(call[c].log)
    /\ rehydrated' = (rehydrated \/ commission.hydrated)
    /\ call' = [call EXCEPT ![c].log = <<>>]
    /\ Goto(c, "settled?")
    /\ UNCHANGED <<journal, reserve, active, calls, faults, raced, lost, cut>>

\* Memory and journal are checked; the fee is split and the settlement journalled.
CheckSettled(c) ==
    LET p == call[c].pid IN
    /\ pc[c] = "settled?"
    /\ IF p \in commission.settled \/ Journalled("commission", p) THEN Stop(c)
       ELSE /\ Goto(c, "append")
            /\ call' = [call EXCEPT
                    ![c].due = Fact("commission", p, Nobody, Payment * Cardinality(Node) + AstShare),
                    ![c].next = "pay", ![c].left = Node]
    /\ UNCHANGED <<journal, services, calls, faults, history>>

\* Faulty variant of PayNode: the node that gets the rest is forgotten.
PayButLast(c) ==
    LET p == call[c].pid IN
    /\ pc[c] = "pay"
    /\ IF Cardinality(call[c].left) < 2
       THEN /\ commission' = [commission EXCEPT !.settled = @ \cup {p}]
            /\ Goto(c, "accrue") /\ UNCHANGED call
       ELSE LET n == CHOOSE m \in call[c].left : TRUE IN
            /\ commission' = [commission EXCEPT !.credits[n] = @ + Payment]
            /\ Goto(c, "append")
            /\ call' = [call EXCEPT ![c].due = Fact("paid", p, n, Payment), ![c].next = "pay",
                                    ![c].left = @ \ {n}]
    /\ UNCHANGED <<journal, reserve, active, calls, faults, history>>

\* distributeNodePayment, one node after the other: credit first, then the record.
PayNode(c) ==
    LET p == call[c].pid IN
    /\ pc[c] = "pay"
    /\ IF call[c].left = {}
       THEN /\ commission' = [commission EXCEPT !.settled = @ \cup {p}]
            /\ Goto(c, "accrue") /\ UNCHANGED call
       ELSE LET n == CHOOSE m \in call[c].left : TRUE IN
            /\ commission' = [commission EXCEPT !.credits[n] = @ + Payment]
            /\ Goto(c, "append")
            /\ call' = [call EXCEPT ![c].due = Fact("paid", p, n, Payment), ![c].next = "pay",
                                    ![c].left = @ \ {n}]
    /\ UNCHANGED <<journal, reserve, active, calls, faults, history>>

-----------------------------------------------------------------------------
(***************************************************************************)
(* ReserveService                                                          *)
(***************************************************************************)
\* ensureHydrated of the reserve, on the way to after.
LoadReserve(c, at, after) ==
    /\ pc[c] = at
    /\ IF reserve.hydrated THEN Goto(c, after) /\ UNCHANGED call
       ELSE Goto(c, "rload") /\ call' = [call EXCEPT ![c].log = journal, ![c].next = after]
    /\ UNCHANGED <<journal, services, calls, faults, history>>

HydrateReserve(c) ==
    /\ pc[c] = "rload"
    /\ reserve' = ReserveFrom(call[c].log)
    /\ rehydrated' = (rehydrated \/ reserve.hydrated)
    /\ Goto(c, call[c].next)
    /\ call' = [call EXCEPT ![c].log = <<>>, ![c].next = "idle"]
    /\ UNCHANGED <<journal, commission, active, calls, faults, raced, lost, cut>>

\* accrueFromCommission: checked in memory and journal, applied, then journalled.
Accrue(c) ==
    LET p == call[c].pid IN
    /\ pc[c] = "accrued?"
    /\ IF p \in reserve.accrued \/ Journalled("accrual", p)
       THEN Stop(c) /\ UNCHANGED reserve
       ELSE /\ reserve' = [reserve EXCEPT !.own = @ + AstShare, !.volume = @ + Volume,
                                          !.accrued = @ \cup {p}]
            /\ Due(c, Fact("accrual", p, Nobody, AstShare), "idle")
    /\ UNCHANGED <<journal, commission, active, calls, faults, history>>

\* Faulty variant of ReleaseChild: the balance is not compared.
ReleaseChildUnchecked(c, amount, next) ==
    /\ reserve' = [reserve EXCEPT !.own = @ - amount]
    /\ Due(c, Fact("released", call[c].pid, Nobody, amount), next)
    /\ UNCHANGED <<journal, commission, active, calls, faults, history>>

\* partialRelease: a child claim on the reserve's own funds, refused beyond them.
ReleaseChild(c, amount, next) ==
    /\ IF reserve.own < amount
       THEN Stop(c) /\ UNCHANGED reserve
       ELSE /\ reserve' = [reserve EXCEPT !.own = @ - amount]
            /\ Due(c, Fact("released", call[c].pid, Nobody, amount), next)
    /\ UNCHANGED <<journal, commission, active, calls, faults, history>>

-----------------------------------------------------------------------------
(***************************************************************************)
(* ReleaseDaemon                                                           *)
(***************************************************************************)
\* status reads the index, then lists the journal for the velocity.
Status(c) ==
    /\ pc[c] = "idle" /\ calls[c] < MaxCalls
    /\ calls' = [calls EXCEPT ![c] = @ + 1]
    /\ Goto(c, "velocity")
    /\ call' = [call EXCEPT ![c] = [NoCall EXCEPT !.amount = reserve.volume]]
    /\ UNCHANGED <<journal, services, faults, history>>

\* tick: the phase is set at once and then journalled under a key of this moment.
\* Whether the velocity is above its target depends on the clock.
Tick(c) ==
    /\ pc[c] = "velocity"
    /\ \E fast \in BOOLEAN :
        IF ~active /\ call[c].amount > Threshold /\ fast
        THEN active' = TRUE /\ Due(c, Fact("activated", c, Nobody, Len(journal)), "idle")
        ELSE Stop(c) /\ UNCHANGED active
    /\ UNCHANGED <<journal, commission, reserve, calls, faults, history>>

\* The process dies and starts again.
SettlementRestart ==
    /\ faults < MaxFaults
    /\ faults' = faults + 1
    /\ cut' = (cut \/ \E c \in Caller : pc[c] = "append")
    /\ commission' = ColdCommission /\ reserve' = ColdReserve /\ active' = FALSE
    /\ pc' = [c \in Caller |-> "idle"] /\ call' = [c \in Caller |-> NoCall]
    /\ UNCHANGED <<journal, calls, raced, rehydrated, lost>>

SettlementStep(c) ==
    \/ LoadCommission(c) \/ HydrateCommission(c) \/ CheckSettled(c) \/ PayNode(c)
    \/ LoadReserve(c, "accrue", "accrued?") \/ HydrateReserve(c) \/ Accrue(c)
    \/ Tick(c) \/ AppendDue(c)

-----------------------------------------------------------------------------
(***************************************************************************)
(* Properties                                                              *)
(***************************************************************************)
AtRest == \A c \in Caller : pc[c] = "idle"

\* What a service holds in memory at rest is what a restart would rebuild, as long as no
\* process was settled by two calls at once, no append failed after its effect, and no
\* service was hydrated over its own effects.
MemoryIsReplay ==
    AtRest /\ ~raced /\ ~lost /\ ~rehydrated =>
        /\ commission.hydrated => commission = CommissionFrom(journal)
        /\ reserve.hydrated => reserve = ReserveFrom(journal)

\* A settlement the journal states is paid: every node once what it earned, the reserve once
\* its share, and nothing before the settlement itself; as long as no two calls settled one
\* process at once and nothing failed in between.
Paid(p) ==
    LET of(f) == {i \in DOMAIN journal : journal[i].fact = f /\ journal[i].pid = p} IN
    /\ \A n \in Node : \E i \in of("paid") :
        journal[i].who = n /\ \A j \in of("paid") : journal[j].who = n => i = j
    /\ Cardinality(of("accrual")) = 1 /\ Cardinality(of("commission")) = 1
    /\ \A i \in of("commission"), j \in of("paid") \cup of("accrual") : i < j
SettledIsPaid ==
    AtRest /\ ~raced /\ faults = 0 => \A p \in Minted : Journalled("commission", p) => Paid(p)

\* The reserve is not overdrawn, in memory nor, at rest, in the journal, however releases and
\* accruals overlap, as long as the memory the releases are checked against was journalled:
\* no doubled settlement, no failing or cut off append, no second hydration.
ReserveCoversReleases ==
    ~raced /\ ~lost /\ ~cut /\ ~rehydrated =>
        /\ reserve.own >= 0
        /\ AtRest => Total(journal, "released") <= Total(journal, "accrual")

\* The daemon activates the release phase at most once for each start of the service,
\* however many ticks overlap; and only over a volume that the journal shows once the
\* appends under way have ended.
ActivatedOnce == Cardinality({i \in DOMAIN journal : journal[i].fact = "activated"}) <= 1 + faults
ActivationIsBacked ==
    AtRest /\ ~raced /\ ~lost /\ active => ReserveFrom(journal).volume > Threshold
-----------------------------------------------------------------------------
(***************************************************************************)
(* How far the settlement of a process has got, for the proofs.            *)
(***************************************************************************)
Facts(f, p) == {i \in DOMAIN journal : journal[i].fact = f /\ journal[i].pid = p}
PaidTo(p, n) == {i \in Facts("paid", p) : journal[i].who = n}

\* The settlement is journalled, and after it one payment to each node of paid.
SettledTo(p, paid) ==
    /\ \E i \in DOMAIN journal : /\ Facts("commission", p) = {i}
                                 /\ \A j \in Facts("paid", p) \cup Facts("accrual", p) : i < j
    /\ \A n \in paid : \E i \in DOMAIN journal : PaidTo(p, n) = {i}
    /\ \A n \in Node \ paid : PaidTo(p, n) = {}

NotAccrued(p) == Facts("accrual", p) = {} /\ p \notin reserve.accrued
Untouched(p) == Facts("commission", p) = {} /\ Facts("paid", p) = {} /\ NotAccrued(p)
Done(p) == SettledTo(p, Node) /\ \E i \in DOMAIN journal : Facts("accrual", p) = {i}

\* What the call c that settles p has journalled, and what is due next.
Phase(c, p) ==
    \/ pc[c] \in {"settle", "cload", "settled?"} /\ (Untouched(p) \/ Done(p))
    \/ /\ pc[c] = "append" /\ call[c].due.fact = "commission" /\ call[c].due.pid = p
       /\ call[c].next = "pay" /\ call[c].left = Node /\ Untouched(p)
    \/ /\ pc[c] = "append" /\ call[c].next = "pay" /\ call[c].left \subseteq Node
       /\ \E n \in Node \ call[c].left :
            /\ call[c].due = Fact("paid", p, n, Payment)
            /\ SettledTo(p, Node \ (call[c].left \cup {n}))
       /\ NotAccrued(p)
    \/ /\ pc[c] = "pay" /\ call[c].left \subseteq Node
       /\ SettledTo(p, Node \ call[c].left) /\ NotAccrued(p)
    \/ /\ pc[c] \in {"accrue", "rload", "accrued?"}
       /\ pc[c] = "rload" => call[c].next = "accrued?"
       /\ SettledTo(p, Node) /\ NotAccrued(p)
    \/ /\ pc[c] = "append" /\ call[c].due.fact = "accrual" /\ call[c].due.pid = p
       /\ call[c].next = "idle" /\ SettledTo(p, Node) /\ Facts("accrual", p) = {}

\* One call at a time settles p, and between two the settlement is whole.
SettlementInv(p) ==
    /\ \A c, d \in Caller : Settling(c, p) /\ Settling(d, p) => c = d
    /\ \A c \in Caller : Settling(c, p) => Phase(c, p)
    /\ (\A c \in Caller : ~Settling(c, p)) => Untouched(p) \/ Done(p)
=============================================================================
