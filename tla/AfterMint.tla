----------------------------- MODULE AfterMint -----------------------------
(***************************************************************************)
(* The life of a tokenized asset after its mint: Settlement composed with  *)
(* the other processes that work on the same token and reserve, partial    *)
(* release (partial-release.service.ts), revaluation and ownership         *)
(* transfer (tokenization.pipeline.ts), and the asset registry they read.  *)
(*                                                                         *)
(* Each process p of Minted registered one asset, of valuation Volume, and *)
(* minted as much to Owner[p].  An operation of the token (burn, remint,   *)
(* transfer, revaluation) with its record is one step: TokenLedger takes   *)
(* them apart.  What the processes do to be verified is one step too:      *)
(* PotVerdict and PrimaryPipeline.  pc, beside those of Settlement:        *)
(*   "verdict"   open, PoT and ok-to-emit of the process                   *)
(*   "burn"      a verified release is to burn the balance it read         *)
(*   "child"     ensureHydrated of the reserve, "claim" once hydrated      *)
(*   "remint"    the remainder is to be minted again                       *)
(*   "reval"     a verified revaluation is to change the supply            *)
(*   "value"     ... and then the value in the registry                    *)
(*   "transfer"  a verified transfer is to move the balance                *)
(*   "holders"   ... and then the holders in the registry                  *)
(* Bounds: those of Settlement; Amount and Value, what callers ask for.    *)
(***************************************************************************)
EXTENDS Settlement, Supply

CONSTANTS Owner, Amount, Value, MaxSupply

ASSUME OwnerAssumption == Owner \in [Minted -> Holder]
\* A process of an operation is none of the minted ones: its id is a fresh UUID.
ASSUME FreshAssumption ==
    Nobody \notin Minted /\ \A c \in Caller, n \in 1..MaxCalls : <<c, n>> \notin Minted
ASSUME FiniteAssumption ==
    IsFiniteSet(Caller) /\ IsFiniteSet(Minted) /\ IsFiniteSet(Node) /\ IsFiniteSet(Holder)
ASSUME RequestsAssumption == Amount \cup Value \subseteq Nat \ {0} /\ MaxSupply \in Nat

VARIABLES
    balances,       \* ArosCoinService: the balances its journal states
    cold,           \* ArosCoinService: not hydrated, every balance reads 0
    value,          \* AssetRegistry: the value of the assets it knows, 0 of others
    holderIds,      \* AssetRegistry: the holders it lists for each asset
    overlapped,     \* history: two revaluations ran at the same time
    shortfall       \* history: a revaluation was refused after some of its entries took effect

registry == <<value, holderIds>>
token == <<balances, cold, registry>>
ghosts == <<overlapped, shortfall>>
vars == <<settlementVars, token, ghosts>>

TokenSupply == SumFunction(balances)

Init ==
    /\ SettlementInit
    /\ journal = <<>>
    /\ balances = [h \in Holder |-> Volume * Cardinality({p \in Minted : Owner[p] = h})]
    /\ cold = FALSE
    /\ value = [p \in Minted |-> Volume]
    /\ holderIds = [p \in Minted |-> {Owner[p]}]
    /\ overlapped = FALSE /\ shortfall = FALSE

-----------------------------------------------------------------------------
Own(c) == <<c, calls[c] + 1>>       \* the fresh process of a call about to begin
Ask(c, args) ==
    /\ pc[c] = "idle" /\ calls[c] < MaxCalls
    /\ calls' = [calls EXCEPT ![c] = @ + 1]
    /\ Goto(c, "verdict")
    /\ call' = [call EXCEPT ![c] = [NoCall EXCEPT !.pid = Own(c), !.args = args]]
    /\ UNCHANGED <<journal, services, faults, history, token>>

Revaluing(c) == pc[c] # "idle" /\ call[c].args.then = "reval"

\* The balance is read here, to be burnt whole when the process is verified; it is read
\* without ensureHydrated.
AskRelease(c, h, amount) ==
    /\ ~cold /\ balances[h] >= amount
    /\ Ask(c, [then |-> "burn", holder |-> h, amount |-> amount, before |-> balances[h]])
    /\ UNCHANGED ghosts

\* The previous value is read here.
AskRevaluation(c, p, new) ==
    /\ value[p] > 0
    /\ Ask(c, [then |-> "reval", asset |-> p, previous |-> value[p], new |-> new])
    /\ overlapped' = (overlapped \/ \E d \in Caller : Revaluing(d))
    /\ UNCHANGED shortfall

AskTransfer(c, p, from, to, amount) ==
    /\ value[p] > 0 /\ from # to
    /\ Ask(c, [then |-> "transfer", asset |-> p, from |-> from, to |-> to, amount |-> amount])
    /\ UNCHANGED ghosts

\* The process is verified, or rejected and aborted.
Verdict(c) ==
    /\ pc[c] = "verdict"
    /\ \/ Stop(c)
       \/ Goto(c, call[c].args.then) /\ UNCHANGED call
    /\ UNCHANGED <<journal, services, calls, faults, history, token, ghosts>>

-----------------------------------------------------------------------------
\* Faulty variant of Burn: what the holder has by now is burnt.
BurnAll(c) ==
    LET a == call[c].args IN
    /\ pc[c] = "burn"
    /\ IF balances[a.holder] < a.amount
       THEN Stop(c) /\ UNCHANGED <<journal, balances>>
       ELSE /\ balances' = [balances EXCEPT ![a.holder] = 0]
            /\ journal' = Append(journal, Fact("burn", call[c].pid, a.holder, balances[a.holder]))
            /\ Goto(c, "child") /\ UNCHANGED call
    /\ cold' = FALSE
    /\ UNCHANGED <<services, calls, faults, history, registry, ghosts>>

\* burn of the balance that was read; more than there is by now is refused.
Burn(c) ==
    LET a == call[c].args IN
    /\ pc[c] = "burn"
    /\ IF balances[a.holder] < a.before
       THEN Stop(c) /\ UNCHANGED <<journal, balances>>
       ELSE /\ balances' = [balances EXCEPT ![a.holder] = @ - a.before]
            /\ journal' = Append(journal, Fact("burn", call[c].pid, a.holder, a.before))
            /\ Goto(c, "child") /\ UNCHANGED call
    /\ cold' = FALSE
    /\ UNCHANGED <<services, calls, faults, history, registry, ghosts>>

Claim(c) ==
    /\ pc[c] = "claim"
    /\ ReleaseChild(c, call[c].args.amount, "remint")
    /\ UNCHANGED <<token, ghosts>>

\* remintAfterPartialRelease of the remainder, if any, then partial_release_fact.
Remint(c) ==
    LET a == call[c].args
        rest == a.before - a.amount IN
    /\ pc[c] = "remint"
    /\ IF rest = 0 THEN UNCHANGED <<journal, balances>>
       ELSE /\ balances' = [balances EXCEPT ![a.holder] = @ + rest]
            /\ journal' = Append(journal, Fact("remint", call[c].pid, a.holder, rest))
    /\ Due(c, Fact("release", call[c].pid, a.holder, a.amount), "idle")
    /\ UNCHANGED <<services, calls, faults, history, cold, registry, ghosts>>

\* emitFromDeltaValue: a zero delta and a zero supply are refused; what the value of the
\* asset gained or lost is minted to or burnt from all holders of the token.
Revalue(c) ==
    LET a == call[c].args IN
    /\ pc[c] = "reval"
    /\ IF a.new = a.previous \/ TokenSupply = 0 THEN Stop(c) /\ UNCHANGED <<balances, shortfall>>
       ELSE \E order \in Orders(balances) :
            LET result == Apply(balances, Allocations(balances, order, a.previous, a.new)) IN
            /\ RevaluedSupply(TokenSupply, a.previous, a.new) <= MaxSupply
            /\ balances' = result.balances
            /\ shortfall' = (shortfall \/ (~result.ok /\ result.balances # balances))
            /\ IF result.ok THEN Goto(c, "value") /\ UNCHANGED call ELSE Stop(c)
    /\ cold' = FALSE
    /\ UNCHANGED <<journal, services, calls, faults, history, registry, overlapped>>

\* applyRevaluation.
SetValue(c) ==
    LET a == call[c].args IN
    /\ pc[c] = "value"
    /\ value' = [value EXCEPT ![a.asset] = a.new]
    /\ Stop(c)
    /\ UNCHANGED <<journal, services, calls, faults, history, balances, cold, holderIds, ghosts>>

\* transferAfterPot.
Transfer(c) ==
    LET a == call[c].args IN
    /\ pc[c] = "transfer"
    /\ IF balances[a.from] < a.amount THEN Stop(c) /\ UNCHANGED balances
       ELSE /\ balances' = [balances EXCEPT ![a.from] = @ - a.amount, ![a.to] = @ + a.amount]
            /\ Goto(c, "holders") /\ UNCHANGED call
    /\ cold' = FALSE
    /\ UNCHANGED <<journal, services, calls, faults, history, registry, ghosts>>

\* applyTransfer: the giver is taken off the list, whatever balance is left.
SetHolders(c) ==
    LET a == call[c].args IN
    /\ pc[c] = "holders"
    /\ holderIds' = [holderIds EXCEPT ![a.asset] = (@ \ {a.from}) \cup {a.to}]
    /\ Stop(c)
    /\ UNCHANGED <<journal, services, calls, faults, history, balances, cold, value, ghosts>>

\* The registry is memory that nothing rebuilds; the balances are replayed.
Restart ==
    /\ SettlementRestart
    /\ value' = [p \in Minted |-> 0] /\ holderIds' = [p \in Minted |-> {}]
    /\ cold' = TRUE
    /\ UNCHANGED <<balances, ghosts>>

Next ==
    \/ \E c \in Caller :
        \/ SettlementStep(c) /\ UNCHANGED <<token, ghosts>>
        \/ \E p \in Minted : Settle(c, p) /\ UNCHANGED <<token, ghosts>>
        \/ Status(c) /\ UNCHANGED <<token, ghosts>>
        \/ AppendFails(c) /\ UNCHANGED <<token, ghosts>>
        \/ LoadReserve(c, "child", "claim") /\ UNCHANGED <<token, ghosts>>
        \/ \E h \in Holder, amount \in Amount : AskRelease(c, h, amount)
        \/ \E p \in Minted, new \in Value : AskRevaluation(c, p, new)
        \/ \E p \in Minted, from, to \in Holder, amount \in Amount :
            AskTransfer(c, p, from, to, amount)
        \/ Verdict(c)
        \/ Burn(c) \/ Claim(c) \/ Remint(c)
        \/ Revalue(c) \/ SetValue(c)
        \/ Transfer(c) \/ SetHolders(c)
    \/ Restart

Spec == Init /\ [][Next]_vars

-----------------------------------------------------------------------------
(***************************************************************************)
(* Properties                                                              *)
(***************************************************************************)
TypeOK ==
    /\ balances \in [Holder -> Nat] /\ cold \in BOOLEAN
    /\ value \in [Minted -> Value \cup {0, Volume}]
    /\ holderIds \in [Minted -> SUBSET Holder]
    /\ commission.settled \subseteq Minted /\ reserve.accrued \subseteq Minted
    /\ commission.credits \in [Node -> Nat] /\ reserve.own \in Int /\ reserve.volume \in Nat
    /\ \A c \in Caller :
        pc[c] \in {"idle", "settle", "cload", "settled?", "pay", "accrue", "rload", "accrued?",
                   "append", "velocity", "verdict", "burn", "child", "claim", "remint",
                   "reval", "value", "transfer", "holders"}

\* A release that the journal calls done took from the holder exactly what it claimed from
\* the reserve: the burn, the claim and the remint of its process, in that order, balance;
\* whatever transfers and revaluations changed the balance since it was read.
ReleaseBalances ==
    \A i \in DOMAIN journal :
        LET pid == journal[i].pid
            amount(f) == SumFunction([j \in Facts(f, pid) |-> journal[j].amount])
            before(f, g) == \A j, k \in DOMAIN journal :
                journal[j].pid = pid /\ journal[j].fact = f
                /\ journal[k].pid = pid /\ journal[k].fact = g => j < k
        IN  journal[i].fact = "release" =>
                /\ amount("burn") = amount("released") + amount("remint")
                /\ amount("released") = journal[i].amount
                /\ before("burn", "released") /\ before("released", "remint")

\* I7, AST-CORE-CANON.md:311, of a token with one asset: at rest the supply is the value of
\* the asset, as long as nothing was burnt for a release, no two revaluations overlapped and
\* none was refused half-way.
SupplyIsValue ==
    AtRest /\ ~overlapped /\ ~shortfall /\ (\A i \in DOMAIN journal : journal[i].fact # "burn") =>
        \A p \in Minted : Minted = {p} /\ value[p] > 0 => TokenSupply = value[p]

\* partial-release.service.ts:62, "Atomic: burn -> reserve child claim -> remint remainder":
\* at rest, and when nothing failed, a burn was followed by the claim and the remint.
ReleaseIsAtomic ==
    AtRest /\ faults = 0 =>
        \A i \in DOMAIN journal : journal[i].fact = "burn" =>
            \E j \in DOMAIN journal : journal[j].fact = "release" /\ journal[j].pid = journal[i].pid

\* The reserve stands: it is not overdrawn, and the release phase begins once, over a volume
\* that was there, however releases, accruals and ticks overlap.
ReserveStands ==
    /\ TypeOK
    /\ ReserveCoversReleases
    /\ ActivatedOnce
    /\ ActivationIsBacked

\* The token stays in balance with what it stands for: a release takes what it claims, and
\* the supply of an asset is its value.
AssetStaysInBalance ==
    /\ ReleaseBalances
    /\ SupplyIsValue
-----------------------------------------------------------------------------
(***************************************************************************)
(* The invariant behind SettledIsPaid, for the proofs: which calls append  *)
(* the facts of a settlement, and how far each settlement has got.         *)
(***************************************************************************)
SettlementPc == {"settle", "cload", "settled?", "pay", "accrue", "rload", "accrued?", "append"}
OperationPc == {"velocity", "verdict", "burn", "child", "rload", "claim", "remint", "reval",
                "value", "transfer", "holders", "append"}
SettlementFact == {"commission", "paid", "accrual"}

IsCall(r) ==
    r = [pid |-> r.pid, due |-> r.due, next |-> r.next, log |-> r.log, amount |-> r.amount,
         left |-> r.left, args |-> r.args]
IsReserve(r) ==
    r = [hydrated |-> r.hydrated, own |-> r.own, accrued |-> r.accrued, volume |-> r.volume]

\* A call settles a minted process, or is another operation and states other facts.
CallOk(c) ==
    /\ calls[c] \in 0..MaxCalls /\ IsCall(call[c])
    /\ pc[c] = "idle" => call[c].pid = Nobody
    /\ call[c].pid \in Minted =>
        /\ pc[c] \in SettlementPc
        /\ pc[c] = "append" => call[c].due.pid = call[c].pid /\ call[c].next \in {"pay", "idle"}
        /\ pc[c] = "rload" => call[c].next = "accrued?"
    /\ call[c].pid \notin Minted =>
        /\ pc[c] \in OperationPc \cup {"idle"}
        /\ pc[c] = "append" => call[c].due.fact \notin SettlementFact /\ call[c].next \in {"idle", "remint"}
        /\ pc[c] = "rload" => call[c].next = "claim"
        /\ pc[c] = "verdict" => call[c].args.then \in {"burn", "reval", "transfer"}
    /\ Of(call[c].log, "accrual") \subseteq Of(journal, "accrual")

SettleInv ==
    /\ journal \in Seq(ToSet(journal))
    /\ DOMAIN pc = Caller /\ DOMAIN calls = Caller /\ DOMAIN call = Caller
    /\ \A c \in Caller : CallOk(c)
    /\ IsReserve(reserve) /\ faults \in Nat
    /\ ~raced /\ faults = 0 => \A p \in Minted : SettlementInv(p)
=============================================================================
