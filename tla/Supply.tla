------------------------------- MODULE Supply -------------------------------
(***************************************************************************)
(* The arithmetic of the token: what a change of the asset's value does to *)
(* the supply and to each holder (src/src/token/supply.ts), and credit and *)
(* debit on the map of balances (token.service.ts 488-500).  Amounts are   *)
(* integers of arx, the unit all of the code's money strings are parsed    *)
(* to; a holder whose balance is 0 has no entry in the map.                *)
(***************************************************************************)
EXTENDS Integers, Sequences, SequencesExt

\* computeRevaluationSupply, for previous > 0; BigInt division rounds towards
\* zero, as \div does on the non-negative amounts here.
RevaluedSupply(supply, previous, new) ==
    IF supply = 0 \/ new = previous THEN supply ELSE (supply * new) \div previous

\* Faulty variant of ProRata: every share is rounded down, the last too.
ProRataNoResidual(balances, order, delta) ==
    LET total == SumFunctionOnSet(balances, ToSet(order))
    IN  [i \in DOMAIN order |-> (delta * balances[order[i]]) \div total]

\* proRataAllocate: shares are rounded down, the last holder of the map's
\* order takes what is left.
ProRata(balances, order, delta) ==
    LET total == SumFunctionOnSet(balances, ToSet(order))
        last == Len(order)
        share == [i \in 1..(last - 1) |-> (delta * balances[order[i]]) \div total]
    IN  [i \in 1..last |-> IF i < last THEN share[i] ELSE delta - SumFunction(share)]

\* The orders the map of balances can have: any, of the holders it contains.
Orders(balances) == SetToSeqs({h \in DOMAIN balances : balances[h] > 0})

\* The allocations of revalueAfterPot: a signed amount for each holder.
Allocations(balances, order, previous, new) ==
    LET supply == SumFunction(balances)
        delta == RevaluedSupply(supply, previous, new) - supply
        share == ProRata(balances, order, IF delta < 0 THEN -delta ELSE delta)
    IN  [i \in DOMAIN order |->
            [holder |-> order[i], amount |-> IF delta < 0 THEN -share[i] ELSE share[i]]]

\* credit and debit, in the order of the entries.  A debit beyond the balance
\* throws; the entries before it have taken effect.
ApplyEntry(result, entry) ==
    IF result.ok /\ result.balances[entry.holder] + entry.amount >= 0
    THEN [result EXCEPT !.balances[entry.holder] = @ + entry.amount]
    ELSE [result EXCEPT !.ok = FALSE]

Apply(balances, entries) ==
    FoldLeft(ApplyEntry, [balances |-> balances, ok |-> TRUE], entries)
=============================================================================
