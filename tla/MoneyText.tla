------------------------------ MODULE MoneyText ------------------------------
(***************************************************************************)
(* Amounts as they are written, and what becomes of one: the figure the    *)
(* page makes of what the document says, the text the edge keeps, the arx  *)
(* the core reads (money.ts, currencies.ts, normalizeValuation), and the   *)
(* fee a settlement takes of it (commission.service.ts, schedules.ts,      *)
(* weights.ts).                                                            *)
(*                                                                         *)
(* A text is a sign, the number before the point, the digits after it, and *)
(* whether there are commas in it or spaces around it; NoText is one that  *)
(* is no number, or none.  Numerals are taken to the base Radix with Scale *)
(* digits after the point, 10 and 9 in the code; rates, waivers and shares *)
(* are integers of RateUnit (a 1_000_000_000th) and ShareUnit (a 10_000th),*)
(* weights of a thousandth, to which the code rounds them first.           *)
(***************************************************************************)
EXTENDS Supply

CONSTANTS Radix, Scale,
          PageDigits,       \* after the point, that the page accepts: 18
          RateUnit, ShareUnit,
          NoText

ASSUME MoneyAssumption ==
    {Radix, Scale, PageDigits} \subseteq Nat /\ {RateUnit, ShareUnit} \subseteq Nat \ {0}

Arx == Radix^Scale

InDigits(neg, whole, frac) ==
    [neg |-> neg, whole |-> whole, frac |-> frac, commas |-> FALSE, spaces |-> FALSE]

\* Digits after the point, filled up with zeros or cut off to Scale of them.
ToScale(frac) == [i \in 1..Scale |-> IF i <= Len(frac) THEN frac[i] ELSE 0]

WithSign(neg, n) == IF neg THEN -n ELSE n
Magnitude(n) == IF n < 0 THEN -n ELSE n

\* The arx of a text, however many digits it has: those beyond Scale are cut off.
ToScaled(t) ==
    WithSign(t.neg, t.whole * Arx + FoldLeft(LAMBDA n, d : n * Radix + d, 0, ToScale(t.frac)))

\* isValidValuation at the edge, and what parseAro does not throw on.
IsValid(t) == t # NoText /\ ~t.commas /\ Len(t.frac) <= Scale

ParseAro(t) == IF IsValid(t) THEN ToScaled(t) ELSE NoText

\* formatAro, and formatScaled of the page.
FormatAro(arx) ==
    LET rest == Magnitude(arx) % Arx IN
    InDigits(arx < 0, Magnitude(arx) \div Arx,
             [i \in 1..Scale |-> (rest \div Radix^(Scale - i)) % Radix])

\* normalizeValuation of the edge.
Normalized(t) ==
    IF IsValid(t) THEN InDigits(t.neg, t.whole, ToScale(t.frac)) ELSE [t EXCEPT !.spaces = FALSE]

\* parseDecimal of the page: commas do not count.
PageReads(t) == t # NoText /\ Len(t.frac) <= PageDigits

\* BigInt division rounds towards zero.
Quotient(n, d) == WithSign(n < 0, Magnitude(n) \div d)

\* computeAroMintAmount
ComputeAroMintAmount(amount, rate) ==
    IF PageReads(amount) /\ PageReads(rate)
    THEN FormatAro(Quotient(ToScaled(amount) * ToScaled(rate), Arx))
    ELSE NoText

-----------------------------------------------------------------------------
\* mulRate, of an amount in arx.
MulRate(arx, rate) == Quotient(arx * rate, RateUnit)

\* splitFee: the nodes' share is rounded down, the rest is AST's.
SplitFee(fee, nodesShare) ==
    LET nodes == (fee * nodesShare) \div ShareUnit IN [nodes |-> nodes, ast |-> fee - nodes]

\* distributeByWeight, the weights in the order of the object: as a revaluation is
\* spread over holders.
DistributeByWeight(pool, weights) ==
    IF pool <= 0 THEN <<>> ELSE ProRata(weights, [i \in DOMAIN weights |-> i], pool)

\* The amounts of CommissionService.settle, or why there are none; a weight that is
\* positive may be less than half a thousandth, and counts nothing.
Settled(arx, rate, waived, nodesShare, weights) ==
    LET gross == MulRate(arx, rate)
        fee == IF waived = 0 THEN gross ELSE (gross * (ShareUnit - waived)) \div ShareUnit
        split == SplitFee(fee, nodesShare)
    IN  CASE arx <= 0 -> [code |-> "INVALID_VALUATION"]
          [] arx > 0 /\ weights = <<>> -> [code |-> "INVALID_WEIGHTS"]
          [] OTHER ->
                IF split.nodes > 0 /\ SumFunction(weights) = 0 THEN [code |-> "weights sum to zero"]
                ELSE [code |-> "settled", fee |-> fee, nodes |-> split.nodes, ast |-> split.ast,
                      payments |-> DistributeByWeight(split.nodes, weights)]
=============================================================================
