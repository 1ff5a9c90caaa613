--------------------------- MODULE AfterMintProofs ---------------------------
(***************************************************************************)
(* Proofs about AfterMint, for any callers, processes, nodes, holders and  *)
(* amounts.                                                                *)
(*                                                                         *)
(* Each part rests on the parts above it, and proves that every step keeps *)
(* an invariant of its own:                                                *)
(*   SettleInv      how far each settlement is, and which call carries it  *)
(*                  out, hence SettledIsPaid;                              *)
(*   RecordsInv     what is journalled, due, read, asked for and           *)
(*                  remembered is of its kind, hence TypeOK;               *)
(*   FreshInv       what is not journalled yet: the accrual of a call that *)
(*                  settles, the released amount of one that releases;     *)
(*   CommissionInv  the credits are the journal's payments and those due;  *)
(*   ReserveInv     the reserve is the journal's accruals and those due,   *)
(*                  less what is released: MemoryIsReplay, and no releases *)
(*                  beyond the accruals;                                   *)
(*   DaemonInv      what the release daemon has seen, hence ReserveStands; *)
(*   ReleaseInv     how far each release is, hence ReleaseBalances;        *)
(*   SupplyInv      the supply between the entries of a revaluation and    *)
(*                  its value, hence SupplyIsValue.                        *)
(* In each a step of call c leaves the other calls alone (StepBy, Becomes) *)
(* and adds at most one record to the journal.                             *)
(***************************************************************************)
EXTENDS AfterMint, FiniteSetTheorems, TLAPS

\* The other calls stay as they are.
OthersStay(c) ==
    /\ DOMAIN pc' = Caller /\ DOMAIN calls' = Caller /\ DOMAIN call' = Caller
    /\ \A d \in Caller \ {c} : pc'[d] = pc[d] /\ call'[d] = call[d] /\ calls'[d] = calls[d]

\* A step of c: and the journal only grows.
StepBy(c) ==
    /\ OthersStay(c)
    /\ journal' \in Seq(ToSet(journal'))
    /\ Of(journal, "accrual") \subseteq Of(journal', "accrual")
    /\ CallOk(c)' /\ IsReserve(reserve')
    /\ faults' \in Nat /\ faults' >= faults /\ (raced => raced')

\* What the journal states of the settlement of p stays the same.
Same(p) ==
    /\ DOMAIN journal \subseteq DOMAIN journal'
    /\ \A f \in SettlementFact : Facts(f, p)' = Facts(f, p)
    /\ \A n \in Node : PaidTo(p, n)' = PaidTo(p, n)
-----------------------------------------------------------------------------
\* The parts of a record.
LEMMA FactShape ==
    ASSUME NEW f, NEW p, NEW w, NEW a
    PROVE  /\ Fact(f, p, w, a).fact = f /\ Fact(f, p, w, a).pid = p
           /\ Fact(f, p, w, a).who = w /\ Fact(f, p, w, a).amount = a
BY DEF Fact

\* A journal with one record more.
LEMMA JournalGrows ==
    ASSUME journal \in Seq(ToSet(journal)), NEW r, journal' = Append(journal, r)
    PROVE  /\ journal' \in Seq(ToSet(journal'))
           /\ DOMAIN journal = 1..Len(journal) /\ Len(journal) \in Nat
           /\ DOMAIN journal' = 1..(Len(journal) + 1)
           /\ \A i \in DOMAIN journal : journal'[i] = journal[i]
           /\ journal'[Len(journal) + 1] = r
<1>1. PICK S : S = ToSet(journal) /\ journal \in Seq(S)
  OBVIOUS
<1>2. /\ DOMAIN journal = 1..Len(journal) /\ Len(journal) \in Nat
      /\ Len(journal') = Len(journal) + 1 /\ DOMAIN journal' = 1..(Len(journal) + 1)
      /\ \A i \in DOMAIN journal : journal'[i] = journal[i]
      /\ journal'[Len(journal) + 1] = r
      /\ journal' \in Seq(S \cup {r})
  BY <1>1
<1>3. \A i \in 1..Len(journal') : journal'[i] \in ToSet(journal')
  BY <1>2 DEF ToSet
<1>4. journal' \in Seq(ToSet(journal'))
  BY <1>2, <1>3
<1> QED
  BY <1>2, <1>4

\* What it says of a settlement.
LEMMA FactsGrow ==
    ASSUME journal \in Seq(ToSet(journal)), NEW r, journal' = Append(journal, r)
    PROVE  /\ \A f, p : Facts(f, p)' = IF r.fact = f /\ r.pid = p
                                       THEN Facts(f, p) \cup {Len(journal) + 1} ELSE Facts(f, p)
           /\ \A p, n : PaidTo(p, n)' = IF r.fact = "paid" /\ r.pid = p /\ r.who = n
                                        THEN PaidTo(p, n) \cup {Len(journal) + 1} ELSE PaidTo(p, n)
           /\ \A f : Of(journal, f) \subseteq Of(journal', f)
<1>1. /\ DOMAIN journal = 1..Len(journal) /\ Len(journal) \in Nat
      /\ DOMAIN journal' = DOMAIN journal \cup {Len(journal) + 1}
      /\ Len(journal) + 1 \notin DOMAIN journal
      /\ \A i \in DOMAIN journal : journal'[i] = journal[i]
      /\ journal'[Len(journal) + 1] = r
  <2>1. /\ DOMAIN journal = 1..Len(journal) /\ Len(journal) \in Nat
        /\ DOMAIN journal' = 1..(Len(journal) + 1)
        /\ \A i \in DOMAIN journal : journal'[i] = journal[i]
        /\ journal'[Len(journal) + 1] = r
    BY JournalGrows
  <2> QED
    BY <2>1
<1>2. PICK n : n = Len(journal) + 1
  OBVIOUS
<1>3. ASSUME NEW f, NEW p
      PROVE  Facts(f, p)' = IF r.fact = f /\ r.pid = p THEN Facts(f, p) \cup {n} ELSE Facts(f, p)
  BY <1>1, <1>2 DEF Facts
<1>4. ASSUME NEW p, NEW m
      PROVE  PaidTo(p, m)' = IF r.fact = "paid" /\ r.pid = p /\ r.who = m
                             THEN PaidTo(p, m) \cup {n} ELSE PaidTo(p, m)
  <2>1. PaidTo(p, m) = {i \in DOMAIN journal :
                           journal[i].fact = "paid" /\ journal[i].pid = p /\ journal[i].who = m}
    BY DEF PaidTo, Facts
  <2>2. PaidTo(p, m)' = {i \in DOMAIN journal' :
                           journal'[i].fact = "paid" /\ journal'[i].pid = p /\ journal'[i].who = m}
    BY DEF PaidTo, Facts
  <2> QED
    BY <1>1, <1>2, <2>1, <2>2
<1>5. ASSUME NEW f
      PROVE  Of(journal, f) \subseteq Of(journal', f)
  BY <1>1 DEF Of
<1> QED
  BY <1>2, <1>3, <1>4, <1>5
-----------------------------------------------------------------------------
\* A step of c preserves the invariant if it preserves that of every settlement.
LEMMA Frame ==
    ASSUME SettleInv, NEW c \in Caller, StepBy(c),
           ~raced' /\ faults' = 0 => \A p \in Minted : SettlementInv(p)'
    PROVE  SettleInv'
<1>1. ASSUME NEW d \in Caller PROVE CallOk(d)'
  <2>1. CASE d = c
    BY <2>1 DEF StepBy, OthersStay
  <2>2. CASE d # c
    BY <2>2 DEF StepBy, OthersStay, SettleInv, CallOk
  <2> QED BY <2>1, <2>2
<1> QED
  BY <1>1 DEF SettleInv, StepBy, OthersStay

\* A settlement that c has no part in.
LEMMA Bystander ==
    ASSUME NEW c \in Caller, StepBy(c), NEW p, SettlementInv(p), Same(p),
           ~Settling(c, p), ~Settling(c, p)',
           p \in reserve.accrued' => p \in reserve.accrued \/ Facts("accrual", p) # {}
    PROVE  SettlementInv(p)'
<1>1. \A d \in Caller : Settling(d, p)' <=> Settling(d, p)
  BY DEF StepBy, OthersStay, Settling
<1>2. \A X \in SUBSET Node : SettledTo(p, X) => SettledTo(p, X)'
  <2>1. /\ Facts("commission", p)' = Facts("commission", p) /\ Facts("paid", p)' = Facts("paid", p)
        /\ Facts("accrual", p)' = Facts("accrual", p)
    BY DEF Same, SettlementFact
  <2> QED
    BY <2>1 DEF Same, SettledTo
<1>3. NotAccrued(p) => NotAccrued(p)'
  BY DEF NotAccrued, Same, SettlementFact
<1>4. Untouched(p) => Untouched(p)'
  BY <1>3 DEF Untouched, Same, SettlementFact
<1>5. Done(p) => Done(p)'
  BY <1>2 DEF Done, Same, SettlementFact
<1>6. ASSUME NEW d \in Caller, Settling(d, p)
      PROVE  Phase(d, p)'
  <2>1. pc'[d] = pc[d] /\ call'[d] = call[d] /\ Phase(d, p)
    BY <1>6 DEF StepBy, OthersStay, SettlementInv
  <2> QED
    BY <1>2, <1>3, <1>4, <1>5, <2>1 DEF Phase, Same, SettlementFact
<1> QED
  BY <1>1, <1>4, <1>5, <1>6 DEF SettlementInv

\* The journal as it is, or with a record that states no settlement of p.
LEMMA SameIfElsewhere ==
    ASSUME journal \in Seq(ToSet(journal)), NEW p,
           \/ journal' = journal
           \/ \E r : journal' = Append(journal, r) /\ ~(r.fact \in SettlementFact /\ r.pid = p)
    PROVE  Same(p) /\ journal' \in Seq(ToSet(journal')) /\ Of(journal, "accrual") \subseteq Of(journal', "accrual")
<1>1. CASE journal' = journal
  BY <1>1 DEF Same, Facts, PaidTo, Of
<1>2. CASE journal' # journal
  <2>1. PICK r : journal' = Append(journal, r) /\ ~(r.fact \in SettlementFact /\ r.pid = p)
    BY <1>2
  <2>2. /\ journal' \in Seq(ToSet(journal')) /\ DOMAIN journal = 1..Len(journal) /\ Len(journal) \in Nat
        /\ DOMAIN journal' = 1..(Len(journal) + 1)
    BY <2>1, JournalGrows
  <2>3. /\ \A f : r.fact # f \/ r.pid # p => Facts(f, p)' = Facts(f, p)
        /\ r.fact # "paid" \/ r.pid # p => \A n : PaidTo(p, n)' = PaidTo(p, n)
        /\ Of(journal, "accrual") \subseteq Of(journal', "accrual")
    BY <2>1, FactsGrow
  <2>4. DOMAIN journal \subseteq DOMAIN journal'
    BY <2>2
  <2>5. \A f \in SettlementFact : Facts(f, p)' = Facts(f, p)
    BY <2>1, <2>3
  <2>6. \A n \in Node : PaidTo(p, n)' = PaidTo(p, n)
    BY <2>1, <2>3 DEF SettlementFact
  <2> QED
    BY <2>2, <2>3, <2>4, <2>5, <2>6 DEF Same
<1> QED
  BY <1>1, <1>2
-----------------------------------------------------------------------------
\* A step of an operation, or of a call between two: no settlement is touched.
LEMMA OtherStep ==
    ASSUME SettleInv, NEW c \in Caller, OthersStay(c), CallOk(c)',
           call[c].pid \notin Minted, call'[c].pid \notin Minted,
           \/ journal' = journal
           \/ \E r : journal' = Append(journal, r) /\ r.fact \notin SettlementFact,
           IsReserve(reserve'), reserve'.accrued \subseteq reserve.accrued \cup Of(journal, "accrual"),
           UNCHANGED <<faults, raced>>
    PROVE  SettleInv'
<1>1. /\ journal' \in Seq(ToSet(journal')) /\ Of(journal, "accrual") \subseteq Of(journal', "accrual")
      /\ \A p \in Minted : Same(p)
  BY SameIfElsewhere DEF SettleInv
<1>2. StepBy(c)
  BY <1>1 DEF StepBy, SettleInv
<1>3. ASSUME NEW p \in Minted, SettlementInv(p)
      PROVE  SettlementInv(p)'
  <2>1. p \in reserve.accrued' => p \in reserve.accrued \/ Facts("accrual", p) # {}
    BY DEF Of, Facts
  <2>2. ~Settling(c, p) /\ ~Settling(c, p)'
    BY <1>3 DEF Settling
  <2> QED
    BY <1>1, <1>2, <1>3, <2>1, <2>2, Bystander
<1> QED
  BY <1>2, <1>3, Frame DEF SettleInv

\* The ways a call moves on.
LEMMA Stops ==
    ASSUME SettleInv, NEW c \in Caller, Stop(c), UNCHANGED calls
    PROVE  OthersStay(c) /\ CallOk(c)' /\ call'[c].pid = Nobody /\ pc'[c] = "idle"
<1>1. OthersStay(c) /\ call'[c] = NoCall /\ pc'[c] = "idle"
  BY DEF SettleInv, Stop, Goto, OthersStay
<1>2. Of(<<>>, "accrual") = {} /\ IsCall(NoCall) /\ NoCall.pid = Nobody /\ NoCall.log = <<>>
  BY DEF Of, IsCall, NoCall
<1>3. calls[c] \in 0..MaxCalls
  BY DEF SettleInv, CallOk
<1> QED
  BY <1>1, <1>2, <1>3, FreshAssumption DEF CallOk

\* What Goto says of pc.
LEMMA Goes ==
    ASSUME SettleInv, NEW c \in Caller, NEW l, Goto(c, l), UNCHANGED <<call, calls>>
    PROVE  OthersStay(c) /\ pc'[c] = l /\ call'[c] = call[c]
BY DEF SettleInv, Goto, OthersStay

\* What Due leaves the call with.
LEMMA FallsDue ==
    ASSUME SettleInv, NEW c \in Caller, NEW f, NEW next, Due(c, f, next), UNCHANGED calls
    PROVE  /\ OthersStay(c) /\ pc'[c] = "append" /\ IsCall(call'[c])
           /\ call'[c].due = f /\ call'[c].next = next /\ call'[c].pid = call[c].pid
           /\ call'[c].log = call[c].log /\ call'[c].left = call[c].left
<1>1. IsCall(call[c]) /\ DOMAIN call = Caller
  BY DEF SettleInv, CallOk
<1>2. call' = [call EXCEPT ![c].due = f, ![c].next = next]
  BY DEF Due
<1>3. /\ IsCall(call'[c]) /\ call'[c].due = f /\ call'[c].next = next /\ call'[c].pid = call[c].pid
      /\ call'[c].log = call[c].log /\ call'[c].left = call[c].left
  BY <1>1, <1>2 DEF IsCall
<1>4. OthersStay(c) /\ pc'[c] = "append"
  BY <1>2 DEF SettleInv, Due, Goto, OthersStay
<1> QED
  BY <1>3, <1>4

\* An operation begins.
LEMMA OperationBegins ==
    ASSUME SettleInv, NEW c \in Caller, pc[c] = "idle", calls[c] < MaxCalls, NEW l,
           Goto(c, l), calls' = [calls EXCEPT ![c] = @ + 1], DOMAIN call' = Caller,
           \A d \in Caller \ {c} : call'[d] = call[d],
           IsCall(call'[c]), call'[c].pid \in {Nobody, Own(c)}, call'[c].log = <<>>,
           l \in {"velocity", "verdict"},
           l = "verdict" => call'[c].args.then \in {"burn", "reval", "transfer"},
           UNCHANGED <<journal, reserve, faults, raced>>
    PROVE  SettleInv'
<1>1. OthersStay(c) /\ pc'[c] = l
  BY DEF SettleInv, Goto, OthersStay
<1>2. calls[c] \in 0..MaxCalls /\ call[c].pid = Nobody /\ MaxCalls \in Nat
  BY AmountsAssumption DEF SettleInv, CallOk
<1>3. call'[c].pid \notin Minted
  <2>1. calls[c] + 1 \in 1..MaxCalls
    BY <1>2
  <2> QED
    BY <2>1, FreshAssumption DEF Own
<1>4. calls'[c] \in 0..MaxCalls
  BY <1>2 DEF SettleInv
<1>5. CallOk(c)'
  <2>1. Of(<<>>, "accrual") = {}
    BY DEF Of
  <2> QED
    BY <1>1, <1>3, <1>4, <2>1 DEF CallOk, OperationPc
<1> QED
  BY <1>1, <1>2, <1>3, <1>5, FreshAssumption, OtherStep DEF SettleInv

\* A call that is no settlement ends, having perhaps stated a fact of its own.
LEMMA OperationStops ==
    ASSUME SettleInv, NEW c \in Caller, Stop(c), UNCHANGED <<calls, reserve, faults, raced>>,
           call[c].pid \notin Minted,
           \/ journal' = journal
           \/ \E r : journal' = Append(journal, r) /\ r.fact \notin SettlementFact
    PROVE  SettleInv'
BY Stops, FreshAssumption, OtherStep DEF SettleInv

\* An operation goes on to another of its pieces.
LEMMA OperationGoes ==
    ASSUME SettleInv, NEW c \in Caller, NEW l \in OperationPc \ {"rload", "append", "verdict"},
           Goto(c, l), UNCHANGED <<call, calls, reserve, faults, raced>>,
           call[c].pid \notin Minted,
           \/ journal' = journal
           \/ \E r : journal' = Append(journal, r) /\ r.fact \notin SettlementFact
    PROVE  SettleInv'
<1>1. OthersStay(c) /\ pc'[c] = l /\ call'[c] = call[c]
  BY Goes
<1>2. Of(journal, "accrual") \subseteq Of(journal', "accrual")
  BY SameIfElsewhere DEF SettleInv
<1>3. CallOk(c)'
  BY <1>1, <1>2 DEF SettleInv, CallOk, OperationPc
<1> QED
  BY <1>1, <1>3, OtherStep DEF SettleInv

\* An operation has a record to append.
LEMMA OperationOwes ==
    ASSUME SettleInv, NEW c \in Caller, NEW f, NEW next \in {"idle", "remint"},
           Due(c, f, next), f.fact \notin SettlementFact,
           UNCHANGED <<calls, faults, raced>>, call[c].pid \notin Minted,
           \/ journal' = journal
           \/ \E r : journal' = Append(journal, r) /\ r.fact \notin SettlementFact,
           IsReserve(reserve'), reserve'.accrued = reserve.accrued
    PROVE  SettleInv'
<1>1. /\ OthersStay(c) /\ pc'[c] = "append" /\ IsCall(call'[c])
      /\ call'[c].due = f /\ call'[c].next = next /\ call'[c].pid = call[c].pid
      /\ call'[c].log = call[c].log
  BY FallsDue
<1>2. Of(journal, "accrual") \subseteq Of(journal', "accrual")
  BY SameIfElsewhere DEF SettleInv
<1>3. CallOk(c)'
  BY <1>1, <1>2 DEF SettleInv, CallOk, OperationPc
<1> QED
  BY <1>1, <1>3, OtherStep
-----------------------------------------------------------------------------
\* The operations that have nothing to do with the commission.
LEMMA AsksKeep ==
    ASSUME SettleInv, NEW c \in Caller, NEW args, Ask(c, args),
           args.then \in {"burn", "reval", "transfer"}
    PROVE  SettleInv'
<1>1. /\ pc[c] = "idle" /\ calls[c] < MaxCalls /\ Goto(c, "verdict")
      /\ calls' = [calls EXCEPT ![c] = @ + 1]
      /\ call' = [call EXCEPT ![c] = [NoCall EXCEPT !.pid = Own(c), !.args = args]]
      /\ UNCHANGED <<journal, reserve, faults, raced>>
  BY DEF Ask, services, history
<1>2. /\ IsCall(call'[c]) /\ call'[c].pid = Own(c) /\ call'[c].log = <<>> /\ call'[c].args = args
      /\ DOMAIN call' = Caller /\ \A d \in Caller \ {c} : call'[d] = call[d]
  BY <1>1 DEF SettleInv, NoCall, IsCall
<1> QED
  BY <1>1, <1>2, OperationBegins

\* The daemon begins a tick.
LEMMA StatusKeeps ==
    ASSUME SettleInv, NEW c \in Caller, Status(c)
    PROVE  SettleInv'
<1>1. /\ pc[c] = "idle" /\ calls[c] < MaxCalls /\ Goto(c, "velocity")
      /\ calls' = [calls EXCEPT ![c] = @ + 1]
      /\ call' = [call EXCEPT ![c] = [NoCall EXCEPT !.amount = reserve.volume]]
      /\ UNCHANGED <<journal, reserve, faults, raced>>
  BY DEF Status, services, history
<1>2. /\ IsCall(call'[c]) /\ call'[c].pid = Nobody /\ call'[c].log = <<>>
      /\ DOMAIN call' = Caller /\ \A d \in Caller \ {c} : call'[d] = call[d]
  BY <1>1 DEF SettleInv, NoCall, IsCall
<1> QED
  BY <1>1, <1>2, OperationBegins

\* The steps of the other operations.
LEMMA OperationsKeep ==
    ASSUME SettleInv, NEW c \in Caller,
           \/ Verdict(c) \/ Burn(c) \/ Claim(c) \/ Remint(c) \/ Revalue(c) \/ SetValue(c)
           \/ Transfer(c) \/ SetHolders(c) \/ Tick(c)
    PROVE  SettleInv'
<1>1. call[c].pid \notin Minted
  <2>1. pc[c] \in {"verdict", "burn", "claim", "remint", "reval", "value", "transfer", "holders",
                   "velocity"}
    BY DEF Verdict, Burn, Claim, Remint, Revalue, SetValue, Transfer, SetHolders, Tick
  <2> QED
    BY <2>1 DEF SettleInv, CallOk, SettlementPc
<1>2. CASE Verdict(c)
  <2>1. UNCHANGED <<journal, calls, reserve, faults, raced>> /\ pc[c] = "verdict"
    BY <1>2 DEF Verdict, services, history
  <2>2. call[c].args.then \in OperationPc \ {"rload", "append", "verdict"}
    BY <1>1, <2>1 DEF SettleInv, CallOk, OperationPc
  <2>3. Stop(c) \/ (Goto(c, call[c].args.then) /\ UNCHANGED call)
    BY <1>2 DEF Verdict
  <2> QED
    BY <1>1, <2>1, <2>2, <2>3, OperationStops, OperationGoes
<1>3. CASE Burn(c) \/ Revalue(c) \/ SetValue(c) \/ Transfer(c) \/ SetHolders(c)
  <2>1. UNCHANGED <<calls, reserve, faults, raced>>
    BY <1>3 DEF Burn, Revalue, SetValue, Transfer, SetHolders, services, history
  <2>2. \/ journal' = journal
        \/ \E r : journal' = Append(journal, r) /\ r.fact \notin SettlementFact
    <3>1. CASE Burn(c)
      <4>1. PICK r : r = Fact("burn", call[c].pid, call[c].args.holder, call[c].args.before)
        OBVIOUS
      <4>2. r.fact \notin SettlementFact
        BY <4>1, FactShape DEF SettlementFact
      <4> QED
        BY <3>1, <4>1, <4>2 DEF Burn
    <3>2. CASE Revalue(c) \/ SetValue(c) \/ Transfer(c) \/ SetHolders(c)
      BY <3>2 DEF Revalue, SetValue, Transfer, SetHolders
    <3> QED
      BY <1>3, <3>1, <3>2
  <2>3. \/ Stop(c)
        \/ \E l \in {"child", "value", "holders"} : Goto(c, l) /\ UNCHANGED call
    BY <1>3 DEF Burn, Revalue, SetValue, Transfer, SetHolders
  <2>4. {"child", "value", "holders"} \subseteq OperationPc \ {"rload", "append", "verdict"}
    BY DEF OperationPc
  <2> QED
    BY <1>1, <2>1, <2>2, <2>3, <2>4, OperationStops, OperationGoes
<1>4. CASE Claim(c)
  <2>1. UNCHANGED <<journal, calls, faults, raced>> /\ IsReserve(reserve)
    BY <1>4 DEF Claim, ReleaseChild, history, SettleInv
  <2>2. PICK a : a = call[c].args.amount
    OBVIOUS
  <2>3. CASE reserve.own < a
    <3>1. Stop(c) /\ UNCHANGED reserve
      BY <1>4, <2>2, <2>3 DEF Claim, ReleaseChild
    <3> QED
      BY <1>1, <2>1, <3>1, OperationStops
  <2>4. CASE ~(reserve.own < a)
    <3>1. /\ reserve' = [reserve EXCEPT !.own = @ - a]
          /\ Due(c, Fact("released", call[c].pid, Nobody, a), "remint")
      BY <1>4, <2>2, <2>4 DEF Claim, ReleaseChild
    <3>2. IsReserve(reserve') /\ reserve'.accrued = reserve.accrued
      BY <2>1, <3>1 DEF IsReserve
    <3>3. Fact("released", call[c].pid, Nobody, a).fact \notin SettlementFact
      BY DEF Fact, SettlementFact
    <3> QED
      BY <1>1, <2>1, <3>1, <3>2, <3>3, OperationOwes
  <2> QED
    BY <2>3, <2>4
<1>5. CASE Remint(c)
  <2>1. UNCHANGED <<calls, reserve, faults, raced>> /\ IsReserve(reserve)
    BY <1>5 DEF Remint, services, history, SettleInv
  <2>2. PICK f : /\ Due(c, f, "idle")
                 /\ f = Fact("release", call[c].pid, call[c].args.holder, call[c].args.amount)
    BY <1>5 DEF Remint
  <2>3. f.fact \notin SettlementFact
    BY <2>2 DEF Fact, SettlementFact
  <2>4. \/ journal' = journal
        \/ \E r : journal' = Append(journal, r) /\ r.fact \notin SettlementFact
    <3>1. PICK r : r = Fact("remint", call[c].pid, call[c].args.holder,
                            call[c].args.before - call[c].args.amount)
      OBVIOUS
    <3>2. r.fact \notin SettlementFact
      BY <3>1, FactShape DEF SettlementFact
    <3> QED
      BY <1>5, <3>1, <3>2 DEF Remint
  <2> QED
    BY <1>1, <2>1, <2>2, <2>3, <2>4, OperationOwes
<1>6. CASE Tick(c)
  <2>1. UNCHANGED <<journal, calls, reserve, faults, raced>> /\ IsReserve(reserve)
    BY <1>6 DEF Tick, history, SettleInv
  <2>2. Stop(c) \/ \E f : Due(c, f, "idle") /\ f.fact = "activated"
    BY <1>6 DEF Tick, Fact
  <2>3. CASE Stop(c)
    BY <1>1, <2>1, <2>3, OperationStops
  <2>4. ASSUME NEW f, Due(c, f, "idle"), f.fact = "activated"
        PROVE  SettleInv'
    <3>1. f.fact \notin SettlementFact
      BY <2>4 DEF SettlementFact
    <3> QED
      BY <1>1, <2>1, <2>4, <3>1, OperationOwes
  <2> QED
    BY <2>2, <2>3, <2>4
<1> QED
  BY <1>2, <1>3, <1>4, <1>5, <1>6
-----------------------------------------------------------------------------
\* A step of the call that settles p: it alone settles p, the rest are bystanders.
LEMMA OwnStep ==
    ASSUME SettleInv, NEW c \in Caller, NEW p \in Minted, OthersStay(c), CallOk(c)',
           call[c].pid = p, pc[c] # "idle", call'[c].pid \in {p, Nobody},
           \/ journal' = journal
           \/ \E r : journal' = Append(journal, r) /\ r.pid = p,
           IsReserve(reserve'),
           reserve'.accrued \subseteq reserve.accrued \cup Of(journal, "accrual") \cup {p},
           UNCHANGED <<faults, raced>>,
           ~raced /\ faults = 0 /\ Phase(c, p) =>
               IF Settling(c, p)' THEN Phase(c, p)' ELSE (Untouched(p) \/ Done(p))'
    PROVE  SettleInv'
<1>1. journal \in Seq(ToSet(journal))
  BY DEF SettleInv
<1>2. journal' \in Seq(ToSet(journal')) /\ Of(journal, "accrual") \subseteq Of(journal', "accrual")
  <2>1. CASE journal' = journal
    BY <1>1, <2>1 DEF Of
  <2>2. ASSUME NEW r, journal' = Append(journal, r)
        PROVE  journal' \in Seq(ToSet(journal')) /\ Of(journal, "accrual") \subseteq Of(journal', "accrual")
    BY <1>1, <2>2, JournalGrows, FactsGrow
  <2> QED
    BY <2>1, <2>2
<1>3. StepBy(c)
  BY <1>2 DEF StepBy, SettleInv
<1>4. ASSUME NEW q \in Minted, q # p, SettlementInv(q)
      PROVE  SettlementInv(q)'
  <2>1. Same(q)
    BY <1>1, <1>4, SameIfElsewhere
  <2>2. q \in reserve.accrued' => q \in reserve.accrued \/ Facts("accrual", q) # {}
    BY <1>4 DEF Of, Facts
  <2>3. ~Settling(c, q) /\ ~Settling(c, q)'
    BY <1>4, FreshAssumption DEF Settling
  <2> QED
    BY <1>3, <1>4, <2>1, <2>2, <2>3, Bystander
<1>5. ASSUME SettlementInv(p), ~raced, faults = 0
      PROVE  SettlementInv(p)'
  <2>1. Settling(c, p) /\ Phase(c, p) /\ \A d \in Caller \ {c} : ~Settling(d, p)
    BY <1>5 DEF Settling, SettlementInv
  <2>2. \A d \in Caller \ {c} : ~Settling(d, p)'
    BY <2>1 DEF OthersStay, Settling
  <2>3. CASE Settling(c, p)'
    BY <1>5, <2>1, <2>2, <2>3 DEF SettlementInv
  <2>4. CASE ~Settling(c, p)'
    BY <1>5, <2>1, <2>2, <2>4 DEF SettlementInv
  <2> QED
    BY <2>3, <2>4
<1> QED
  BY <1>3, <1>4, <1>5, Frame DEF SettleInv

\* The steps that state nothing and touch neither service.
LEMMA OwnQuietStep ==
    ASSUME SettleInv, NEW c \in Caller, NEW p \in Minted, OthersStay(c), CallOk(c)',
           call[c].pid = p, pc[c] # "idle", call'[c].pid \in {p, Nobody},
           UNCHANGED <<journal, reserve, faults, raced>>,
           Phase(c, p) => IF Settling(c, p)' THEN Phase(c, p)' ELSE Untouched(p) \/ Done(p)
    PROVE  SettleInv'
<1>1. Untouched(p)' <=> Untouched(p)
  BY DEF Untouched, NotAccrued, Facts
<1>2. Done(p)' <=> Done(p)
  BY DEF Done, SettledTo, PaidTo, Facts
<1>3. IsReserve(reserve')
  BY DEF SettleInv
<1> QED
  BY <1>1, <1>2, <1>3, OwnStep

\* With the journal and the reserve as they are, a settlement stands where it stood.
LEMMA Stands ==
    ASSUME UNCHANGED <<journal, reserve>>, NEW p
    PROVE  /\ \A X : SettledTo(p, X)' <=> SettledTo(p, X)
           /\ NotAccrued(p)' <=> NotAccrued(p)
           /\ Untouched(p)' <=> Untouched(p)
           /\ Done(p)' <=> Done(p)
           /\ Facts("accrual", p)' = Facts("accrual", p)
BY DEF Untouched, NotAccrued, Done, SettledTo, PaidTo, Facts

\* A settlement begins.
LEMMA SettleKeeps ==
    ASSUME SettleInv, NEW c \in Caller, NEW p \in Minted, Settle(c, p)
    PROVE  SettleInv'
<1>1. /\ pc[c] = "idle" /\ calls[c] < MaxCalls /\ Goto(c, "settle")
      /\ calls' = [calls EXCEPT ![c] = @ + 1]
      /\ call' = [call EXCEPT ![c] = [NoCall EXCEPT !.pid = p]]
      /\ raced' = (raced \/ \E d \in Caller \ {c} : Settling(d, p))
      /\ UNCHANGED <<journal, reserve, faults>>
  BY DEF Settle, Begin, services
<1>2. /\ IsCall(call'[c]) /\ call'[c].pid = p /\ call'[c].log = <<>>
      /\ pc'[c] = "settle" /\ OthersStay(c)
  BY <1>1 DEF SettleInv, NoCall, IsCall, Goto, OthersStay
<1>3. CallOk(c)'
  <2>1. Of(<<>>, "accrual") = {}
    BY DEF Of
  <2>2. calls'[c] \in 0..MaxCalls
    BY <1>1, AmountsAssumption DEF SettleInv, CallOk
  <2> QED
    BY <1>2, <2>1, <2>2 DEF CallOk, SettlementPc
<1>4. journal' \in Seq(ToSet(journal')) /\ Of(journal, "accrual") \subseteq Of(journal', "accrual")
  BY <1>1 DEF SettleInv, Of
<1>5. StepBy(c)
  <2>1. raced => raced'
    BY <1>1
  <2>2. IsReserve(reserve') /\ faults' \in Nat /\ faults' >= faults
    BY <1>1 DEF SettleInv
  <2> QED
    BY <1>2, <1>3, <1>4, <2>1, <2>2 DEF StepBy
<1>6. call[c].pid = Nobody
  BY <1>1 DEF SettleInv, CallOk
<1>7. ASSUME NEW q \in Minted, q # p, SettlementInv(q)
      PROVE  SettlementInv(q)'
  <2>1. Same(q)
    BY <1>1, SameIfElsewhere DEF SettleInv
  <2>2. ~Settling(c, q) /\ ~Settling(c, q)'
    BY <1>2, <1>6, <1>7, FreshAssumption DEF Settling
  <2> QED
    BY <1>1, <1>5, <1>7, <2>1, <2>2, Bystander
<1>8. ASSUME SettlementInv(p), ~raced'
      PROVE  SettlementInv(p)'
  <2>1. \A d \in Caller : ~Settling(d, p)
    BY <1>1, <1>8 DEF Settling
  <2>2. (Untouched(p) \/ Done(p))'
    BY <1>1, <1>8, <2>1, Stands DEF SettlementInv
  <2>3. \A d \in Caller \ {c} : ~Settling(d, p)'
    BY <1>2, <2>1 DEF OthersStay, Settling
  <2>4. Phase(c, p)' /\ Settling(c, p)'
    BY <1>2, <2>2 DEF Phase, Settling
  <2> QED
    BY <2>3, <2>4 DEF SettlementInv
<1>9. ~raced' => ~raced
  BY <1>1
<1> QED
  BY <1>1, <1>5, <1>7, <1>8, <1>9, Frame DEF SettleInv

\* The steps of a settlement before its first record and between two.
LEMMA SettlementGoes ==
    ASSUME SettleInv, NEW c \in Caller,
           \/ LoadCommission(c) \/ HydrateCommission(c) \/ CheckSettled(c) \/ PayNode(c)
           \/ LoadReserve(c, "accrue", "accrued?")
    PROVE  SettleInv'
<1>1. /\ UNCHANGED <<journal, reserve, faults, raced, calls>>
      /\ pc[c] \in {"settle", "cload", "settled?", "pay", "accrue"}
  BY DEF LoadCommission, HydrateCommission, CheckSettled, PayNode, LoadReserve, services, history
<1>2. PICK p \in Minted : call[c].pid = p
  BY <1>1 DEF SettleInv, CallOk, OperationPc
<1>3. IsCall(call[c]) /\ DOMAIN call = Caller /\ DOMAIN pc = Caller /\ CallOk(c)
  BY DEF SettleInv, CallOk
<1>4. Of(<<>>, "accrual") = {}
  BY DEF Of
<1>5. CASE LoadCommission(c)
  <2>1. CASE commission.hydrated
    <3>1. pc[c] = "settle" /\ Goto(c, "settled?") /\ UNCHANGED call
      BY <1>5, <2>1 DEF LoadCommission
    <3>2. OthersStay(c) /\ pc'[c] = "settled?" /\ call'[c] = call[c]
      BY <1>1, <3>1, Goes
    <3>3. CallOk(c)'
      BY <1>1, <1>2, <1>3, <3>2 DEF CallOk, SettlementPc
    <3>4. Phase(c, p) => Settling(c, p)' /\ Phase(c, p)'
      BY <1>1, <1>2, <3>1, <3>2, Stands DEF Phase, Settling
    <3> QED
      BY <1>1, <1>2, <3>2, <3>3, <3>4, OwnQuietStep
  <2>2. CASE ~commission.hydrated
    <3>1. pc[c] = "settle" /\ Goto(c, "cload") /\ call' = [call EXCEPT ![c].log = journal]
      BY <1>5, <2>2 DEF LoadCommission
    <3>2. /\ OthersStay(c) /\ pc'[c] = "cload" /\ IsCall(call'[c]) /\ call'[c].pid = p
          /\ call'[c].log = journal
      BY <1>1, <1>2, <1>3, <3>1 DEF OthersStay, Goto, IsCall, SettleInv
    <3>3. CallOk(c)'
      BY <1>1, <1>2, <1>3, <3>2 DEF CallOk, SettlementPc
    <3>4. Phase(c, p) => Settling(c, p)' /\ Phase(c, p)'
      BY <1>1, <1>2, <3>1, <3>2, Stands DEF Phase, Settling
    <3> QED
      BY <1>1, <1>2, <3>2, <3>3, <3>4, OwnQuietStep
  <2> QED
    BY <2>1, <2>2
<1>6. CASE HydrateCommission(c)
  <2>1. pc[c] = "cload" /\ Goto(c, "settled?") /\ call' = [call EXCEPT ![c].log = <<>>]
    BY <1>6 DEF HydrateCommission
  <2>2. /\ OthersStay(c) /\ pc'[c] = "settled?" /\ IsCall(call'[c]) /\ call'[c].pid = p
        /\ call'[c].log = <<>>
    BY <1>1, <1>2, <1>3, <2>1 DEF OthersStay, Goto, IsCall, SettleInv
  <2>3. CallOk(c)'
    BY <1>1, <1>2, <1>3, <1>4, <2>2 DEF CallOk, SettlementPc
  <2>4. Phase(c, p) => Settling(c, p)' /\ Phase(c, p)'
    BY <1>1, <1>2, <2>1, <2>2, Stands DEF Phase, Settling
  <2> QED
    BY <1>1, <1>2, <2>2, <2>3, <2>4, OwnQuietStep
<1>7. CASE CheckSettled(c)
  <2>1. CASE p \in commission.settled \/ Journalled("commission", p)
    <3>1. Stop(c) /\ pc[c] = "settled?"
      BY <1>2, <1>7, <2>1 DEF CheckSettled
    <3>2. OthersStay(c) /\ CallOk(c)' /\ call'[c].pid = Nobody /\ pc'[c] = "idle"
      BY <1>1, <3>1, Stops
    <3>3. Phase(c, p) => ~Settling(c, p)' /\ (Untouched(p) \/ Done(p))
      BY <3>1, <3>2 DEF Phase, Settling
    <3> QED
      BY <1>1, <1>2, <3>2, <3>3, OwnQuietStep
  <2>2. CASE ~(p \in commission.settled \/ Journalled("commission", p))
    <3>0. PICK f : f = Fact("commission", p, Nobody, Payment * Cardinality(Node) + AstShare)
      OBVIOUS
    <3>1. /\ Goto(c, "append") /\ pc[c] = "settled?"
          /\ call' = [call EXCEPT ![c].due = f, ![c].next = "pay", ![c].left = Node]
      BY <1>2, <1>7, <2>2, <3>0 DEF CheckSettled
    <3>2. /\ OthersStay(c) /\ pc'[c] = "append" /\ IsCall(call'[c]) /\ call'[c].pid = p
          /\ call'[c].log = call[c].log /\ call'[c].due = f /\ call'[c].next = "pay"
          /\ call'[c].left = Node
      BY <1>1, <1>2, <1>3, <3>1 DEF OthersStay, Goto, IsCall, SettleInv
    <3>4. f.fact = "commission" /\ f.pid = p
      BY <3>0, FactShape
    <3>3. CallOk(c)'
      BY <1>1, <1>2, <1>3, <3>2, <3>4 DEF CallOk, SettlementPc
    <3>5. ~Done(p)
      BY <2>2 DEF Done, SettledTo, Facts, Journalled
    <3>6. Phase(c, p) => Settling(c, p)' /\ Phase(c, p)'
      <4>1. Phase(c, p) => Untouched(p)'
        BY <1>1, <3>1, <3>5, Stands DEF Phase
      <4> QED
        BY <3>2, <3>4, <4>1 DEF Phase, Settling
    <3> QED
      BY <1>1, <1>2, <3>2, <3>3, <3>6, OwnQuietStep
  <2> QED
    BY <2>1, <2>2
<1>8. CASE PayNode(c)
  <2>1. CASE call[c].left = {}
    <3>1. pc[c] = "pay" /\ Goto(c, "accrue") /\ UNCHANGED call
      BY <1>8, <2>1 DEF PayNode
    <3>2. OthersStay(c) /\ pc'[c] = "accrue" /\ call'[c] = call[c]
      BY <1>1, <3>1, Goes
    <3>3. CallOk(c)'
      BY <1>1, <1>2, <1>3, <3>2 DEF CallOk, SettlementPc
    <3>4. Phase(c, p) => Settling(c, p)' /\ Phase(c, p)'
      <4>1. Phase(c, p) => SettledTo(p, Node \ {}) /\ NotAccrued(p)
        BY <2>1, <3>1 DEF Phase
      <4>2. Node \ {} = Node
        OBVIOUS
      <4> QED
        BY <1>1, <1>2, <3>2, <4>1, <4>2, Stands DEF Phase, Settling
    <3> QED
      BY <1>1, <1>2, <3>2, <3>3, <3>4, OwnQuietStep
  <2>2. CASE call[c].left # {}
    <3>0. PICK n, f : /\ n \in call[c].left /\ n = (CHOOSE m \in call[c].left : TRUE)
                     /\ f = Fact("paid", p, n, Payment)
      BY <2>2
    <3>1. /\ pc[c] = "pay" /\ Goto(c, "append")
          /\ call' = [call EXCEPT ![c].due = f, ![c].next = "pay", ![c].left = @ \ {n}]
      BY <1>2, <1>8, <2>2, <3>0 DEF PayNode
    <3>2. /\ OthersStay(c) /\ pc'[c] = "append" /\ IsCall(call'[c]) /\ call'[c].pid = p
          /\ call'[c].log = call[c].log /\ call'[c].due = f /\ call'[c].next = "pay"
          /\ call'[c].left = call[c].left \ {n}
      BY <1>1, <1>2, <1>3, <3>1 DEF OthersStay, Goto, IsCall, SettleInv
    <3>3. CallOk(c)'
      <4>1. f.pid = p
        BY <3>0, FactShape
      <4> QED
        BY <1>1, <1>2, <1>3, <3>2, <4>1 DEF CallOk, SettlementPc
    <3>4. Phase(c, p) => Settling(c, p)' /\ Phase(c, p)'
      <4>1. ASSUME Phase(c, p)
            PROVE  Phase(c, p)'
        <5>1. call[c].left \subseteq Node /\ SettledTo(p, Node \ call[c].left) /\ NotAccrued(p)
          BY <3>1, <4>1 DEF Phase
        <5>2. PICK L : L = call'[c].left
          OBVIOUS
        <5>3. /\ L \subseteq Node /\ n \in Node \ L
              /\ Node \ (L \cup {n}) = Node \ call[c].left
          BY <3>0, <3>2, <5>1, <5>2
        <5>4. SettledTo(p, Node \ (L \cup {n}))' /\ NotAccrued(p)'
          BY <1>1, <5>1, <5>3, Stands
        <5> QED
          BY <3>0, <3>2, <5>2, <5>3, <5>4 DEF Phase
      <4> QED
        BY <3>2, <4>1 DEF Settling
    <3> QED
      BY <1>1, <1>2, <3>2, <3>3, <3>4, OwnQuietStep
  <2> QED
    BY <2>1, <2>2
<1>9. CASE LoadReserve(c, "accrue", "accrued?")
  <2>1. CASE reserve.hydrated
    <3>1. pc[c] = "accrue" /\ Goto(c, "accrued?") /\ UNCHANGED call
      BY <1>9, <2>1 DEF LoadReserve
    <3>2. OthersStay(c) /\ pc'[c] = "accrued?" /\ call'[c] = call[c]
      BY <1>1, <3>1, Goes
    <3>3. CallOk(c)'
      BY <1>1, <1>2, <1>3, <3>2 DEF CallOk, SettlementPc
    <3>4. Phase(c, p) => Settling(c, p)' /\ Phase(c, p)'
      BY <1>1, <1>2, <3>1, <3>2, Stands DEF Phase, Settling
    <3> QED
      BY <1>1, <1>2, <3>2, <3>3, <3>4, OwnQuietStep
  <2>2. CASE ~reserve.hydrated
    <3>1. /\ pc[c] = "accrue" /\ Goto(c, "rload")
          /\ call' = [call EXCEPT ![c].log = journal, ![c].next = "accrued?"]
      BY <1>9, <2>2 DEF LoadReserve
    <3>2. /\ OthersStay(c) /\ pc'[c] = "rload" /\ IsCall(call'[c]) /\ call'[c].pid = p
          /\ call'[c].log = journal /\ call'[c].next = "accrued?"
      BY <1>1, <1>2, <1>3, <3>1 DEF OthersStay, Goto, IsCall, SettleInv
    <3>3. CallOk(c)'
      BY <1>1, <1>2, <1>3, <3>2 DEF CallOk, SettlementPc
    <3>4. Phase(c, p) => Settling(c, p)' /\ Phase(c, p)'
      BY <1>1, <1>2, <3>1, <3>2, Stands DEF Phase, Settling
    <3> QED
      BY <1>1, <1>2, <3>2, <3>3, <3>4, OwnQuietStep
  <2> QED
    BY <2>1, <2>2
<1> QED
  BY <1>5, <1>6, <1>7, <1>8, <1>9

\* The reserve is hydrated, for an accrual or for a claim.
LEMMA HydrateReserveKeeps ==
    ASSUME SettleInv, NEW c \in Caller, HydrateReserve(c)
    PROVE  SettleInv'
<1>1. /\ UNCHANGED <<journal, faults, raced, calls>> /\ pc[c] = "rload"
      /\ reserve' = ReserveFrom(call[c].log) /\ Goto(c, call[c].next)
      /\ call' = [call EXCEPT ![c].log = <<>>, ![c].next = "idle"]
  BY DEF HydrateReserve
<1>2. IsCall(call[c]) /\ DOMAIN call = Caller /\ DOMAIN pc = Caller /\ CallOk(c)
  BY DEF SettleInv, CallOk
<1>3. /\ OthersStay(c) /\ pc'[c] = call[c].next /\ IsCall(call'[c]) /\ call'[c].pid = call[c].pid
      /\ call'[c].log = <<>>
  BY <1>1, <1>2 DEF OthersStay, Goto, IsCall, SettleInv
<1>4. Of(<<>>, "accrual") = {}
  BY DEF Of
<1>5. IsReserve(reserve') /\ reserve'.accrued \subseteq Of(journal, "accrual")
  <2>1. IsReserve(reserve') /\ reserve'.accrued = Of(call[c].log, "accrual")
    BY <1>1 DEF IsReserve, ReserveFrom
  <2> QED
    BY <1>2, <2>1 DEF CallOk
<1>6. CASE call[c].pid \in Minted
  <2>1. PICK p \in Minted : call[c].pid = p
    BY <1>6
  <2>2. Phase(c, p) => SettledTo(p, Node) /\ Facts("accrual", p) = {}
    BY <1>1 DEF Phase, NotAccrued
  <2>3. call[c].next = "accrued?"
    BY <1>1, <1>2, <2>1 DEF CallOk
  <2>4. SettleInv'
    <3>1. CallOk(c)'
      BY <1>1, <1>2, <1>3, <1>4, <2>1, <2>3 DEF CallOk, SettlementPc
    <3>2. SettledTo(p, Node) => SettledTo(p, Node)'
      BY <1>1 DEF SettledTo, Facts, PaidTo
    <3>3. Facts("accrual", p) = {} => NotAccrued(p)'
      BY <1>1, <1>5 DEF NotAccrued, Facts, Of
    <3>4. Phase(c, p) => Phase(c, p)' /\ Settling(c, p)'
      BY <1>3, <2>1, <2>2, <2>3, <3>2, <3>3 DEF Phase, Settling
    <3> QED
      BY <1>1, <1>3, <1>5, <2>1, <3>1, <3>4, OwnStep
  <2> QED
    BY <2>4
<1>7. CASE call[c].pid \notin Minted
  <2>1. CallOk(c)'
    BY <1>1, <1>2, <1>3, <1>4, <1>7 DEF CallOk, OperationPc
  <2> QED
    BY <1>1, <1>3, <1>5, <1>7, <2>1, OtherStep
<1> QED
  BY <1>6, <1>7

\* The reserve is read on the way to a claim.
LEMMA LoadForClaimKeeps ==
    ASSUME SettleInv, NEW c \in Caller, LoadReserve(c, "child", "claim")
    PROVE  SettleInv'
<1>1. UNCHANGED <<journal, reserve, faults, raced, calls>> /\ pc[c] = "child"
  BY DEF LoadReserve, services, history
<1>2. call[c].pid \notin Minted /\ IsCall(call[c]) /\ DOMAIN call = Caller /\ CallOk(c) /\ IsReserve(reserve)
  BY <1>1 DEF SettleInv, CallOk, SettlementPc
<1>3. CASE reserve.hydrated
  <2>1. Goto(c, "claim") /\ UNCHANGED call /\ "claim" \in OperationPc \ {"rload", "append", "verdict"}
    BY <1>3 DEF LoadReserve, OperationPc
  <2> QED
    BY <1>1, <1>2, <2>1, OperationGoes
<1>4. CASE ~reserve.hydrated
  <2>1. Goto(c, "rload") /\ call' = [call EXCEPT ![c].log = journal, ![c].next = "claim"]
    BY <1>4 DEF LoadReserve
  <2>2. /\ OthersStay(c) /\ pc'[c] = "rload" /\ IsCall(call'[c]) /\ call'[c].pid = call[c].pid
        /\ call'[c].log = journal /\ call'[c].next = "claim"
    BY <1>1, <1>2, <2>1 DEF OthersStay, Goto, IsCall, SettleInv
  <2>3. CallOk(c)'
    BY <1>1, <1>2, <2>2 DEF CallOk, OperationPc
  <2> QED
    BY <1>1, <1>2, <2>2, <2>3, OtherStep
<1> QED
  BY <1>3, <1>4

\* accrueFromCommission of the call that settles p: nothing was accrued for p before.
LEMMA AccrueKeeps ==
    ASSUME SettleInv, NEW c \in Caller, Accrue(c)
    PROVE  SettleInv'
<1>1. UNCHANGED <<journal, faults, raced, calls>> /\ pc[c] = "accrued?"
  BY DEF Accrue, history
<1>2. PICK p \in Minted : call[c].pid = p
  BY <1>1 DEF SettleInv, CallOk, OperationPc
<1>3. IsCall(call[c]) /\ DOMAIN call = Caller /\ CallOk(c) /\ IsReserve(reserve)
  BY DEF SettleInv, CallOk
<1>4. Phase(c, p) => SettledTo(p, Node) /\ NotAccrued(p)
  BY <1>1 DEF Phase
<1>5. CASE p \in reserve.accrued \/ Journalled("accrual", p)
  <2>1. Stop(c) /\ UNCHANGED reserve
    BY <1>2, <1>5 DEF Accrue
  <2>2. OthersStay(c) /\ CallOk(c)' /\ call'[c].pid = Nobody /\ pc'[c] = "idle"
    BY <1>1, <2>1, Stops
  <2>3. ~Phase(c, p)
    BY <1>4, <1>5 DEF NotAccrued, Journalled, Facts
  <2> QED
    BY <1>1, <1>2, <2>1, <2>2, <2>3, OwnQuietStep
<1>6. CASE ~(p \in reserve.accrued \/ Journalled("accrual", p))
  <2>0. PICK f : f = Fact("accrual", p, Nobody, AstShare)
    OBVIOUS
  <2>1. /\ Due(c, f, "idle")
        /\ reserve' = [reserve EXCEPT !.own = @ + AstShare, !.volume = @ + Volume, !.accrued = @ \cup {p}]
    BY <1>2, <1>6, <2>0 DEF Accrue
  <2>2. f.fact = "accrual" /\ f.pid = p
    BY <2>0, FactShape
  <2>3. /\ OthersStay(c) /\ pc'[c] = "append" /\ IsCall(call'[c])
        /\ call'[c].due = f /\ call'[c].next = "idle" /\ call'[c].pid = p
        /\ call'[c].log = call[c].log
    BY <1>1, <1>2, <2>1, FallsDue
  <2>4. CallOk(c)'
    BY <1>1, <1>2, <1>3, <2>2, <2>3 DEF CallOk, SettlementPc
  <2>5. IsReserve(reserve') /\ reserve'.accrued = reserve.accrued \cup {p}
    BY <1>3, <2>1 DEF IsReserve
  <2>6. Phase(c, p) => Phase(c, p)' /\ Settling(c, p)'
    <3>1. SettledTo(p, Node) => SettledTo(p, Node)'
      BY <1>1 DEF SettledTo, Facts, PaidTo
    <3>2. Facts("accrual", p)' = Facts("accrual", p)
      BY <1>1 DEF Facts
    <3> QED
      BY <1>4, <2>2, <2>3, <3>1, <3>2 DEF Phase, Settling, NotAccrued
  <2> QED
    BY <1>1, <1>2, <2>3, <2>4, <2>5, <2>6, OwnStep
<1> QED
  BY <1>5, <1>6
-----------------------------------------------------------------------------
\* The three records of a settlement, each on what was stated before it.
LEMMA CommissionStated ==
    ASSUME journal \in Seq(ToSet(journal)), NEW r, journal' = Append(journal, r), UNCHANGED reserve,
           NEW p, r.fact = "commission", r.pid = p, Untouched(p)
    PROVE  SettledTo(p, {})' /\ NotAccrued(p)'
<1>1. PICK k : k = Len(journal) + 1
  OBVIOUS
<1>2. k \in DOMAIN journal'
  BY <1>1, JournalGrows
<1>3. /\ Facts("commission", p)' = Facts("commission", p) \cup {k}
      /\ Facts("paid", p)' = Facts("paid", p) /\ Facts("accrual", p)' = Facts("accrual", p)
  BY <1>1, FactsGrow
<1>4. /\ Facts("commission", p)' = {k} /\ Facts("paid", p)' = {} /\ Facts("accrual", p)' = {}
  BY <1>3 DEF Untouched, NotAccrued
<1>5. \A n : PaidTo(p, n)' = {}
  BY <1>4 DEF PaidTo
<1> QED
  BY <1>2, <1>4, <1>5 DEF SettledTo, NotAccrued, Untouched

\* A payment is journalled: one node more is paid.
LEMMA PaymentStated ==
    ASSUME journal \in Seq(ToSet(journal)), NEW r, journal' = Append(journal, r), UNCHANGED reserve,
           NEW p, NEW X \in SUBSET Node, NEW n \in Node \ X,
           r.fact = "paid", r.pid = p, r.who = n, SettledTo(p, X), NotAccrued(p)
    PROVE  SettledTo(p, X \cup {n})' /\ NotAccrued(p)'
<1>1. PICK k : k = Len(journal) + 1
  OBVIOUS
<1>2. /\ k \in DOMAIN journal' /\ DOMAIN journal \subseteq DOMAIN journal'
      /\ \A i \in DOMAIN journal : i < k
  <2>1. /\ DOMAIN journal = 1..Len(journal) /\ Len(journal) \in Nat
        /\ DOMAIN journal' = 1..(Len(journal) + 1)
    BY JournalGrows
  <2> QED
    BY <1>1, <2>1
<1>3. /\ Facts("commission", p)' = Facts("commission", p)
      /\ Facts("paid", p)' = Facts("paid", p) \cup {k} /\ Facts("accrual", p)' = Facts("accrual", p)
      /\ \A m : PaidTo(p, m)' = IF m = n THEN PaidTo(p, m) \cup {k} ELSE PaidTo(p, m)
  BY <1>1, FactsGrow
<1>4. PICK i \in DOMAIN journal : /\ Facts("commission", p) = {i}
                                  /\ \A j \in Facts("paid", p) \cup Facts("accrual", p) : i < j
  BY DEF SettledTo
<1>5. i < k /\ i \in DOMAIN journal'
  BY <1>2, <1>4
<1>6. /\ Facts("commission", p)' = {i}
      /\ \A j \in Facts("paid", p)' \cup Facts("accrual", p)' : i < j
  BY <1>3, <1>4, <1>5
<1>7. /\ \A m \in X : \E j \in DOMAIN journal : PaidTo(p, m) = {j}
      /\ \A m \in Node \ X : PaidTo(p, m) = {}
  BY DEF SettledTo
<1>8. ASSUME NEW m \in X \cup {n} PROVE \E j \in DOMAIN journal' : PaidTo(p, m)' = {j}
  <2>1. CASE m = n
    <3>1. PaidTo(p, m)' = {k}
      BY <1>3, <1>7, <2>1
    <3> QED BY <1>2, <3>1
  <2>2. CASE m # n
    <3>1. PaidTo(p, m)' = PaidTo(p, m) /\ m \in X
      BY <1>3, <1>8, <2>2
    <3>2. PICK j \in DOMAIN journal : PaidTo(p, m) = {j}
      BY <1>7, <3>1
    <3> QED BY <1>2, <3>1, <3>2
  <2> QED BY <2>1, <2>2
<1>9. ASSUME NEW m \in Node \ (X \cup {n}) PROVE PaidTo(p, m)' = {}
  BY <1>3, <1>7, <1>9
<1> QED
  BY <1>3, <1>5, <1>6, <1>8, <1>9 DEF SettledTo, NotAccrued

\* The accrual is journalled: the settlement is whole.
LEMMA AccrualStated ==
    ASSUME journal \in Seq(ToSet(journal)), NEW r, journal' = Append(journal, r),
           NEW p, r.fact = "accrual", r.pid = p, SettledTo(p, Node), Facts("accrual", p) = {}
    PROVE  Done(p)'
<1>1. PICK k : k = Len(journal) + 1
  OBVIOUS
<1>2. /\ k \in DOMAIN journal' /\ DOMAIN journal \subseteq DOMAIN journal'
      /\ \A i \in DOMAIN journal : i < k
  <2>1. /\ DOMAIN journal = 1..Len(journal) /\ Len(journal) \in Nat
        /\ DOMAIN journal' = 1..(Len(journal) + 1)
    BY JournalGrows
  <2> QED
    BY <1>1, <2>1
<1>3. /\ Facts("commission", p)' = Facts("commission", p)
      /\ Facts("paid", p)' = Facts("paid", p) /\ Facts("accrual", p)' = {k}
      /\ \A m : PaidTo(p, m)' = PaidTo(p, m)
  BY <1>1, FactsGrow
<1>4. PICK i \in DOMAIN journal : /\ Facts("commission", p) = {i}
                                  /\ \A j \in Facts("paid", p) \cup Facts("accrual", p) : i < j
  BY DEF SettledTo
<1>5. i < k /\ i \in DOMAIN journal'
  BY <1>2, <1>4
<1>6. /\ Facts("commission", p)' = {i}
      /\ \A j \in Facts("paid", p)' \cup Facts("accrual", p)' : i < j
  BY <1>3, <1>4, <1>5
<1>7. /\ \A m \in Node : \E j \in DOMAIN journal' : PaidTo(p, m)' = {j}
      /\ \A m \in Node \ Node : PaidTo(p, m)' = {}
  BY <1>2, <1>3 DEF SettledTo
<1>8. SettledTo(p, Node)'
  BY <1>5, <1>6, <1>7 DEF SettledTo
<1> QED
  BY <1>2, <1>3, <1>8 DEF Done

\* The append of what is due: the settlement is one record further, or the operation goes on.
LEMMA AppendDueKeeps ==
    ASSUME SettleInv, NEW c \in Caller, AppendDue(c)
    PROVE  SettleInv'
<1>1. UNCHANGED <<reserve, faults, raced, calls>> /\ pc[c] = "append"
  BY DEF AppendDue, services, history
<1>2. PICK r : r = call[c].due
  OBVIOUS
<1>3. /\ \/ journal' = journal /\ (~raced => r \in ToSet(journal))
         \/ journal' = Append(journal, r)
      /\ ~raced => IF r \in ToSet(journal) THEN journal' = journal ELSE journal' = Append(journal, r)
  BY <1>2 DEF AppendDue
<1>4. IsCall(call[c]) /\ DOMAIN call = Caller /\ DOMAIN pc = Caller /\ CallOk(c) /\ IsReserve(reserve)
      /\ journal \in Seq(ToSet(journal))
  BY DEF SettleInv, CallOk
<1>5. CASE call[c].next = "idle"
  <2>1. Stop(c)
    BY <1>5 DEF AppendDue
  <2>2. OthersStay(c) /\ CallOk(c)' /\ call'[c].pid = Nobody /\ pc'[c] = "idle"
    BY <1>1, <2>1, Stops
  <2>3. CASE call[c].pid \notin Minted
    <3>1. r.fact \notin SettlementFact
      BY <1>1, <1>2, <1>4, <2>3 DEF CallOk
    <3> QED
      BY <1>1, <1>3, <2>1, <2>3, <3>1, OperationStops
  <2>4. ASSUME NEW p \in Minted, call[c].pid = p
        PROVE  SettleInv'
    <3>1. r.pid = p
      BY <1>1, <1>2, <1>4, <2>4 DEF CallOk
    <3>2. ASSUME ~raced, Phase(c, p) PROVE Done(p)'
      <4>1. r.fact = "accrual" /\ SettledTo(p, Node) /\ Facts("accrual", p) = {}
        BY <1>1, <1>2, <1>5, <3>2 DEF Phase
      <4>2. r \notin ToSet(journal)
        BY <3>1, <4>1 DEF ToSet, Facts
      <4>3. journal' = Append(journal, r)
        BY <1>3, <3>2, <4>2
      <4> QED
        BY <1>4, <3>1, <4>1, <4>3, AccrualStated
    <3>3. ~Settling(c, p)'
      BY <2>2 DEF Settling
    <3>4. reserve'.accrued \subseteq reserve.accrued \cup Of(journal, "accrual") \cup {p}
      BY <1>1
    <3>5. journal' = journal \/ \E s : journal' = Append(journal, s) /\ s.pid = p
      BY <1>3, <3>1
    <3>6. IsReserve(reserve')
      BY <1>1, <1>4
    <3> QED
      BY <1>1, <2>2, <2>4, <3>2, <3>3, <3>4, <3>5, <3>6, OwnStep
  <2> QED
    BY <2>3, <2>4
<1>6. CASE call[c].next # "idle"
  <2>1. Goto(c, call[c].next) /\ call' = [call EXCEPT ![c].due = NoFact, ![c].next = "idle"]
    BY <1>6 DEF AppendDue
  <2>2. /\ OthersStay(c) /\ pc'[c] = call[c].next /\ IsCall(call'[c]) /\ call'[c].pid = call[c].pid
        /\ call'[c].log = call[c].log /\ call'[c].left = call[c].left
    BY <1>1, <1>4, <2>1 DEF OthersStay, Goto, IsCall, SettleInv
  <2>3. CASE call[c].pid \notin Minted
    <3>1. r.fact \notin SettlementFact /\ call[c].next = "remint"
      BY <1>1, <1>2, <1>4, <1>6, <2>3 DEF CallOk
    <3>2. Of(journal, "accrual") \subseteq Of(journal', "accrual")
      BY <1>3, <3>1, SameIfElsewhere DEF SettleInv
    <3>3. CallOk(c)'
      BY <1>1, <1>4, <2>2, <2>3, <3>1, <3>2 DEF CallOk, OperationPc
    <3> QED
      BY <1>1, <1>3, <1>4, <2>2, <2>3, <3>1, <3>3, OtherStep
  <2>4. ASSUME NEW p \in Minted, call[c].pid = p
        PROVE  SettleInv'
    <3>1. r.pid = p /\ call[c].next = "pay"
      BY <1>1, <1>2, <1>4, <1>6, <2>4 DEF CallOk
    <3>2. Of(journal, "accrual") \subseteq Of(journal', "accrual")
      <4>1. CASE journal' = journal
        BY <4>1 DEF Of
      <4>2. CASE journal' = Append(journal, r)
        BY <1>4, <4>2, FactsGrow
      <4> QED
        BY <1>3, <4>1, <4>2
    <3>3. CallOk(c)'
      BY <1>1, <1>4, <2>2, <2>4, <3>1, <3>2 DEF CallOk, SettlementPc
    <3>4. ASSUME ~raced, Phase(c, p)
          PROVE  \E L \in SUBSET Node : /\ call'[c].left = L
                                        /\ SettledTo(p, Node \ L)' /\ NotAccrued(p)'
      <4>1. \/ r.fact = "commission" /\ call[c].left = Node /\ Untouched(p)
            \/ /\ call[c].left \subseteq Node
               /\ \E n \in Node \ call[c].left :
                    r = Fact("paid", p, n, Payment) /\ SettledTo(p, Node \ (call[c].left \cup {n}))
               /\ NotAccrued(p)
        BY <1>1, <1>2, <3>1, <3>4 DEF Phase
      <4>2. CASE r.fact = "commission" /\ call[c].left = Node /\ Untouched(p)
        <5>1. r \notin ToSet(journal)
          BY <3>1, <4>2 DEF ToSet, Untouched, Facts
        <5>2. journal' = Append(journal, r)
          BY <1>3, <3>4, <5>1
        <5>3. SettledTo(p, {})' /\ NotAccrued(p)'
          BY <1>1, <1>4, <3>1, <4>2, <5>2, CommissionStated
        <5>4. Node \ Node = {}
          OBVIOUS
        <5> QED
          BY <2>2, <4>2, <5>3, <5>4
      <4>3. CASE /\ call[c].left \subseteq Node
                 /\ \E n \in Node \ call[c].left :
                      r = Fact("paid", p, n, Payment) /\ SettledTo(p, Node \ (call[c].left \cup {n}))
                 /\ NotAccrued(p)
        <5>1. PICK L \in SUBSET Node : L = call[c].left
          BY <4>3
        <5>2. PICK n \in Node \ L : r = Fact("paid", p, n, Payment) /\ SettledTo(p, Node \ (L \cup {n}))
          BY <4>3, <5>1
        <5>3. PICK X \in SUBSET Node : X = Node \ (L \cup {n})
          OBVIOUS
        <5>4. n \in Node \ X /\ X \cup {n} = Node \ L /\ SettledTo(p, X)
          BY <5>2, <5>3
        <5>5. r.fact = "paid" /\ r.pid = p /\ r.who = n
          BY <5>2, FactShape
        <5>6. PaidTo(p, n) = {}
          BY <5>4 DEF SettledTo
        <5>7. r \notin ToSet(journal)
          BY <5>5, <5>6 DEF ToSet, Facts, PaidTo
        <5>8. journal' = Append(journal, r)
          BY <1>3, <3>4, <5>7
        <5>9. SettledTo(p, X \cup {n})' /\ NotAccrued(p)'
          BY <1>1, <1>4, <4>3, <5>4, <5>5, <5>8, PaymentStated
        <5> QED
          BY <2>2, <5>1, <5>4, <5>9
      <4> QED
        BY <4>1, <4>2, <4>3
    <3>5. ~raced /\ Phase(c, p) => Settling(c, p)' /\ Phase(c, p)'
      BY <2>2, <2>4, <3>1, <3>4 DEF Phase, Settling
    <3>6. reserve'.accrued \subseteq reserve.accrued \cup Of(journal, "accrual") \cup {p}
      BY <1>1
    <3>7. journal' = journal \/ \E s : journal' = Append(journal, s) /\ s.pid = p
      BY <1>3, <3>1
    <3>8. IsReserve(reserve')
      BY <1>1, <1>4
    <3> QED
      BY <1>1, <2>2, <2>4, <3>3, <3>5, <3>6, <3>7, <3>8, OwnStep
  <2> QED
    BY <2>3, <2>4
<1> QED
  BY <1>5, <1>6

\* After a fault nothing is claimed of the settlements.
LEMMA AppendFailsKeeps ==
    ASSUME SettleInv, NEW c \in Caller, AppendFails(c)
    PROVE  SettleInv'
<1>1. Stop(c) /\ UNCHANGED <<journal, reserve, calls, raced>> /\ faults' = faults + 1
  BY DEF AppendFails, services
<1>2. OthersStay(c) /\ CallOk(c)'
  BY <1>1, Stops
<1>3. faults \in Nat /\ IsReserve(reserve) /\ journal \in Seq(ToSet(journal))
  BY DEF SettleInv
<1>4. journal' \in Seq(ToSet(journal')) /\ Of(journal, "accrual") \subseteq Of(journal', "accrual")
  BY <1>1, <1>3 DEF Of
<1>5. faults' \in Nat /\ faults' >= faults /\ faults' # 0
  BY <1>1, <1>3
<1>6. StepBy(c)
  BY <1>1, <1>2, <1>3, <1>4, <1>5 DEF StepBy
<1> QED
  BY <1>5, <1>6, Frame

\* A restart leaves memory as at first.
LEMMA ColdStart ==
    /\ IsReserve(ColdReserve) /\ ColdReserve.accrued = {}
    /\ IsCall(NoCall) /\ NoCall.pid = Nobody /\ NoCall.log = <<>>
    /\ \A l : Of(<<>>, l) = {}
<1>1. \A l : Of(<<>>, l) = {}
  BY DEF Of
<1>2. IsReserve(ColdReserve) /\ ColdReserve.accrued = {}
  <2>1. PICK own, volume :
          ReserveFrom(<<>>) = [hydrated |-> TRUE, own |-> own, accrued |-> Of(<<>>, "accrual"),
                               volume |-> volume]
    BY DEF ReserveFrom
  <2>2. PICK R : R = ReserveFrom(<<>>) /\ R.accrued = {} /\ IsReserve(R)
    <3>1. ASSUME NEW R, R = ReserveFrom(<<>>) PROVE R.accrued = {} /\ IsReserve(R)
      BY <1>1, <2>1, <3>1 DEF IsReserve
    <3> QED
      BY <3>1
  <2>3. PICK C : C = [R EXCEPT !.hydrated = FALSE]
    OBVIOUS
  <2>4. IsReserve(C) /\ C.accrued = {}
    BY <2>2, <2>3 DEF IsReserve
  <2> QED
    BY <2>2, <2>3, <2>4 DEF ColdReserve
<1> QED
  BY <1>1, <1>2 DEF NoCall, IsCall

\* A restart.
LEMMA RestartKeeps ==
    ASSUME SettleInv, Restart
    PROVE  SettleInv'
<1>1. /\ journal' = journal /\ calls' = calls /\ faults' = faults + 1 /\ reserve' = ColdReserve
      /\ pc' = [c \in Caller |-> "idle"] /\ call' = [c \in Caller |-> NoCall]
  BY DEF Restart, SettlementRestart
<1>2. faults' \in Nat /\ faults' # 0
  BY <1>1 DEF SettleInv
<1>3. ASSUME NEW c \in Caller PROVE CallOk(c)'
  <2>1. pc'[c] = "idle" /\ call'[c] = NoCall /\ calls'[c] \in 0..MaxCalls
    BY <1>1 DEF SettleInv, CallOk
  <2> QED
    BY <2>1, ColdStart, FreshAssumption DEF CallOk
<1> QED
  BY <1>1, <1>2, <1>3, ColdStart DEF SettleInv

\* The invariant holds at first ...
LEMMA InitSettles == Init => SettleInv
<1> SUFFICES ASSUME Init PROVE SettleInv
  OBVIOUS
<1>1. /\ journal = <<>> /\ faults = 0 /\ reserve = ColdReserve
      /\ pc = [c \in Caller |-> "idle"] /\ call = [c \in Caller |-> NoCall]
      /\ calls = [c \in Caller |-> 0]
  BY DEF Init, SettlementInit
<1>2. ASSUME NEW c \in Caller PROVE CallOk(c)
  <2>1. pc[c] = "idle" /\ call[c] = NoCall /\ calls[c] \in 0..MaxCalls
    BY <1>1, AmountsAssumption
  <2> QED
    BY <2>1, ColdStart, FreshAssumption DEF CallOk
<1>3. ASSUME NEW p \in Minted PROVE SettlementInv(p)
  <2>1. \A f : Facts(f, p) = {}
    BY <1>1 DEF Facts
  <2>2. Untouched(p)
    BY <1>1, <2>1, ColdStart DEF Untouched, NotAccrued
  <2>3. \A c \in Caller : ~Settling(c, p)
    BY <1>1 DEF Settling
  <2> QED
    BY <2>2, <2>3 DEF SettlementInv
<1> QED
  BY <1>1, <1>2, <1>3, ColdStart DEF SettleInv

\* ... and every step keeps it.
LEMMA NextSettles ==
    ASSUME SettleInv, Next
    PROVE  SettleInv'
<1>1. ASSUME NEW c \in Caller,
             \/ LoadCommission(c) \/ HydrateCommission(c) \/ CheckSettled(c) \/ PayNode(c)
             \/ LoadReserve(c, "accrue", "accrued?")
      PROVE  SettleInv'
  BY <1>1, SettlementGoes
<1>2. ASSUME NEW c \in Caller, SettlementStep(c) PROVE SettleInv'
  BY <1>1, <1>2, HydrateReserveKeeps, AccrueKeeps, OperationsKeep, AppendDueKeeps DEF SettlementStep
<1>3. ASSUME NEW c \in Caller, NEW h \in Holder, NEW amount \in Amount, AskRelease(c, h, amount)
      PROVE  SettleInv'
  <2>1. PICK args : /\ Ask(c, args) /\ args.then = "burn"
    BY <1>3 DEF AskRelease
  <2> QED
    BY <2>1, AsksKeep
<1>4. ASSUME NEW c \in Caller, NEW p \in Minted, NEW new \in Value, AskRevaluation(c, p, new)
      PROVE  SettleInv'
  <2>1. PICK args : /\ Ask(c, args) /\ args.then = "reval"
    BY <1>4 DEF AskRevaluation
  <2> QED
    BY <2>1, AsksKeep
<1>5. ASSUME NEW c \in Caller, NEW p \in Minted, NEW from \in Holder, NEW to \in Holder,
             NEW amount \in Amount, AskTransfer(c, p, from, to, amount)
      PROVE  SettleInv'
  <2>1. PICK args : /\ Ask(c, args) /\ args.then = "transfer"
    BY <1>5 DEF AskTransfer
  <2> QED
    BY <2>1, AsksKeep
<1> QED
  BY <1>2, <1>3, <1>4, <1>5, SettleKeeps, StatusKeeps, AppendFailsKeeps, LoadForClaimKeeps,
     OperationsKeep, RestartKeeps
  DEF Next

\* The invariant: while no two calls settle one process and nothing fails, each settlement
\* is exactly as far as the call that carries it out; and it is whole when there is none.
THEOREM SettleInvariance == Spec => []SettleInv
<1>1. SettleInv /\ UNCHANGED vars => SettleInv'
  <2> SUFFICES ASSUME SettleInv, UNCHANGED vars PROVE SettleInv'
    OBVIOUS
  <2>1. UNCHANGED <<journal, reserve, pc, call, calls, faults, raced>>
    BY DEF vars, settlementVars, services, running, history
  <2>2. \A c \in Caller : CallOk(c)'
    BY <2>1 DEF SettleInv, CallOk
  <2>3. \A p \in Minted : SettlementInv(p) => SettlementInv(p)'
    <3>1. ASSUME NEW p, SettlementInv(p) PROVE SettlementInv(p)'
      <4>1. \A c \in Caller : (Settling(c, p)' <=> Settling(c, p))
        BY <2>1 DEF Settling
      <4>2. \A c \in Caller : (Phase(c, p) => Phase(c, p)')
        BY <2>1, Stands DEF Phase
      <4> QED
        BY <2>1, <3>1, <4>1, <4>2, Stands DEF SettlementInv
    <3> QED
      BY <3>1
  <2> QED
    BY <2>1, <2>2, <2>3 DEF SettleInv
<1> QED
  BY <1>1, InitSettles, NextSettles, PTL DEF Spec

\* What a journalled settlement says at rest is paid: every node once, the reserve once,
\* all after the settlement itself.
THEOREM SettlementsArePaid == Spec => []SettledIsPaid
<1>1. SettleInv => SettledIsPaid
  <2> SUFFICES ASSUME SettleInv, AtRest, ~raced, faults = 0, NEW p \in Minted,
                      Journalled("commission", p)
               PROVE  Paid(p)
    BY DEF SettledIsPaid
  <2>1. Done(p)
    <3>1. Untouched(p) \/ Done(p)
      BY DEF SettleInv, SettlementInv, AtRest, Settling
    <3> QED
      BY <3>1 DEF Untouched, Journalled, Facts
  <2>2. PICK i \in DOMAIN journal : /\ Facts("commission", p) = {i}
                                    /\ \A j \in Facts("paid", p) \cup Facts("accrual", p) : i < j
    BY <2>1 DEF Done, SettledTo
  <2>3. PICK k : Facts("accrual", p) = {k}
    BY <2>1 DEF Done
  <2>4. Cardinality(Facts("commission", p)) = 1 /\ Cardinality(Facts("accrual", p)) = 1
    BY <2>2, <2>3, FS_Singleton
  <2>5. ASSUME NEW n \in Node
        PROVE  \E j \in Facts("paid", p) : /\ journal[j].who = n
                                           /\ \A l \in Facts("paid", p) : journal[l].who = n => j = l
    <3>1. PICK j : PaidTo(p, n) = {j}
      BY <2>1 DEF Done, SettledTo
    <3> QED
      BY <3>1 DEF PaidTo
  <2>6. \A x \in Facts("commission", p), j \in Facts("paid", p) \cup Facts("accrual", p) : x < j
    BY <2>2
  <2> QED
    BY <2>4, <2>5, <2>6 DEF Paid, Facts
<1> QED
  BY <1>1, SettleInvariance, PTL

(***************************************************************************)
(* Sums. What the journal states and what the suspended calls owe it are   *)
(* sums over its records and over the callers.                             *)
(***************************************************************************)
Applying == INSTANCE SequenceFolds WITH op <- ApplyEntry

\* The sums are those of SequenceFolds.
LEMMA SumIs ==
    /\ \A f, S : SumFunctionOnSet(f, S) = Applying!Sum(f, S)
    /\ \A S : IsFiniteSet(S) <=> Applying!IsFiniteSet(S)
<1>1. \A f, S : SumFunctionOnSet(f, S) = Applying!Sum(f, S)
  BY DEF Applying!Sum, SumFunctionOnSet, Applying!SumFunctionOnSet, FoldFunctionOnSet,
         Applying!FoldFunctionOnSet, MapThenFoldSet, Applying!MapThenFoldSet
<1>2. \A S : IsFiniteSet(S) <=> Applying!IsFiniteSet(S)
  BY DEF IsFiniteSet, Applying!IsFiniteSet
<1> QED
  BY <1>1, <1>2

\* The sum of a finite number of integers, and of natural numbers.
LEMMA SumOfIntegers ==
    ASSUME NEW f, IsFiniteSet(DOMAIN f), \A x \in DOMAIN f : f[x] \in Int
    PROVE  SumFunction(f) \in Int
<1>1. Applying!Sum(f, DOMAIN f) \in Int
  BY SumIs, Applying!SumAny
<1> QED
  BY <1>1, SumIs DEF SumFunction

\* A sum of natural numbers is one, and at least each of them.
LEMMA SumOfNaturals ==
    ASSUME NEW f, IsFiniteSet(DOMAIN f), \A x \in DOMAIN f : f[x] \in Nat
    PROVE  /\ SumFunction(f) \in Nat
           /\ \A x \in DOMAIN f : f[x] <= SumFunction(f)
           /\ (\A x \in DOMAIN f : f[x] = 0) => SumFunction(f) = 0
<1>1. /\ Applying!Sum(f, DOMAIN f) \in Nat
      /\ (\A x \in DOMAIN f : f[x] = 0) => Applying!Sum(f, DOMAIN f) = 0
  BY SumIs, Applying!SumOfNaturals
<1>2. \A x \in DOMAIN f : f[x] <= Applying!Sum(f, DOMAIN f)
  BY SumIs, Applying!SumBounds
<1> QED
  BY <1>1, <1>2, SumIs DEF SumFunction

\* One number of a sum changes.
LEMMA SumChange ==
    ASSUME NEW f, NEW g, IsFiniteSet(DOMAIN f), DOMAIN g = DOMAIN f, NEW x \in DOMAIN f,
           \A y \in DOMAIN f : f[y] \in Int /\ g[y] \in Int,
           \A y \in DOMAIN f \ {x} : f[y] = g[y]
    PROVE  SumFunction(g) = SumFunction(f) + (g[x] - f[x])
<1>1. PICK S : S = DOMAIN f
  OBVIOUS
<1>2. Applying!Sum(g, S) = Applying!Sum(f, S) + (g[x] - f[x])
  BY <1>1, SumIs, Applying!SumChange
<1> QED
  BY <1>1, <1>2, SumIs DEF SumFunction

\* A sum with one number more.
LEMMA SumGrows ==
    ASSUME NEW f, NEW g, IsFiniteSet(DOMAIN f), NEW x, x \notin DOMAIN f,
           DOMAIN g = DOMAIN f \cup {x},
           \A y \in DOMAIN f : f[y] \in Int /\ g[y] = f[y], g[x] \in Int
    PROVE  SumFunction(g) = SumFunction(f) + g[x]
<1>1. PICK S : S = DOMAIN f
  OBVIOUS
<1>2. PICK T : T = S \cup {x}
  OBVIOUS
<1>3. IsFiniteSet(T) /\ T \ {x} = S /\ x \in T
  BY <1>1, <1>2, FS_AddElement
<1>4. \A y \in T : g[y] \in Int
  BY <1>1, <1>2
<1>5. Applying!Sum(g, T) = g[x] + Applying!Sum(g, S)
  BY <1>3, <1>4, SumIs, Applying!SumAny
<1>6. Applying!Sum(g, S) = Applying!Sum(f, S)
  BY <1>1, SumIs, Applying!SumSame
<1>7. Applying!Sum(f, S) \in Int
  BY <1>1, SumIs, Applying!SumAny
<1> QED
  BY <1>1, <1>2, <1>5, <1>6, <1>7, SumIs DEF SumFunction

\* The same numbers have the same sum.
LEMMA SumSame ==
    ASSUME NEW f, NEW g, IsFiniteSet(DOMAIN f), DOMAIN g = DOMAIN f,
           \A x \in DOMAIN f : g[x] = f[x]
    PROVE  SumFunction(g) = SumFunction(f)
<1>1. PICK S : S = DOMAIN f
  OBVIOUS
<1>2. Applying!Sum(g, S) = Applying!Sum(f, S)
  BY <1>1, SumIs, Applying!SumSame
<1> QED
  BY <1>1, <1>2, SumIs DEF SumFunction
-----------------------------------------------------------------------------
\* Amounts a log states.
HasAmounts(log) == \A i \in DOMAIN log : log[i].amount \in Nat

\* An empty log states nothing.
LEMMA EmptyLog ==
    /\ \A f : Total(<<>>, f) = 0 /\ Count(<<>>, f) = 0
    /\ \A f, n : TotalTo(<<>>, f, n) = 0
<1>1. PICK e : e = <<>> /\ DOMAIN e = {}
  OBVIOUS
<1>2. IsFiniteSet({})
  BY FS_EmptySet
<1>3. ASSUME NEW f PROVE Total(e, f) = 0 /\ Count(e, f) = 0
  <2>1. PICK g, h : /\ g = [i \in DOMAIN e |-> IF e[i].fact = f THEN e[i].amount ELSE 0]
                    /\ h = [i \in DOMAIN e |-> IF e[i].fact = f THEN 1 ELSE 0]
    OBVIOUS
  <2>2. DOMAIN g = {} /\ DOMAIN h = {}
    BY <1>1, <2>1
  <2>3. SumFunction(g) = 0 /\ SumFunction(h) = 0
    BY <1>2, <2>2, SumOfNaturals
  <2> QED
    BY <2>1, <2>3 DEF Total, Count
<1>4. ASSUME NEW f, NEW n PROVE TotalTo(e, f, n) = 0
  <2>1. PICK g : g = [i \in DOMAIN e |-> IF e[i].fact = f /\ e[i].who = n THEN e[i].amount ELSE 0]
    OBVIOUS
  <2>2. DOMAIN g = {}
    BY <1>1, <2>1
  <2>3. SumFunction(g) = 0
    BY <1>2, <2>2, SumOfNaturals
  <2> QED
    BY <2>1, <2>3 DEF TotalTo
<1> QED
  BY <1>1, <1>3, <1>4

\* What a log states are natural numbers.
LEMMA LogAmounts ==
    ASSUME NEW S, NEW log \in Seq(S), HasAmounts(log)
    PROVE  /\ \A f : Total(log, f) \in Nat /\ Count(log, f) \in Nat
           /\ \A f, n : TotalTo(log, f, n) \in Nat
<1>1. IsFiniteSet(DOMAIN log)
  BY FS_Interval
<1>2. ASSUME NEW f PROVE Total(log, f) \in Nat /\ Count(log, f) \in Nat
  <2>1. PICK g, h : /\ g = [i \in DOMAIN log |-> IF log[i].fact = f THEN log[i].amount ELSE 0]
                    /\ h = [i \in DOMAIN log |-> IF log[i].fact = f THEN 1 ELSE 0]
    OBVIOUS
  <2>2. DOMAIN g = DOMAIN log /\ DOMAIN h = DOMAIN log /\ \A i \in DOMAIN log : g[i] \in Nat /\ h[i] \in Nat
    BY <2>1 DEF HasAmounts
  <2>3. SumFunction(g) \in Nat /\ SumFunction(h) \in Nat
    BY <1>1, <2>2, SumOfNaturals
  <2> QED
    BY <2>1, <2>3 DEF Total, Count
<1>3. ASSUME NEW f, NEW n PROVE TotalTo(log, f, n) \in Nat
  <2>1. PICK g : g = [i \in DOMAIN log |-> IF log[i].fact = f /\ log[i].who = n THEN log[i].amount ELSE 0]
    OBVIOUS
  <2>2. DOMAIN g = DOMAIN log /\ \A i \in DOMAIN log : g[i] \in Nat
    BY <2>1 DEF HasAmounts
  <2>3. SumFunction(g) \in Nat
    BY <1>1, <2>2, SumOfNaturals
  <2> QED
    BY <2>1, <2>3 DEF TotalTo
<1> QED
  BY <1>2, <1>3

\* What one record adds.
LEMMA LogGrows ==
    ASSUME NEW S, NEW log \in Seq(S), HasAmounts(log), NEW r, r.amount \in Nat
    PROVE  /\ HasAmounts(Append(log, r))
           /\ \A f : /\ Total(Append(log, r), f) = Total(log, f) + (IF r.fact = f THEN r.amount ELSE 0)
                     /\ Count(Append(log, r), f) = Count(log, f) + (IF r.fact = f THEN 1 ELSE 0)
           /\ \A f, n : TotalTo(Append(log, r), f, n) =
                          TotalTo(log, f, n) + (IF r.fact = f /\ r.who = n THEN r.amount ELSE 0)
<1>1. PICK s, x : s = Append(log, r) /\ x = Len(log) + 1
  OBVIOUS
<1>2. /\ IsFiniteSet(DOMAIN log) /\ x \notin DOMAIN log /\ DOMAIN s = DOMAIN log \cup {x}
      /\ \A i \in DOMAIN log : s[i] = log[i]
      /\ s[x] = r
  <2>1. IsFiniteSet(DOMAIN log)
    BY FS_Interval
  <2>2. /\ x \notin DOMAIN log /\ DOMAIN s = DOMAIN log \cup {x}
        /\ \A i \in DOMAIN log : s[i] = log[i]
        /\ s[x] = r
    <3>1. /\ DOMAIN log = 1..Len(log) /\ Len(log) \in Nat /\ Len(s) = Len(log) + 1
          /\ DOMAIN s = 1..Len(s)
          /\ \A i \in 1..Len(log) : s[i] = log[i]
          /\ s[Len(log) + 1] = r
      BY <1>1
    <3> QED
      BY <1>1, <3>1
  <2> QED
    BY <2>1, <2>2
<1>3. HasAmounts(s)
  BY <1>2 DEF HasAmounts
<1>4. ASSUME NEW f
      PROVE  /\ Total(s, f) = Total(log, f) + (IF r.fact = f THEN r.amount ELSE 0)
             /\ Count(s, f) = Count(log, f) + (IF r.fact = f THEN 1 ELSE 0)
  <2>1. PICK g, h : /\ g = [i \in DOMAIN log |-> IF log[i].fact = f THEN log[i].amount ELSE 0]
                    /\ h = [i \in DOMAIN log |-> IF log[i].fact = f THEN 1 ELSE 0]
    OBVIOUS
  <2>2. PICK g2, h2 : /\ g2 = [i \in DOMAIN s |-> IF s[i].fact = f THEN s[i].amount ELSE 0]
                      /\ h2 = [i \in DOMAIN s |-> IF s[i].fact = f THEN 1 ELSE 0]
    OBVIOUS
  <2>3. /\ DOMAIN g = DOMAIN log /\ DOMAIN g2 = DOMAIN log \cup {x}
        /\ \A i \in DOMAIN log : g[i] \in Int /\ g2[i] = g[i]
        /\ g2[x] \in Int /\ g2[x] = IF r.fact = f THEN r.amount ELSE 0
    BY <1>2, <2>1, <2>2 DEF HasAmounts
  <2>4. /\ DOMAIN h = DOMAIN log /\ DOMAIN h2 = DOMAIN log \cup {x}
        /\ \A i \in DOMAIN log : h[i] \in Int /\ h2[i] = h[i]
        /\ h2[x] \in Int /\ h2[x] = IF r.fact = f THEN 1 ELSE 0
    BY <1>2, <2>1, <2>2
  <2>5. SumFunction(g2) = SumFunction(g) + g2[x]
    BY <1>2, <2>3, SumGrows
  <2>6. SumFunction(h2) = SumFunction(h) + h2[x]
    BY <1>2, <2>4, SumGrows
  <2> QED
    BY <2>1, <2>2, <2>3, <2>4, <2>5, <2>6 DEF Total, Count
<1>5. ASSUME NEW f, NEW n
      PROVE  TotalTo(s, f, n) = TotalTo(log, f, n) + (IF r.fact = f /\ r.who = n THEN r.amount ELSE 0)
  <2>1. PICK g : g = [i \in DOMAIN log |-> IF log[i].fact = f /\ log[i].who = n THEN log[i].amount ELSE 0]
    OBVIOUS
  <2>2. PICK g2 : g2 = [i \in DOMAIN s |-> IF s[i].fact = f /\ s[i].who = n THEN s[i].amount ELSE 0]
    OBVIOUS
  <2>3. /\ DOMAIN g = DOMAIN log /\ DOMAIN g2 = DOMAIN log \cup {x}
        /\ \A i \in DOMAIN log : g[i] \in Int /\ g2[i] = g[i]
        /\ g2[x] \in Int /\ g2[x] = IF r.fact = f /\ r.who = n THEN r.amount ELSE 0
    BY <1>2, <2>1, <2>2 DEF HasAmounts
  <2>5. SumFunction(g2) = SumFunction(g) + g2[x]
    BY <1>2, <2>3, SumGrows
  <2> QED
    BY <2>1, <2>2, <2>3, <2>5 DEF TotalTo
<1> QED
  BY <1>1, <1>3, <1>4, <1>5
-----------------------------------------------------------------------------
(***************************************************************************)
(* What the suspended calls owe the journal.                               *)
(***************************************************************************)
Owes(c, f) == pc[c] = "append" /\ call[c].due.fact = f
Share(c, f) == IF Owes(c, f) THEN call[c].due.amount ELSE 0
ShareTo(c, f, n) == IF Owes(c, f) /\ call[c].due.who = n THEN call[c].due.amount ELSE 0
Owed(f) == SumFunction([c \in Caller |-> Share(c, f)])
OwedTo(f, n) == SumFunction([c \in Caller |-> ShareTo(c, f, n)])
OwedCount(f) == SumFunction([c \in Caller |-> IF Owes(c, f) THEN 1 ELSE 0])

DueAmounts == \A c \in Caller : call[c].due.amount \in Nat

\* What the calls owe are natural numbers.
LEMMA OwedAmounts ==
    ASSUME DueAmounts
    PROVE  /\ \A f : Owed(f) \in Nat /\ OwedCount(f) \in Nat
           /\ \A f, n : OwedTo(f, n) \in Nat
           /\ \A f : (\A c \in Caller : ~Owes(c, f)) =>
                Owed(f) = 0 /\ OwedCount(f) = 0 /\ \A n : OwedTo(f, n) = 0
           /\ \A c \in Caller : \A f : Share(c, f) <= Owed(f)
<1>1. IsFiniteSet(Caller)
  BY FiniteAssumption
<1>2. ASSUME NEW f
      PROVE  /\ Owed(f) \in Nat
             /\ \A c \in Caller : Share(c, f) <= Owed(f)
             /\ (\A c \in Caller : ~Owes(c, f)) => Owed(f) = 0
  <2>1. PICK g : g = [c \in Caller |-> Share(c, f)]
    OBVIOUS
  <2>2. DOMAIN g = Caller /\ \A c \in Caller : g[c] = Share(c, f) /\ g[c] \in Nat
    BY <2>1 DEF Share, DueAmounts
  <2>3. /\ SumFunction(g) \in Nat
        /\ \A c \in Caller : g[c] <= SumFunction(g)
        /\ (\A c \in Caller : g[c] = 0) => SumFunction(g) = 0
    BY <1>1, <2>2, SumOfNaturals
  <2>4. (\A c \in Caller : ~Owes(c, f)) => \A c \in Caller : g[c] = 0
    BY <2>2 DEF Share
  <2> QED
    BY <2>1, <2>2, <2>3, <2>4 DEF Owed
<1>3. ASSUME NEW f
      PROVE  /\ OwedCount(f) \in Nat
             /\ (\A c \in Caller : ~Owes(c, f)) => OwedCount(f) = 0
  <2>1. PICK g : g = [c \in Caller |-> IF Owes(c, f) THEN 1 ELSE 0]
    OBVIOUS
  <2>2. DOMAIN g = Caller /\ \A c \in Caller : g[c] \in Nat
    BY <2>1
  <2>3. /\ SumFunction(g) \in Nat
        /\ (\A c \in Caller : g[c] = 0) => SumFunction(g) = 0
    BY <1>1, <2>2, SumOfNaturals
  <2>4. (\A c \in Caller : ~Owes(c, f)) => \A c \in Caller : g[c] = 0
    BY <2>1
  <2> QED
    BY <2>1, <2>3, <2>4 DEF OwedCount
<1>4. ASSUME NEW f, NEW n
      PROVE  /\ OwedTo(f, n) \in Nat
             /\ (\A c \in Caller : ~Owes(c, f)) => OwedTo(f, n) = 0
  <2>1. PICK g : g = [c \in Caller |-> ShareTo(c, f, n)]
    OBVIOUS
  <2>2. DOMAIN g = Caller /\ \A c \in Caller : g[c] = ShareTo(c, f, n) /\ g[c] \in Nat
    BY <2>1 DEF ShareTo, DueAmounts
  <2>3. /\ SumFunction(g) \in Nat
        /\ (\A c \in Caller : g[c] = 0) => SumFunction(g) = 0
    BY <1>1, <2>2, SumOfNaturals
  <2>4. (\A c \in Caller : ~Owes(c, f)) => \A c \in Caller : g[c] = 0
    BY <2>2 DEF ShareTo
  <2> QED
    BY <2>1, <2>3, <2>4 DEF OwedTo
<1> QED
  BY <1>2, <1>3, <1>4

\* A step of c changes what c owes.
LEMMA OwedChanges ==
    ASSUME DueAmounts, NEW c \in Caller, call'[c].due.amount \in Nat,
           \A d \in Caller \ {c} : pc'[d] = pc[d] /\ call'[d] = call[d]
    PROVE  /\ DueAmounts'
           /\ \A f : Owed(f)' = Owed(f) + (Share(c, f)' - Share(c, f))
           /\ \A f : OwedCount(f)' = OwedCount(f) + ((IF Owes(c, f)' THEN 1 ELSE 0) - (IF Owes(c, f) THEN 1 ELSE 0))
           /\ \A f, n : OwedTo(f, n)' = OwedTo(f, n) + (ShareTo(c, f, n)' - ShareTo(c, f, n))
<1>1. IsFiniteSet(Caller)
  BY FiniteAssumption
<1>2. DueAmounts'
  BY DEF DueAmounts
<1>3. ASSUME NEW f PROVE Owed(f)' = Owed(f) + (Share(c, f)' - Share(c, f))
  <2>1. PICK g : g = [d \in Caller |-> Share(d, f)]
    OBVIOUS
  <2>2. PICK h : h = [d \in Caller |-> Share(d, f)']
    OBVIOUS
  <2>3. DOMAIN g = Caller /\ DOMAIN h = Caller /\ \A d \in Caller : g[d] = Share(d, f) /\ h[d] = Share(d, f)'
    BY <2>1, <2>2
  <2>4. \A d \in Caller : g[d] \in Int /\ h[d] \in Int
    BY <1>2, <2>3 DEF Share, DueAmounts
  <2>5. \A d \in Caller \ {c} : g[d] = h[d]
    BY <2>3 DEF Share, Owes
  <2>6. SumFunction(h) = SumFunction(g) + (h[c] - g[c])
    BY <1>1, <2>3, <2>4, <2>5, SumChange
  <2>7. Owed(f) = SumFunction(g)
    BY <2>1 DEF Owed
  <2>8. Owed(f)' = SumFunction(h)
    BY <2>2 DEF Owed
  <2> QED
    BY <2>3, <2>6, <2>7, <2>8
<1>4. ASSUME NEW f
      PROVE  OwedCount(f)' = OwedCount(f) + ((IF Owes(c, f)' THEN 1 ELSE 0) - (IF Owes(c, f) THEN 1 ELSE 0))
  <2>1. PICK g : g = [d \in Caller |-> IF Owes(d, f) THEN 1 ELSE 0]
    OBVIOUS
  <2>2. PICK h : h = [d \in Caller |-> IF Owes(d, f)' THEN 1 ELSE 0]
    OBVIOUS
  <2>3. DOMAIN g = Caller /\ DOMAIN h = Caller /\ \A d \in Caller : g[d] \in Int /\ h[d] \in Int
    BY <2>1, <2>2
  <2>5. \A d \in Caller \ {c} : g[d] = h[d]
    <3>1. \A d \in Caller \ {c} : Owes(d, f)' <=> Owes(d, f)
      BY DEF Owes
    <3> QED
      BY <2>1, <2>2, <3>1
  <2>6. SumFunction(h) = SumFunction(g) + (h[c] - g[c])
    BY <1>1, <2>3, <2>5, SumChange
  <2>7. OwedCount(f) = SumFunction(g)
    BY <2>1 DEF OwedCount
  <2>8. OwedCount(f)' = SumFunction(h)
    BY <2>2 DEF OwedCount
  <2>9. g[c] = (IF Owes(c, f) THEN 1 ELSE 0) /\ h[c] = (IF Owes(c, f)' THEN 1 ELSE 0)
    BY <2>1, <2>2
  <2> QED
    BY <2>6, <2>7, <2>8, <2>9
<1>5. ASSUME NEW f, NEW n
      PROVE  OwedTo(f, n)' = OwedTo(f, n) + (ShareTo(c, f, n)' - ShareTo(c, f, n))
  <2>1. PICK g : g = [d \in Caller |-> ShareTo(d, f, n)]
    OBVIOUS
  <2>2. PICK h : h = [d \in Caller |-> ShareTo(d, f, n)']
    OBVIOUS
  <2>3. DOMAIN g = Caller /\ DOMAIN h = Caller /\ \A d \in Caller : g[d] = ShareTo(d, f, n) /\ h[d] = ShareTo(d, f, n)'
    BY <2>1, <2>2
  <2>4. \A d \in Caller : g[d] \in Int /\ h[d] \in Int
    BY <1>2, <2>3 DEF ShareTo, DueAmounts
  <2>5. \A d \in Caller \ {c} : g[d] = h[d]
    BY <2>3 DEF ShareTo, Owes
  <2>6. SumFunction(h) = SumFunction(g) + (h[c] - g[c])
    BY <1>1, <2>3, <2>4, <2>5, SumChange
  <2>7. OwedTo(f, n) = SumFunction(g)
    BY <2>1 DEF OwedTo
  <2>8. OwedTo(f, n)' = SumFunction(h)
    BY <2>2 DEF OwedTo
  <2> QED
    BY <2>3, <2>6, <2>7, <2>8
<1> QED
  BY <1>2, <1>3, <1>4, <1>5


(***************************************************************************)
(* What each step does: where the call goes and what it is left with.      *)
(***************************************************************************)
\* Call c goes on at l with what x says; the other calls stay as they are.
Becomes(c, l, x) ==
    /\ pc'[c] = l /\ call'[c] = x /\ DOMAIN pc' = Caller /\ DOMAIN call' = Caller
    /\ \A d \in Caller \ {c} : pc'[d] = pc[d] /\ call'[d] = call[d]

Call(pid, due, next, log, amount, left, args) ==
    [pid |-> pid, due |-> due, next |-> next, log |-> log, amount |-> amount, left |-> left,
     args |-> args]

\* A call is what its parts say.
LEMMA CallIs ==
    ASSUME NEW x, IsCall(x)
    PROVE  x = Call(x.pid, x.due, x.next, x.log, x.amount, x.left, x.args)
BY DEF IsCall, Call

\* What each helper and each action does to its call:
LEMMA StopIs ==
    ASSUME SettleInv, NEW c \in Caller, Stop(c)
    PROVE  Becomes(c, "idle", Call(Nobody, NoFact, "idle", <<>>, 0, {}, NoArgs))
BY DEF SettleInv, Stop, Goto, Becomes, NoCall, Call

LEMMA GotoIs ==
    ASSUME SettleInv, NEW c \in Caller, NEW l, Goto(c, l), UNCHANGED call
    PROVE  Becomes(c, l, call[c])
BY DEF SettleInv, Goto, Becomes

LEMMA DueIs ==
    ASSUME SettleInv, NEW c \in Caller, NEW f, NEW next, Due(c, f, next)
    PROVE  LET x == call[c] IN
           Becomes(c, "append", Call(x.pid, f, next, x.log, x.amount, x.left, x.args))
<1>1. DOMAIN call = Caller /\ DOMAIN pc = Caller /\ IsCall(call[c])
  BY DEF SettleInv, CallOk
<1>2. /\ call' = [call EXCEPT ![c].due = f, ![c].next = next]
      /\ pc' = [pc EXCEPT ![c] = "append"]
  BY DEF Due, Goto
<1>3. PICK x : x = call[c]
  OBVIOUS
<1>4. call'[c] = Call(x.pid, f, next, x.log, x.amount, x.left, x.args)
  BY <1>1, <1>2, <1>3 DEF IsCall, Call
<1> QED
  BY <1>1, <1>2, <1>3, <1>4 DEF Becomes

LEMMA BeginIs ==
    ASSUME SettleInv, NEW c \in Caller, NEW l, NEW p, Begin(c, l, p)
    PROVE  /\ pc[c] = "idle" /\ calls[c] < MaxCalls /\ calls' = [calls EXCEPT ![c] = @ + 1]
           /\ Becomes(c, l, Call(p, NoFact, "idle", <<>>, 0, {}, NoArgs))
BY DEF SettleInv, Begin, Goto, Becomes, NoCall, Call

LEMMA AskIs ==
    ASSUME SettleInv, NEW c \in Caller, NEW args, Ask(c, args)
    PROVE  /\ pc[c] = "idle" /\ calls[c] < MaxCalls /\ calls' = [calls EXCEPT ![c] = @ + 1]
           /\ Becomes(c, "verdict", Call(Own(c), NoFact, "idle", <<>>, 0, {}, args))
           /\ UNCHANGED <<journal, services, faults, history, token>>
BY DEF SettleInv, Ask, Goto, Becomes, NoCall, Call

LEMMA StatusIs ==
    ASSUME SettleInv, NEW c \in Caller, Status(c)
    PROVE  /\ pc[c] = "idle" /\ calls[c] < MaxCalls /\ calls' = [calls EXCEPT ![c] = @ + 1]
           /\ Becomes(c, "velocity", Call(Nobody, NoFact, "idle", <<>>, reserve.volume, {}, NoArgs))
           /\ UNCHANGED <<journal, services, faults, history>>
BY DEF SettleInv, Status, Goto, Becomes, NoCall, Call

LEMMA LoadCommissionIs ==
    ASSUME SettleInv, NEW c \in Caller, LoadCommission(c)
    PROVE  LET x == call[c] IN
           /\ pc[c] = "settle"
           /\ UNCHANGED <<journal, services, calls, faults, history>>
           /\ \/ commission.hydrated /\ Becomes(c, "settled?", x)
              \/ /\ ~commission.hydrated
                 /\ Becomes(c, "cload", Call(x.pid, x.due, x.next, journal, x.amount, x.left, x.args))
<1>1. DOMAIN call = Caller /\ DOMAIN pc = Caller /\ IsCall(call[c])
  BY DEF SettleInv, CallOk
<1>2. CASE commission.hydrated
  BY <1>2, GotoIs DEF LoadCommission
<1>3. CASE ~commission.hydrated
  <2>1. /\ call' = [call EXCEPT ![c].log = journal] /\ pc' = [pc EXCEPT ![c] = "cload"]
        /\ pc[c] = "settle" /\ UNCHANGED <<journal, services, calls, faults, history>>
    BY <1>3 DEF LoadCommission, Goto
  <2>2. PICK x : x = call[c]
    OBVIOUS
  <2>3. call'[c] = Call(x.pid, x.due, x.next, journal, x.amount, x.left, x.args)
    BY <1>1, <2>1, <2>2 DEF IsCall, Call
  <2> QED
    BY <1>1, <1>3, <2>1, <2>2, <2>3 DEF Becomes
<1> QED
  BY <1>2, <1>3

LEMMA HydrateCommissionIs ==
    ASSUME SettleInv, NEW c \in Caller, HydrateCommission(c)
    PROVE  LET x == call[c] IN
           /\ pc[c] = "cload" /\ commission' = CommissionFrom(x.log)
           /\ rehydrated' = (rehydrated \/ commission.hydrated)
           /\ UNCHANGED <<journal, reserve, active, calls, faults, raced, lost, cut>>
           /\ Becomes(c, "settled?", Call(x.pid, x.due, x.next, <<>>, x.amount, x.left, x.args))
<1>1. DOMAIN call = Caller /\ DOMAIN pc = Caller /\ IsCall(call[c])
  BY DEF SettleInv, CallOk
<1>2. /\ call' = [call EXCEPT ![c].log = <<>>] /\ pc' = [pc EXCEPT ![c] = "settled?"]
  BY DEF HydrateCommission, Goto
<1>3. PICK x : x = call[c]
  OBVIOUS
<1>4. call'[c] = Call(x.pid, x.due, x.next, <<>>, x.amount, x.left, x.args)
  BY <1>1, <1>2, <1>3 DEF IsCall, Call
<1>5. Becomes(c, "settled?", Call(x.pid, x.due, x.next, <<>>, x.amount, x.left, x.args))
  BY <1>1, <1>2, <1>4 DEF Becomes
<1> QED
  BY <1>3, <1>5 DEF HydrateCommission

LEMMA CheckSettledIs ==
    ASSUME SettleInv, NEW c \in Caller, CheckSettled(c)
    PROVE  LET x == call[c]
               f == Fact("commission", x.pid, Nobody, Payment * Cardinality(Node) + AstShare) IN
           /\ pc[c] = "settled?"
           /\ UNCHANGED <<journal, services, calls, faults, history>>
           /\ \/ Becomes(c, "idle", Call(Nobody, NoFact, "idle", <<>>, 0, {}, NoArgs))
              \/ /\ x.pid \notin commission.settled /\ ~Journalled("commission", x.pid)
                 /\ Becomes(c, "append", Call(x.pid, f, "pay", x.log, x.amount, Node, x.args))
<1>1. DOMAIN call = Caller /\ DOMAIN pc = Caller /\ IsCall(call[c])
  BY DEF SettleInv, CallOk
<1>2. PICK x : x = call[c]
  OBVIOUS
<1>3. CASE x.pid \in commission.settled \/ Journalled("commission", x.pid)
  BY <1>2, <1>3, StopIs DEF CheckSettled
<1>4. CASE ~(x.pid \in commission.settled \/ Journalled("commission", x.pid))
  <2>1. PICK f : f = Fact("commission", x.pid, Nobody, Payment * Cardinality(Node) + AstShare)
    OBVIOUS
  <2>2. /\ call' = [call EXCEPT ![c].due = f, ![c].next = "pay", ![c].left = Node]
        /\ pc' = [pc EXCEPT ![c] = "append"]
    BY <1>2, <1>4, <2>1 DEF CheckSettled, Goto
  <2>3. call'[c] = Call(x.pid, f, "pay", x.log, x.amount, Node, x.args)
    BY <1>1, <1>2, <2>2 DEF IsCall, Call
  <2>4. Becomes(c, "append", Call(x.pid, f, "pay", x.log, x.amount, Node, x.args))
    BY <1>1, <2>2, <2>3 DEF Becomes
  <2> QED
    BY <1>2, <1>4, <2>1, <2>4 DEF CheckSettled
<1> QED
  BY <1>3, <1>4

LEMMA PayNodeIs ==
    ASSUME SettleInv, NEW c \in Caller, PayNode(c)
    PROVE  LET x == call[c] IN
           /\ pc[c] = "pay"
           /\ UNCHANGED <<journal, reserve, active, calls, faults, history>>
           /\ \/ /\ x.left = {} /\ commission' = [commission EXCEPT !.settled = @ \cup {x.pid}]
                 /\ Becomes(c, "accrue", x)
              \/ \E n \in x.left :
                   /\ commission' = [commission EXCEPT !.credits[n] = @ + Payment]
                   /\ Becomes(c, "append", Call(x.pid, Fact("paid", x.pid, n, Payment), "pay", x.log,
                                               x.amount, x.left \ {n}, x.args))
<1>1. DOMAIN call = Caller /\ DOMAIN pc = Caller /\ IsCall(call[c])
  BY DEF SettleInv, CallOk
<1>2. PICK x : x = call[c]
  OBVIOUS
<1>3. CASE x.left = {}
  BY <1>2, <1>3, GotoIs DEF PayNode
<1>4. CASE x.left # {}
  <2>1. PICK n \in x.left : n = (CHOOSE m \in x.left : TRUE)
    BY <1>4
  <2>2. PICK f : f = Fact("paid", x.pid, n, Payment)
    OBVIOUS
  <2>3. /\ call' = [call EXCEPT ![c].due = f, ![c].next = "pay", ![c].left = @ \ {n}]
        /\ pc' = [pc EXCEPT ![c] = "append"]
        /\ commission' = [commission EXCEPT !.credits[n] = @ + Payment]
    BY <1>2, <1>4, <2>1, <2>2 DEF PayNode, Goto
  <2>4. call'[c] = Call(x.pid, f, "pay", x.log, x.amount, x.left \ {n}, x.args)
    BY <1>1, <1>2, <2>3 DEF IsCall, Call
  <2>5. Becomes(c, "append", Call(x.pid, f, "pay", x.log, x.amount, x.left \ {n}, x.args))
    BY <1>1, <2>3, <2>4 DEF Becomes
  <2> QED
    BY <1>2, <2>1, <2>2, <2>3, <2>5 DEF PayNode
<1> QED
  BY <1>3, <1>4

LEMMA LoadReserveIs ==
    ASSUME SettleInv, NEW c \in Caller, NEW at, NEW after, LoadReserve(c, at, after)
    PROVE  LET x == call[c] IN
           /\ pc[c] = at
           /\ UNCHANGED <<journal, services, calls, faults, history>>
           /\ \/ reserve.hydrated /\ Becomes(c, after, x)
              \/ /\ ~reserve.hydrated
                 /\ Becomes(c, "rload", Call(x.pid, x.due, after, journal, x.amount, x.left, x.args))
<1>1. DOMAIN call = Caller /\ DOMAIN pc = Caller /\ IsCall(call[c])
  BY DEF SettleInv, CallOk
<1>2. CASE reserve.hydrated
  BY <1>2, GotoIs DEF LoadReserve
<1>3. CASE ~reserve.hydrated
  <2>1. /\ call' = [call EXCEPT ![c].log = journal, ![c].next = after] /\ pc' = [pc EXCEPT ![c] = "rload"]
        /\ pc[c] = at /\ UNCHANGED <<journal, services, calls, faults, history>>
    BY <1>3 DEF LoadReserve, Goto
  <2>2. PICK x : x = call[c]
    OBVIOUS
  <2>3. call'[c] = Call(x.pid, x.due, after, journal, x.amount, x.left, x.args)
    BY <1>1, <2>1, <2>2 DEF IsCall, Call
  <2> QED
    BY <1>1, <1>3, <2>1, <2>2, <2>3 DEF Becomes
<1> QED
  BY <1>2, <1>3

LEMMA HydrateReserveIs ==
    ASSUME SettleInv, NEW c \in Caller, HydrateReserve(c)
    PROVE  LET x == call[c] IN
           /\ pc[c] = "rload" /\ reserve' = ReserveFrom(x.log)
           /\ rehydrated' = (rehydrated \/ reserve.hydrated)
           /\ UNCHANGED <<journal, commission, active, calls, faults, raced, lost, cut>>
           /\ Becomes(c, x.next, Call(x.pid, x.due, "idle", <<>>, x.amount, x.left, x.args))
<1>1. DOMAIN call = Caller /\ DOMAIN pc = Caller /\ IsCall(call[c])
  BY DEF SettleInv, CallOk
<1>2. PICK x : x = call[c]
  OBVIOUS
<1>3. /\ call' = [call EXCEPT ![c].log = <<>>, ![c].next = "idle"] /\ pc' = [pc EXCEPT ![c] = x.next]
  BY <1>2 DEF HydrateReserve, Goto
<1>4. call'[c] = Call(x.pid, x.due, "idle", <<>>, x.amount, x.left, x.args)
  BY <1>1, <1>2, <1>3 DEF IsCall, Call
<1>5. Becomes(c, x.next, Call(x.pid, x.due, "idle", <<>>, x.amount, x.left, x.args))
  BY <1>1, <1>3, <1>4 DEF Becomes
<1> QED
  BY <1>2, <1>5 DEF HydrateReserve

LEMMA AccrueIs ==
    ASSUME SettleInv, NEW c \in Caller, Accrue(c)
    PROVE  LET x == call[c] IN
           /\ pc[c] = "accrued?"
           /\ UNCHANGED <<journal, commission, active, calls, faults, history>>
           /\ \/ UNCHANGED reserve /\ Becomes(c, "idle", Call(Nobody, NoFact, "idle", <<>>, 0, {}, NoArgs))
              \/ /\ x.pid \notin reserve.accrued /\ ~Journalled("accrual", x.pid)
                 /\ reserve' = [reserve EXCEPT !.own = @ + AstShare, !.volume = @ + Volume,
                                               !.accrued = @ \cup {x.pid}]
                 /\ Becomes(c, "append", Call(x.pid, Fact("accrual", x.pid, Nobody, AstShare), "idle",
                                             x.log, x.amount, x.left, x.args))
<1>1. PICK x : x = call[c]
  OBVIOUS
<1>2. CASE x.pid \in reserve.accrued \/ Journalled("accrual", x.pid)
  BY <1>1, <1>2, StopIs DEF Accrue
<1>3. CASE ~(x.pid \in reserve.accrued \/ Journalled("accrual", x.pid))
  <2>1. Due(c, Fact("accrual", x.pid, Nobody, AstShare), "idle")
    BY <1>1, <1>3 DEF Accrue
  <2>2. Becomes(c, "append", Call(x.pid, Fact("accrual", x.pid, Nobody, AstShare), "idle",
                                  x.log, x.amount, x.left, x.args))
    BY <1>1, <2>1, DueIs
  <2> QED
    BY <1>1, <1>3, <2>2 DEF Accrue
<1> QED
  BY <1>2, <1>3

LEMMA TickIs ==
    ASSUME SettleInv, NEW c \in Caller, Tick(c)
    PROVE  LET x == call[c] IN
           /\ pc[c] = "velocity"
           /\ UNCHANGED <<journal, commission, reserve, calls, faults, history>>
           /\ \/ UNCHANGED active /\ Becomes(c, "idle", Call(Nobody, NoFact, "idle", <<>>, 0, {}, NoArgs))
              \/ /\ ~active /\ active' = TRUE /\ x.amount > Threshold
                 /\ Becomes(c, "append", Call(x.pid, Fact("activated", c, Nobody, Len(journal)), "idle",
                                             x.log, x.amount, x.left, x.args))
<1>1. PICK x : x = call[c]
  OBVIOUS
<1>2. ASSUME Stop(c)
      PROVE  Becomes(c, "idle", Call(Nobody, NoFact, "idle", <<>>, 0, {}, NoArgs))
  BY <1>2, StopIs
<1>3. ASSUME Due(c, Fact("activated", c, Nobody, Len(journal)), "idle")
      PROVE  Becomes(c, "append", Call(x.pid, Fact("activated", c, Nobody, Len(journal)), "idle",
                                       x.log, x.amount, x.left, x.args))
  BY <1>1, <1>3, DueIs
<1> QED
  BY <1>1, <1>2, <1>3 DEF Tick

LEMMA AppendDueIs ==
    ASSUME SettleInv, NEW c \in Caller, AppendDue(c)
    PROVE  LET x == call[c] IN
           /\ pc[c] = "append"
           /\ UNCHANGED <<services, calls, faults, history>>
           /\ \/ journal' = journal /\ x.due \in ToSet(journal)
              \/ journal' = Append(journal, x.due) /\ (x.due \notin ToSet(journal) \/ raced)
           /\ \/ x.next = "idle" /\ Becomes(c, "idle", Call(Nobody, NoFact, "idle", <<>>, 0, {}, NoArgs))
              \/ /\ x.next # "idle"
                 /\ Becomes(c, x.next, Call(x.pid, NoFact, "idle", x.log, x.amount, x.left, x.args))
<1>1. DOMAIN call = Caller /\ DOMAIN pc = Caller /\ IsCall(call[c])
  BY DEF SettleInv, CallOk
<1>2. PICK x : x = call[c]
  OBVIOUS
<1>3. /\ pc[c] = "append" /\ UNCHANGED <<services, calls, faults, history>>
      /\ \/ journal' = journal /\ x.due \in ToSet(journal)
         \/ journal' = Append(journal, x.due) /\ (x.due \notin ToSet(journal) \/ raced)
  BY <1>2 DEF AppendDue
<1>4. CASE x.next = "idle"
  BY <1>2, <1>3, <1>4, StopIs DEF AppendDue
<1>5. CASE x.next # "idle"
  <2>1. /\ call' = [call EXCEPT ![c].due = NoFact, ![c].next = "idle"] /\ pc' = [pc EXCEPT ![c] = x.next]
    BY <1>2, <1>5 DEF AppendDue, Goto
  <2>2. call'[c] = Call(x.pid, NoFact, "idle", x.log, x.amount, x.left, x.args)
    BY <1>1, <1>2, <2>1 DEF IsCall, Call
  <2>3. Becomes(c, x.next, Call(x.pid, NoFact, "idle", x.log, x.amount, x.left, x.args))
    BY <1>1, <2>1, <2>2 DEF Becomes
  <2> QED
    BY <1>2, <1>3, <1>5, <2>3
<1> QED
  BY <1>4, <1>5

LEMMA ClaimIs ==
    ASSUME SettleInv, NEW c \in Caller, Claim(c)
    PROVE  LET x == call[c]
               m == x.args.amount IN
           /\ pc[c] = "claim"
           /\ UNCHANGED <<journal, commission, active, calls, faults, history, token, ghosts>>
           /\ \/ UNCHANGED reserve /\ Becomes(c, "idle", Call(Nobody, NoFact, "idle", <<>>, 0, {}, NoArgs))
              \/ /\ ~(reserve.own < m) /\ reserve' = [reserve EXCEPT !.own = @ - m]
                 /\ Becomes(c, "append", Call(x.pid, Fact("released", x.pid, Nobody, m), "remint",
                                             x.log, x.amount, x.left, x.args))
<1>1. PICK x, m : x = call[c] /\ m = x.args.amount
  OBVIOUS
<1>2. CASE reserve.own < m
  BY <1>1, <1>2, StopIs DEF Claim, ReleaseChild
<1>3. CASE ~(reserve.own < m)
  <2>1. Due(c, Fact("released", x.pid, Nobody, m), "remint")
    BY <1>1, <1>3 DEF Claim, ReleaseChild
  <2>2. Becomes(c, "append", Call(x.pid, Fact("released", x.pid, Nobody, m), "remint",
                                  x.log, x.amount, x.left, x.args))
    BY <1>1, <2>1, DueIs
  <2> QED
    BY <1>1, <1>3, <2>2 DEF Claim, ReleaseChild
<1> QED
  BY <1>2, <1>3

LEMMA BurnIs ==
    ASSUME SettleInv, NEW c \in Caller, Burn(c)
    PROVE  LET x == call[c]
               h == x.args.holder
               m == x.args.before IN
           /\ pc[c] = "burn"
           /\ UNCHANGED <<services, calls, faults, history, registry, ghosts>>
           /\ \/ /\ UNCHANGED <<journal, balances>>
                 /\ Becomes(c, "idle", Call(Nobody, NoFact, "idle", <<>>, 0, {}, NoArgs))
              \/ /\ ~(balances[h] < m) /\ balances' = [balances EXCEPT ![h] = @ - m]
                 /\ journal' = Append(journal, Fact("burn", x.pid, h, m))
                 /\ Becomes(c, "child", x)
<1>1. PICK x, h, m : x = call[c] /\ h = x.args.holder /\ m = x.args.before
  OBVIOUS
<1>2. CASE balances[h] < m
  BY <1>1, <1>2, StopIs DEF Burn
<1>3. CASE ~(balances[h] < m)
  BY <1>1, <1>3, GotoIs DEF Burn
<1> QED
  BY <1>2, <1>3

LEMMA RemintIs ==
    ASSUME SettleInv, NEW c \in Caller, Remint(c)
    PROVE  LET x == call[c]
               h == x.args.holder
               rest == x.args.before - x.args.amount IN
           /\ pc[c] = "remint"
           /\ UNCHANGED <<services, calls, faults, history, cold, registry, ghosts>>
           /\ \/ rest = 0 /\ UNCHANGED <<journal, balances>>
              \/ /\ rest # 0 /\ balances' = [balances EXCEPT ![h] = @ + rest]
                 /\ journal' = Append(journal, Fact("remint", x.pid, h, rest))
           /\ Becomes(c, "append", Call(x.pid, Fact("release", x.pid, h, x.args.amount), "idle",
                                       x.log, x.amount, x.left, x.args))
<1>1. PICK x, h, m : x = call[c] /\ h = x.args.holder /\ m = x.args.before - x.args.amount
  OBVIOUS
<1>2. Due(c, Fact("release", x.pid, h, x.args.amount), "idle")
  BY <1>1 DEF Remint
<1>3. Becomes(c, "append", Call(x.pid, Fact("release", x.pid, h, x.args.amount), "idle",
                                x.log, x.amount, x.left, x.args))
  BY <1>1, <1>2, DueIs
<1>4. CASE m = 0
  BY <1>1, <1>3, <1>4 DEF Remint
<1>5. CASE m # 0
  BY <1>1, <1>3, <1>5 DEF Remint
<1> QED
  BY <1>4, <1>5

\* The operations that state nothing: they end, or go on as they are.
LEMMA OthersAre ==
    ASSUME SettleInv, NEW c \in Caller,
           Verdict(c) \/ Revalue(c) \/ SetValue(c) \/ Transfer(c) \/ SetHolders(c)
    PROVE  /\ UNCHANGED <<journal, services, calls, faults, history>>
           /\ \/ Becomes(c, "idle", Call(Nobody, NoFact, "idle", <<>>, 0, {}, NoArgs))
              \/ pc[c] = "verdict" /\ Becomes(c, call[c].args.then, call[c])
              \/ pc[c] = "reval" /\ Becomes(c, "value", call[c])
              \/ pc[c] = "transfer" /\ Becomes(c, "holders", call[c])
           /\ pc[c] \in {"verdict", "reval", "value", "transfer", "holders"}
<1>1. UNCHANGED <<journal, services, calls, faults, history>>
  BY DEF Verdict, Revalue, SetValue, Transfer, SetHolders
<1>2. \/ Stop(c)
      \/ pc[c] = "verdict" /\ Goto(c, call[c].args.then) /\ UNCHANGED call
      \/ pc[c] = "reval" /\ Goto(c, "value") /\ UNCHANGED call
      \/ pc[c] = "transfer" /\ Goto(c, "holders") /\ UNCHANGED call
  BY DEF Verdict, Revalue, SetValue, Transfer, SetHolders
<1>3. pc[c] \in {"verdict", "reval", "value", "transfer", "holders"}
  BY DEF Verdict, Revalue, SetValue, Transfer, SetHolders
<1> QED
  BY <1>1, <1>2, <1>3, StopIs, GotoIs


(***************************************************************************)
(* RecordsInv: what is journalled, due, read, asked for and remembered is  *)
(* of the kind it should be.                                               *)
(***************************************************************************)
ReleaseFact == {"burn", "released", "remint", "release"}

\* A record that callers with this many calls can have made.
IsRecord(r, made) ==
    /\ r.amount \in Nat
    /\ r.fact \in SettlementFact => r.pid \in Minted
    /\ r.fact \in ReleaseFact => \E d \in Caller : \E n \in 1..made[d] : r.pid = <<d, n>>

\* A log of settled processes.
IsLog(log) ==
    /\ log \in Seq(ToSet(log)) /\ HasAmounts(log)
    /\ Of(log, "commission") \subseteq Minted /\ Of(log, "accrual") \subseteq Minted

IsRelease(a) ==
    /\ a.then = "burn" /\ a.holder \in Holder /\ a.amount \in Nat /\ a.before \in Nat
    /\ a.amount <= a.before
IsRevaluation(a) ==
    /\ a.then = "reval" /\ a.asset \in Minted /\ a.previous \in Nat \ {0} /\ a.new \in Value
IsTransfer(a) ==
    /\ a.then = "transfer" /\ a.asset \in Minted /\ a.from \in Holder /\ a.to \in Holder
    /\ a.from # a.to /\ a.amount \in Nat
IsArgs(a) == a = NoArgs \/ IsRelease(a) \/ IsRevaluation(a) \/ IsTransfer(a)

\* Where a call is goes with what it was asked, and with what it owes.
Releasing(c) ==
    \/ pc[c] \in {"burn", "child", "claim", "remint"}
    \/ pc[c] = "rload" /\ call[c].next = "claim"
    \/ Owes(c, "released") \/ Owes(c, "release")
Asked(c) ==
    LET x == call[c] IN
    /\ pc[c] = "verdict" => x.args.then # "none"
    /\ pc[c] = "velocity" => x.args.then = "none"
    /\ Releasing(c) => x.args.then = "burn"
    /\ pc[c] \in {"reval", "value"} => x.args.then = "reval"
    /\ pc[c] \in {"transfer", "holders"} => x.args.then = "transfer"
    /\ x.args.then # "none" => x.pid = <<c, calls[c]>> /\ calls[c] > 0 /\ pc[c] # "idle"
    /\ pc[c] = "append" /\ x.pid \in Minted =>
        x.due.fact \in SettlementFact /\ (x.due.fact = "accrual" <=> x.next = "idle")
    /\ pc[c] = "append" /\ x.pid \notin Minted =>
        /\ x.due.fact \in {"released", "release", "activated"}
        /\ x.due.fact = "released" <=> x.next = "remint"
        /\ x.due.fact \in ReleaseFact => x.due.pid = x.pid
        /\ x.due.fact = "activated" => x.args.then = "none"

CallRecords(c) ==
    LET x == call[c] IN
    /\ IsRecord(x.due, calls) /\ x.amount \in Nat /\ x.left \subseteq Node /\ IsArgs(x.args)
    /\ IsLog(x.log) /\ Count(x.log, "accrual") <= Count(journal, "accrual")
    /\ Asked(c)

IsCommission(r) ==
    /\ r = [hydrated |-> r.hydrated, settled |-> r.settled, credits |-> r.credits]
    /\ r.credits \in [Node -> Nat] /\ r.settled \subseteq Minted
Remembered ==
    /\ IsCommission(commission)
    /\ reserve.own \in Int /\ reserve.volume \in Nat /\ reserve.accrued \subseteq Minted
    /\ balances \in [Holder -> Nat] /\ cold \in BOOLEAN
    /\ value \in [Minted -> Value \cup {0, Volume}] /\ holderIds \in [Minted -> SUBSET Holder]

RecordsInv ==
    /\ \A i \in DOMAIN journal : IsRecord(journal[i], calls)
    /\ \A c \in Caller : CallRecords(c)
    /\ Remembered
-----------------------------------------------------------------------------
\* The empty log is one.
LEMMA EmptyIsLog == IsLog(<<>>) /\ Count(<<>>, "accrual") = 0
<1>1. PICK e : e = <<>> /\ DOMAIN e = {}
  OBVIOUS
<1>0. ASSUME NEW S PROVE e \in Seq(S)
  BY <1>1
<1>2. IsLog(e)
  BY <1>0, <1>1 DEF IsLog, HasAmounts, Of
<1> QED
  BY <1>1, <1>2, EmptyLog

\* The journal is a log.
LEMMA JournalIsLog ==
    ASSUME SettleInv, \A i \in DOMAIN journal : IsRecord(journal[i], calls)
    PROVE  IsLog(journal)
BY DEF SettleInv, IsLog, HasAmounts, Of, IsRecord, SettlementFact

\* The journal, grown or not, counts no fewer accruals.
LEMMA CountStays ==
    ASSUME NEW S, journal \in Seq(S), HasAmounts(journal),
           journal' = journal \/ \E r : journal' = Append(journal, r) /\ r.amount \in Nat
    PROVE  \A f : Count(journal, f) \in Nat /\ Count(journal', f) \in Nat /\ Count(journal, f) <= Count(journal', f)
<1>1. PICK j : j = journal'
  OBVIOUS
<1>2. \A f : Count(journal, f) \in Nat
  BY LogAmounts
<1>3. CASE j = journal
  BY <1>1, <1>2, <1>3
<1>4. CASE j # journal
  <2>1. PICK r : j = Append(journal, r) /\ r.amount \in Nat
    BY <1>1, <1>4
  <2>2. \A f : Count(j, f) = Count(journal, f) + (IF r.fact = f THEN 1 ELSE 0)
    BY <2>1, LogGrows
  <2> QED
    BY <1>1, <1>2, <2>2
<1> QED
  BY <1>3, <1>4

\* A caller has made no fewer calls than before.
CallsGrow(c) ==
    /\ DOMAIN calls' = Caller /\ calls'[c] >= calls[c] /\ calls'[c] \in Nat
    /\ \A d \in Caller \ {c} : calls'[d] = calls[d]

\* A record stays one as the callers make more calls.
LEMMA RecordStays ==
    ASSUME SettleInv, NEW c \in Caller, CallsGrow(c), NEW r, IsRecord(r, calls)
    PROVE  IsRecord(r, calls')
<1>1. \A d \in Caller : calls[d] \in Nat /\ calls'[d] \in Nat /\ calls'[d] >= calls[d]
  <2>1. \A d \in Caller : calls[d] \in 0..MaxCalls /\ MaxCalls \in Nat
    BY AmountsAssumption DEF SettleInv, CallOk
  <2> QED
    BY <2>1 DEF CallsGrow
<1>2. \A d \in Caller : 1..calls[d] \subseteq 1..calls'[d]
  BY <1>1
<1> QED
  BY <1>2 DEF IsRecord

\* A step of c keeps the invariant if c is left in order, with a journal it read or none,
\* the record it added is in order, and so are the memories.
LEMMA RecordsFrame ==
    ASSUME SettleInv, RecordsInv, NEW c \in Caller, NEW l, NEW x, Becomes(c, l, x), CallsGrow(c),
           journal' = journal \/ \E r : journal' = Append(journal, r) /\ IsRecord(r, calls'),
           x.log \in {call[c].log, <<>>, journal}, x.amount \in Nat, x.left \subseteq Node,
           IsRecord(x.due, calls'), IsArgs(x.args), Asked(c)', Remembered'
    PROVE  RecordsInv'
<1>1. /\ journal \in Seq(ToSet(journal)) /\ IsLog(journal)
  BY JournalIsLog DEF SettleInv, RecordsInv
<1>2. \A i \in DOMAIN journal : IsRecord(journal[i], calls')
  BY RecordStays DEF RecordsInv
<1>3. \A i \in DOMAIN journal' : IsRecord(journal'[i], calls')
  <2>1. CASE journal' = journal
    BY <1>2, <2>1
  <2>2. CASE journal' # journal
    <3>1. PICK r : journal' = Append(journal, r) /\ IsRecord(r, calls')
      BY <2>2
    <3>2. /\ DOMAIN journal = 1..Len(journal) /\ Len(journal) \in Nat
          /\ DOMAIN journal' = 1..(Len(journal) + 1)
          /\ \A i \in DOMAIN journal : journal'[i] = journal[i]
          /\ journal'[Len(journal) + 1] = r
      BY <1>1, <3>1, JournalGrows
    <3>3. DOMAIN journal' = DOMAIN journal \cup {Len(journal) + 1}
      BY <3>2
    <3>4. \A i \in DOMAIN journal : IsRecord(journal'[i], calls')
      BY <1>2, <3>2
    <3> QED
      BY <3>1, <3>2, <3>3, <3>4
  <2> QED
    BY <2>1, <2>2
<1>4. \A f : Count(journal, f) \in Nat /\ Count(journal', f) \in Nat /\ Count(journal, f) <= Count(journal', f)
  <2>1. journal' = journal \/ \E r : journal' = Append(journal, r) /\ r.amount \in Nat
    BY DEF IsRecord
  <2> QED
    BY <1>1, <2>1, CountStays DEF IsLog
<1>5. ASSUME NEW log, IsLog(log), Count(log, "accrual") <= Count(journal, "accrual")
      PROVE  Count(log, "accrual") <= Count(journal', "accrual")
  <2>1. Count(log, "accrual") \in Nat
    BY <1>5, LogAmounts DEF IsLog
  <2> QED
    BY <1>4, <1>5, <2>1
<1>6. ASSUME NEW d \in Caller \ {c}
      PROVE  CallRecords(d)'
  <2>1. pc'[d] = pc[d] /\ call'[d] = call[d] /\ calls'[d] = calls[d] /\ CallRecords(d)
    BY DEF Becomes, CallsGrow, RecordsInv
  <2>2. IsRecord(call[d].due, calls')
    BY <2>1, RecordStays DEF CallRecords
  <2>3. Asked(d)'
    BY <2>1 DEF CallRecords, Asked, Releasing, Owes
  <2> QED
    BY <1>5, <2>1, <2>2, <2>3 DEF CallRecords, IsRecord
<1>7. CallRecords(c)'
  <2>1. call'[c] = x
    BY DEF Becomes
  <2>2. IsLog(x.log) /\ Count(x.log, "accrual") <= Count(journal, "accrual")
    BY <1>1, <1>4, EmptyIsLog DEF RecordsInv, CallRecords
  <2>3. Count(x.log, "accrual") <= Count(journal', "accrual")
    BY <1>5, <2>2
  <2> QED
    BY <2>1, <2>2, <2>3 DEF CallRecords, IsRecord
<1> QED
  BY <1>3, <1>6, <1>7 DEF RecordsInv


(***************************************************************************)
(* What the services hydrate, and what the token applies.                  *)
(***************************************************************************)
LEMMA CommissionFromIs ==
    ASSUME NEW log, IsLog(log)
    PROVE  IsCommission(CommissionFrom(log))
<1>1. PICK r, credits, settled : /\ r = CommissionFrom(log) /\ settled = Of(log, "commission")
                                 /\ credits = [n \in Node |-> TotalTo(log, "paid", n)]
  OBVIOUS
<1>2. r = [hydrated |-> TRUE, settled |-> settled, credits |-> credits]
  BY <1>1 DEF CommissionFrom
<1>3. \A n \in Node : TotalTo(log, "paid", n) \in Nat
  BY LogAmounts DEF IsLog
<1>4. credits \in [Node -> Nat] /\ settled \subseteq Minted
  BY <1>1, <1>3 DEF IsLog
<1> QED
  BY <1>1, <1>2, <1>4 DEF IsCommission

\* What hydration makes of a log: a reserve.
LEMMA ReserveFromIs ==
    ASSUME NEW log, IsLog(log)
    PROVE  /\ ReserveFrom(log).own \in Int /\ ReserveFrom(log).volume \in Nat
           /\ ReserveFrom(log).accrued \subseteq Minted
<1>1. /\ Total(log, "accrual") \in Nat /\ Total(log, "released") \in Nat
      /\ Count(log, "accrual") \in Nat
  BY LogAmounts DEF IsLog
<1>2. Volume \in Nat
  BY AmountsAssumption
<1>3. Volume * Count(log, "accrual") \in Nat
  BY <1>1, <1>2
<1> QED
  BY <1>1, <1>3 DEF ReserveFrom, IsLog

\* Memory after a start.
LEMMA ColdIs ==
    /\ IsCommission(ColdCommission) /\ ColdCommission.hydrated = FALSE
    /\ ColdReserve.hydrated = FALSE /\ ColdReserve.own = 0 /\ ColdReserve.volume = 0
    /\ ColdReserve.accrued = {}
<1>1. PICK r : r = CommissionFrom(<<>>) /\ IsCommission(r)
  BY EmptyIsLog, CommissionFromIs
<1>2. PICK q : q = [r EXCEPT !.hydrated = FALSE]
  OBVIOUS
<1>3. IsCommission(q) /\ q.hydrated = FALSE
  BY <1>1, <1>2 DEF IsCommission
<1>4. ColdCommission = q
  BY <1>1, <1>2 DEF ColdCommission
<1>5. PICK own, volume, accrued :
        /\ own = Total(<<>>, "accrual") - Total(<<>>, "released")
        /\ accrued = Of(<<>>, "accrual") /\ volume = Volume * Count(<<>>, "accrual")
  OBVIOUS
<1>6. own = 0 /\ volume = 0 /\ accrued = {}
  <2>1. Volume \in Nat
    BY AmountsAssumption
  <2>2. \A f : Of(<<>>, f) = {}
    BY ColdStart
  <2> QED
    BY <1>5, <2>1, <2>2, EmptyLog
<1>7. PICK s : s = ReserveFrom(<<>>) /\ s = [hydrated |-> TRUE, own |-> 0, accrued |-> {}, volume |-> 0]
  BY <1>5, <1>6 DEF ReserveFrom
<1>8. ColdReserve = [s EXCEPT !.hydrated = FALSE]
  BY <1>7 DEF ColdReserve
<1>9. /\ ColdReserve.hydrated = FALSE /\ ColdReserve.own = 0 /\ ColdReserve.volume = 0
      /\ ColdReserve.accrued = {}
  BY <1>7, <1>8
<1> QED
  BY <1>3, <1>4, <1>9

Balances == [Holder -> Nat]
Entry == [holder : Holder, amount : Int]
Result == [balances : Balances, ok : BOOLEAN]

\* Apply is a fold, so induction over its entries applies.
LEMMA ApplyIsFold ==
    ASSUME NEW b
    PROVE  /\ Apply(b, <<>>) = [balances |-> b, ok |-> TRUE]
           /\ \A S : \A s \in Seq(S) : \A e : Apply(b, Append(s, e)) = ApplyEntry(Apply(b, s), e)
           /\ \A S, T : \A s \in Seq(S) :
                [balances |-> b, ok |-> TRUE] \in T /\ (\A t \in T, e \in S : ApplyEntry(t, e) \in T)
                    => Apply(b, s) \in T
<1>1. PICK base : base = [balances |-> b, ok |-> TRUE]
  OBVIOUS
<1>2. \A e : Apply(b, e) = Applying!Fold(base, e)
  BY <1>1 DEF Apply, Applying!Fold, FoldLeft, Applying!FoldLeft, MapThenFoldSet,
         Applying!MapThenFoldSet, Max, Applying!Max
<1>3. Applying!Fold(base, <<>>) = base
  BY Applying!FoldEmpty
<1>4. ASSUME NEW S, NEW s \in Seq(S), NEW e
      PROVE  Applying!Fold(base, Append(s, e)) = ApplyEntry(Applying!Fold(base, s), e)
  BY Applying!FoldAppend
<1>5. ASSUME NEW S, NEW T, NEW s \in Seq(S), base \in T, \A t \in T, e \in S : ApplyEntry(t, e) \in T
      PROVE  Applying!Fold(base, s) \in T
  BY <1>5, Applying!FoldKeeps
<1>6. \A S : \A s \in Seq(S) : \A e : Apply(b, Append(s, e)) = ApplyEntry(Apply(b, s), e)
  <2>1. ASSUME NEW S, NEW s \in Seq(S), NEW e
        PROVE  Apply(b, Append(s, e)) = ApplyEntry(Apply(b, s), e)
    BY <1>2, <1>4
  <2> QED
    BY <2>1
<1>7. ASSUME NEW S, NEW T, NEW s \in Seq(S), base \in T, \A t \in T, e \in S : ApplyEntry(t, e) \in T
      PROVE  Apply(b, s) \in T
  BY <1>2, <1>5, <1>7
<1> QED
  BY <1>1, <1>2, <1>3, <1>6, <1>7

\* One entry: applied, or refused because the balance is too small.
LEMMA EntryApplied ==
    ASSUME NEW t \in Result, NEW e \in Entry
    PROVE  /\ ApplyEntry(t, e) \in Result
           /\ ApplyEntry(t, e).ok =>
                /\ t.ok
                /\ ApplyEntry(t, e).balances = [t.balances EXCEPT ![e.holder] = @ + e.amount]
<1>1. /\ t.balances \in [Holder -> Nat] /\ e.holder \in Holder /\ e.amount \in Int
      /\ t = [balances |-> t.balances, ok |-> t.ok] /\ t.ok \in BOOLEAN
  BY DEF Result, Entry, Balances
<1>2. PICK b, h, n : b = t.balances /\ h = e.holder /\ n = e.amount
  OBVIOUS
<1>3. CASE t.ok /\ b[h] + n >= 0
  <2>1. PICK d : d = [b EXCEPT ![h] = @ + n]
    OBVIOUS
  <2>2. d \in [Holder -> Nat]
    BY <1>1, <1>2, <1>3, <2>1
  <2>3. ApplyEntry(t, e) = [t EXCEPT !.balances[h] = @ + n]
    BY <1>2, <1>3 DEF ApplyEntry
  <2>4. ApplyEntry(t, e) = [balances |-> d, ok |-> TRUE]
    BY <1>1, <1>2, <1>3, <2>1, <2>3
  <2> QED
    BY <1>2, <1>3, <2>1, <2>2, <2>4 DEF Result, Balances
<1>4. CASE ~(t.ok /\ b[h] + n >= 0)
  <2>1. ApplyEntry(t, e) = [t EXCEPT !.ok = FALSE]
    BY <1>2, <1>4 DEF ApplyEntry
  <2>2. ApplyEntry(t, e) = [balances |-> b, ok |-> FALSE]
    BY <1>1, <1>2, <2>1
  <2> QED
    BY <1>1, <1>2, <2>2 DEF Result, Balances
<1> QED
  BY <1>3, <1>4

\* What Apply returns.
LEMMA ApplyKeeps ==
    ASSUME NEW b \in Balances, NEW s \in Seq(Entry)
    PROVE  Apply(b, s) \in Result
<1>1. [balances |-> b, ok |-> TRUE] \in Result
  BY DEF Result
<1>2. \A t \in Result, e \in Entry : ApplyEntry(t, e) \in Result
  BY EntryApplied
<1> QED
  BY <1>1, <1>2, ApplyIsFold

\* Division stays within the integers.
LEMMA Quotient == ASSUME NEW a \in Int, NEW b \in Nat \ {0} PROVE a \div b \in Int
OBVIOUS

\* An order lists holders of a positive balance, each once.
LEMMA OrderIs ==
    ASSUME NEW b \in Balances, NEW order \in Orders(b)
    PROVE  /\ order \in Seq(Holder) /\ Len(order) \in Nat /\ DOMAIN order = 1..Len(order)
           /\ \A i \in DOMAIN order : order[i] \in Holder /\ b[order[i]] > 0
           /\ \A i, j \in DOMAIN order : i # j => order[i] # order[j]
<1>1. PICK H : H = {h \in Holder : b[h] > 0}
  OBVIOUS
<1>2. DOMAIN b = Holder
  BY DEF Balances
<1>3. IsFiniteSet(H)
  <2>1. H \subseteq Holder /\ IsFiniteSet(Holder)
    BY <1>1, FiniteAssumption
  <2> QED
    BY <2>1, FS_Subset
<1>4. PICK n \in Nat : n = Cardinality(H)
  BY <1>3, FS_CardinalityType
<1>5. order \in [1..n -> H] /\ \A i, j \in 1..n : i # j => order[i] # order[j]
  BY <1>1, <1>2, <1>4 DEF Orders, SetToSeqs
<1>6. order \in Seq(H) /\ Len(order) = n /\ DOMAIN order = 1..n
  BY <1>5
<1>7. \A i \in DOMAIN order : order[i] \in Holder /\ b[order[i]] > 0
  BY <1>1, <1>5, <1>6
<1>8. order \in Seq(Holder)
  BY <1>6, <1>7
<1> QED
  BY <1>5, <1>6, <1>7, <1>8


\* The supply a revaluation leads to.
LEMMA SupplyIs ==
    ASSUME NEW b \in Balances, NEW previous \in Nat \ {0}, NEW new \in Nat
    PROVE  /\ SumFunction(b) \in Nat /\ (SumFunction(b) # 0 => \E h \in Holder : b[h] > 0)
           /\ RevaluedSupply(SumFunction(b), previous, new) \in Int
<1>1. DOMAIN b = Holder /\ \A h \in Holder : b[h] \in Nat
  BY DEF Balances
<1>2. /\ SumFunction(b) \in Nat
      /\ (\A h \in Holder : b[h] = 0) => SumFunction(b) = 0
  BY <1>1, FiniteAssumption, SumOfNaturals
<1>3. PICK n \in Nat : n = SumFunction(b)
  BY <1>2
<1>4. (n * new) \div previous \in Int
  <2>1. n * new \in Int
    BY <1>3
  <2> QED
    BY <2>1, Quotient
<1>5. RevaluedSupply(n, previous, new) \in Int
  BY <1>4 DEF RevaluedSupply
<1> QED
  BY <1>1, <1>2, <1>3, <1>5

\* The shares: of an amount, one integer for each holder in the order.
LEMMA SharesAre ==
    ASSUME NEW b \in Balances, NEW order \in Orders(b), NEW d \in Int
    PROVE  /\ DOMAIN ProRata(b, order, d) = 1..Len(order)
           /\ \A i \in 1..Len(order) : ProRata(b, order, d)[i] \in Int
           /\ Len(order) > 0 => SumFunction(ProRata(b, order, d)) = d
<1>1. /\ order \in Seq(Holder) /\ Len(order) \in Nat /\ DOMAIN order = 1..Len(order)
      /\ \A i \in DOMAIN order : order[i] \in Holder /\ b[order[i]] > 0
  BY OrderIs
<1>2. PICK total, last, S :
        total = SumFunctionOnSet(b, S) /\ last = Len(order) /\ S = ToSet(order)
  OBVIOUS
<1>3. IsFiniteSet(S) /\ \A h \in S : b[h] \in Nat
  <2>1. S \subseteq Holder
    BY <1>1, <1>2 DEF ToSet
  <2>2. IsFiniteSet(S)
    BY <2>1, FiniteAssumption, FS_Subset
  <2> QED
    BY <2>1, <2>2 DEF Balances
<1>4. total = Applying!Sum(b, S) /\ total \in Nat
  BY <1>2, <1>3, SumIs, Applying!SumOfNaturals
<1>5. ASSUME last > 0 PROVE total \in Nat \ {0}
  <2>1. 1 \in DOMAIN order /\ order[1] \in S
    BY <1>1, <1>2, <1>5 DEF ToSet
  <2>2. b[order[1]] <= total /\ b[order[1]] > 0 /\ b[order[1]] \in Nat
    BY <1>1, <1>3, <1>4, <2>1, SumIs, Applying!SumBounds
  <2> QED
    BY <1>4, <2>2
<1>6. PICK share : share = [i \in 1..(last - 1) |-> (d * b[order[i]]) \div total]
  OBVIOUS
<1>7. DOMAIN share = 1..(last - 1) /\ \A i \in 1..(last - 1) : share[i] \in Int
  <2>1. ASSUME NEW i \in 1..(last - 1) PROVE share[i] \in Int
    <3>1. last > 0 /\ i \in DOMAIN order
      BY <1>1, <1>2, <2>1
    <3>2. b[order[i]] \in Nat
      BY <1>1, <3>1 DEF Balances
    <3>3. d * b[order[i]] \in Int
      BY <3>2
    <3>4. (d * b[order[i]]) \div total \in Int
      BY <1>5, <3>1, <3>3, Quotient
    <3> QED
      BY <1>6, <3>4
  <2> QED
    BY <1>6, <2>1
<1>8. PICK sum \in Int : sum = SumFunction(share)
  <2>1. IsFiniteSet(1..(last - 1))
    BY <1>1, <1>2, FS_Interval
  <2> QED
    BY <1>7, <2>1, SumOfIntegers
<1>9. PICK g : g = [i \in 1..last |-> IF i < last THEN share[i] ELSE d - sum]
  OBVIOUS
<1>10. ProRata(b, order, d) = g
  BY <1>2, <1>6, <1>8, <1>9 DEF ProRata
<1>11. DOMAIN g = 1..last /\ \A i \in 1..last : g[i] \in Int
  <2>1. ASSUME NEW i \in 1..last PROVE g[i] \in Int
    <3>1. CASE i < last
      <4>1. i \in 1..(last - 1)
        BY <1>1, <1>2, <2>1, <3>1
      <4> QED
        BY <1>7, <1>9, <2>1, <3>1, <4>1
    <3>2. CASE ~(i < last)
      BY <1>8, <1>9, <2>1, <3>2
    <3> QED
      BY <3>1, <3>2
  <2> QED
    BY <1>9, <2>1
<1>12. ASSUME last > 0 PROVE SumFunction(g) = d
  <2>1. /\ last \notin DOMAIN share /\ DOMAIN g = DOMAIN share \cup {last}
        /\ g[last] = d - sum
        /\ \A i \in DOMAIN share : g[i] = share[i]
    BY <1>1, <1>2, <1>7, <1>9, <1>12
  <2>2. IsFiniteSet(DOMAIN share)
    BY <1>1, <1>2, <1>7, FS_Interval
  <2>3. /\ \A i \in DOMAIN share : share[i] \in Int /\ g[i] = share[i]
        /\ g[last] \in Int
    BY <1>7, <1>8, <2>1
  <2>4. SumFunction(g) = SumFunction(share) + g[last]
    BY <2>1, <2>2, <2>3, SumGrows
  <2> QED
    BY <1>8, <2>1, <2>4
<1> QED
  BY <1>2, <1>10, <1>11, <1>12

\* The allocations: a signed amount for each holder in the order.
LEMMA AllocationsAre ==
    ASSUME NEW b \in Balances, NEW order \in Orders(b), NEW previous \in Nat \ {0}, NEW new \in Nat
    PROVE  Allocations(b, order, previous, new) \in Seq(Entry)
<1>1. PICK supply, delta, d :
        /\ supply = SumFunction(b) /\ delta = RevaluedSupply(supply, previous, new) - supply
        /\ d = IF delta < 0 THEN -delta ELSE delta
  OBVIOUS
<1>2. supply \in Int /\ delta \in Int /\ d \in Int
  <2>1. supply \in Nat /\ RevaluedSupply(supply, previous, new) \in Int
    BY <1>1, SupplyIs
  <2>2. supply \in Int /\ delta \in Int
    BY <1>1, <2>1
  <2> QED
    BY <1>1, <2>2
<1>3. PICK share : share = ProRata(b, order, d)
  OBVIOUS
<1>4. DOMAIN share = 1..Len(order) /\ \A i \in 1..Len(order) : share[i] \in Int
  BY <1>2, <1>3, SharesAre
<1>5. /\ Len(order) \in Nat /\ DOMAIN order = 1..Len(order)
      /\ \A i \in DOMAIN order : order[i] \in Holder
  BY OrderIs
<1>6. PICK e : e = [i \in DOMAIN order |->
                      [holder |-> order[i], amount |-> IF delta < 0 THEN -share[i] ELSE share[i]]]
  OBVIOUS
<1>7. e = Allocations(b, order, previous, new)
  BY <1>1, <1>3, <1>6 DEF Allocations
<1>8. \A i \in 1..Len(order) : e[i] \in Entry
  <2>1. ASSUME NEW i \in 1..Len(order) PROVE e[i] \in Entry
    <3>1. share[i] \in Int /\ -share[i] \in Int /\ order[i] \in Holder
      BY <1>4, <1>5, <2>1
    <3>2. e[i] = [holder |-> order[i], amount |-> IF delta < 0 THEN -share[i] ELSE share[i]]
      BY <1>5, <1>6, <2>1
    <3> QED
      BY <3>1, <3>2 DEF Entry
  <2> QED
    BY <2>1
<1>9. e \in [1..Len(order) -> Entry]
  BY <1>5, <1>6, <1>8
<1>10. e \in Seq(Entry)
  BY <1>5, <1>9
<1> QED
  BY <1>7, <1>10


(***************************************************************************)
(* Every step keeps RecordsInv.                                            *)
(***************************************************************************)
LEMMA CallsStay ==
    ASSUME SettleInv, NEW c \in Caller,
           calls' = calls \/ calls' = [calls EXCEPT ![c] = @ + 1]
    PROVE  CallsGrow(c) /\ calls[c] \in Nat
<1>1. DOMAIN calls = Caller /\ calls[c] \in Nat
  BY AmountsAssumption DEF SettleInv, CallOk
<1> QED
  BY <1>1 DEF CallsGrow

\* The parts of a call.
LEMMA CallShape ==
    ASSUME NEW pid, NEW due, NEW next, NEW log, NEW amount, NEW left, NEW args
    PROVE  LET x == Call(pid, due, next, log, amount, left, args) IN
           /\ x.pid = pid /\ x.due = due /\ x.next = next /\ x.log = log /\ x.amount = amount
           /\ x.left = left /\ x.args = args
BY DEF Call

\* What an idle call has.
LEMMA NothingDue ==
    /\ NoFact.fact = "none" /\ NoFact.pid = Nobody /\ NoFact.amount = 0
    /\ \A made : IsRecord(NoFact, made)
    /\ NoArgs.then = "none" /\ IsArgs(NoArgs)
<1>1. NoFact.fact = "none" /\ NoFact.amount = 0 /\ NoFact.pid = Nobody
  BY FactShape DEF NoFact
<1>2. NoArgs.then = "none" /\ IsArgs(NoArgs)
  BY DEF NoArgs, IsArgs
<1> QED
  BY <1>1, <1>2 DEF IsRecord, SettlementFact, ReleaseFact

\* A call ends.
LEMMA EndsRecords ==
    ASSUME SettleInv, RecordsInv, NEW c \in Caller, CallsGrow(c),
           Becomes(c, "idle", Call(Nobody, NoFact, "idle", <<>>, 0, {}, NoArgs)),
           journal' = journal \/ \E r : journal' = Append(journal, r) /\ IsRecord(r, calls'),
           Remembered'
    PROVE  RecordsInv'
<1>1. PICK x : x = Call(Nobody, NoFact, "idle", <<>>, 0, {}, NoArgs)
  OBVIOUS
<1>2. /\ x.pid = Nobody /\ x.due = NoFact /\ x.next = "idle" /\ x.log = <<>> /\ x.amount = 0
      /\ x.left = {} /\ x.args = NoArgs
  BY <1>1, CallShape
<1>3. Becomes(c, "idle", x)
  BY <1>1
<1>4. Asked(c)'
  BY <1>2, <1>3, NothingDue DEF Becomes, Asked, Releasing, Owes
<1>5. /\ x.log \in {call[c].log, <<>>, journal} /\ x.amount \in Nat /\ x.left \subseteq Node
      /\ IsRecord(x.due, calls') /\ IsArgs(x.args)
  BY <1>2, NothingDue
<1> QED
  BY <1>3, <1>4, <1>5, RecordsFrame

\* A call goes on, with what it has, having perhaps read the journal.
LEMMA GoesRecords ==
    ASSUME SettleInv, RecordsInv, NEW c \in Caller, UNCHANGED calls, NEW l, NEW x, Becomes(c, l, x),
           x.pid = call[c].pid, x.amount = call[c].amount, x.left = call[c].left,
           x.args = call[c].args, IsRecord(x.due, calls),
           journal' = journal \/ \E r : journal' = Append(journal, r) /\ IsRecord(r, calls'),
           x.log \in {call[c].log, <<>>, journal}, Remembered', pc[c] # "idle",
           l \notin {"idle", "verdict", "velocity", "append"},
           l \in {"burn", "child", "claim", "remint"} \/ (l = "rload" /\ x.next = "claim") =>
                call[c].args.then = "burn",
           l \in {"reval", "value"} => call[c].args.then = "reval",
           l \in {"transfer", "holders"} => call[c].args.then = "transfer"
    PROVE  RecordsInv'
<1>1. PICK y : y = call[c]
  OBVIOUS
<1>4. CallRecords(c) /\ CallsGrow(c)
  BY CallsStay DEF RecordsInv
<1>5. y.amount \in Nat /\ y.left \subseteq Node /\ IsArgs(y.args)
  BY <1>1, <1>4 DEF CallRecords
<1>6. y.args.then # "none" => y.pid = <<c, calls[c]>> /\ calls[c] > 0
  BY <1>1, <1>4 DEF CallRecords, Asked
<1>7. call'[c] = x /\ pc'[c] = l
  BY DEF Becomes
<1>8. Asked(c)'
  BY <1>1, <1>6, <1>7 DEF Asked, Releasing, Owes
<1>9. IsRecord(x.due, calls')
  OBVIOUS
<1>10. x.amount \in Nat /\ x.left \subseteq Node /\ IsArgs(x.args)
  BY <1>1, <1>5
<1> QED
  BY <1>4, <1>8, <1>9, <1>10, RecordsFrame

\* A call has a record to append.
LEMMA OwesRecords ==
    ASSUME SettleInv, RecordsInv, NEW c \in Caller, UNCHANGED calls, NEW f, NEW next, NEW left,
           LET x == call[c] IN
           /\ Becomes(c, "append", Call(x.pid, f, next, x.log, x.amount, left, x.args))
           /\ f.fact \in ReleaseFact => x.args.then = "burn" /\ f.pid = x.pid
           /\ f.fact = "activated" => x.args.then = "none"
           /\ x.pid \in Minted => f.fact \in SettlementFact /\ (f.fact = "accrual" <=> next = "idle")
           /\ x.pid \notin Minted => /\ f.fact \in {"released", "release", "activated"}
                                     /\ f.fact = "released" <=> next = "remint",
           journal' = journal \/ \E r : journal' = Append(journal, r) /\ IsRecord(r, calls'),
           IsRecord(f, calls), left \subseteq Node, Remembered', pc[c] # "idle"
    PROVE  RecordsInv'
<1>1. PICK x, y : y = call[c] /\ x = Call(y.pid, f, next, y.log, y.amount, left, y.args)
  OBVIOUS
<1>2. /\ x.pid = y.pid /\ x.due = f /\ x.next = next /\ x.log = y.log /\ x.amount = y.amount
      /\ x.left = left /\ x.args = y.args
  BY <1>1, CallShape
<1>3. Becomes(c, "append", x)
  BY <1>1
<1>4. CallRecords(c) /\ CallsGrow(c)
  BY CallsStay DEF RecordsInv
<1>5. y.amount \in Nat /\ IsArgs(y.args)
  BY <1>1, <1>4 DEF CallRecords
<1>6. y.args.then # "none" => y.pid = <<c, calls[c]>> /\ calls[c] > 0
  BY <1>1, <1>4 DEF CallRecords, Asked
<1>7. call'[c] = x /\ pc'[c] = "append"
  BY <1>3 DEF Becomes
<1>8. Asked(c)'
  <2>1. /\ f.fact \in ReleaseFact => y.args.then = "burn" /\ f.pid = y.pid
        /\ f.fact = "activated" => y.args.then = "none"
        /\ y.pid \in Minted => f.fact \in SettlementFact /\ (f.fact = "accrual" <=> next = "idle")
        /\ y.pid \notin Minted => /\ f.fact \in {"released", "release", "activated"}
                                  /\ f.fact = "released" <=> next = "remint"
    BY <1>1
  <2>2. Releasing(c)' => y.args.then = "burn"
    BY <1>2, <1>7, <2>1 DEF Releasing, Owes, ReleaseFact
  <2> QED
    BY <1>2, <1>6, <1>7, <2>1, <2>2 DEF Asked
<1>9. IsRecord(x.due, calls')
  BY <1>2
<1>10. /\ x.log \in {call[c].log, <<>>, journal} /\ x.amount \in Nat /\ x.left \subseteq Node
       /\ IsArgs(x.args)
  BY <1>1, <1>2, <1>5
<1> QED
  BY <1>3, <1>4, <1>8, <1>9, <1>10, RecordsFrame

\* A call begins.
LEMMA BeginsRecords ==
    ASSUME SettleInv, RecordsInv, NEW c \in Caller, calls' = [calls EXCEPT ![c] = @ + 1],
           NEW l \in {"settle", "velocity", "verdict"}, NEW pid, NEW amount \in Nat, NEW args,
           Becomes(c, l, Call(pid, NoFact, "idle", <<>>, amount, {}, args)), IsArgs(args),
           args.then # "none" => pid = Own(c), l = "verdict" => args.then # "none", l = "velocity" => args.then = "none",
           UNCHANGED <<journal, commission, reserve, token>>
    PROVE  RecordsInv'
<1>1. PICK x : x = Call(pid, NoFact, "idle", <<>>, amount, {}, args)
  OBVIOUS
<1>2. /\ x.pid = pid /\ x.due = NoFact /\ x.next = "idle" /\ x.log = <<>> /\ x.amount = amount
      /\ x.left = {} /\ x.args = args
  BY <1>1, CallShape
<1>3. Becomes(c, l, x) /\ call'[c] = x /\ pc'[c] = l
  BY <1>1 DEF Becomes
<1>4. CallsGrow(c) /\ calls[c] \in Nat /\ calls'[c] = calls[c] + 1
  BY CallsStay DEF SettleInv
<1>5. args.then # "none" => pid = <<c, calls'[c]>> /\ calls'[c] > 0
  BY <1>4 DEF Own
<1>6. Asked(c)'
  BY <1>2, <1>3, <1>5 DEF Asked, Releasing, Owes
<1>7. IsRecord(x.due, calls')
  BY <1>2, NothingDue
<1>8. Remembered'
  BY DEF RecordsInv, Remembered, token, registry
<1>9. /\ x.log \in {call[c].log, <<>>, journal} /\ x.amount \in Nat /\ x.left \subseteq Node
      /\ IsArgs(x.args)
  BY <1>2
<1> QED
  BY <1>3, <1>4, <1>6, <1>7, <1>8, <1>9, RecordsFrame


\* What the invariants say of the call that steps.
LEMMA CallIsOk ==
    ASSUME SettleInv, RecordsInv, NEW c \in Caller
    PROVE  /\ CallOk(c) /\ CallRecords(c) /\ Asked(c) /\ IsCall(call[c])
           /\ IsRecord(call[c].due, calls) /\ IsLog(call[c].log) /\ call[c].left \subseteq Node
BY DEF SettleInv, RecordsInv, CallRecords, CallOk

\* What a call of each kind was asked.
LEMMA ReleaseArgs ==
    ASSUME SettleInv, RecordsInv, NEW c \in Caller, call[c].args.then = "burn"
    PROVE  IsRelease(call[c].args) /\ call[c].pid = <<c, calls[c]>> /\ calls[c] \in Nat \ {0}
<1>1. IsRelease(call[c].args) /\ call[c].pid = <<c, calls[c]>> /\ calls[c] > 0
  BY CallIsOk, NothingDue DEF CallRecords, IsArgs, IsRevaluation, IsTransfer, Asked
<1>2. calls[c] \in Nat
  BY AmountsAssumption DEF SettleInv, CallOk
<1> QED
  BY <1>1, <1>2

LEMMA RevaluationArgs ==
    ASSUME SettleInv, RecordsInv, NEW c \in Caller, call[c].args.then = "reval"
    PROVE  IsRevaluation(call[c].args)
BY CallIsOk, NothingDue DEF CallRecords, IsArgs, IsRelease, IsTransfer

LEMMA TransferArgs ==
    ASSUME SettleInv, RecordsInv, NEW c \in Caller, call[c].args.then = "transfer"
    PROVE  IsTransfer(call[c].args)
BY CallIsOk, NothingDue DEF CallRecords, IsArgs, IsRelease, IsRevaluation

\* A call goes on as it is.
LEMMA GoesOnRecords ==
    ASSUME SettleInv, RecordsInv, NEW c \in Caller, UNCHANGED calls, NEW l, Becomes(c, l, call[c]),
           journal' = journal \/ \E r : journal' = Append(journal, r) /\ IsRecord(r, calls'),
           Remembered', pc[c] # "idle", l \notin {"idle", "verdict", "velocity", "append", "rload"},
           l \in {"burn", "child", "claim", "remint"} => call[c].args.then = "burn",
           l \in {"reval", "value"} => call[c].args.then = "reval",
           l \in {"transfer", "holders"} => call[c].args.then = "transfer"
    PROVE  RecordsInv'
<1>1. PICK x : x = call[c]
  OBVIOUS
<1>2. IsRecord(x.due, calls)
  BY <1>1, CallIsOk
<1> QED
  BY <1>1, <1>2, GoesRecords

\* Steps of the commission.
LEMMA LoadCommissionRecords ==
    ASSUME SettleInv, RecordsInv, NEW c \in Caller, LoadCommission(c), UNCHANGED token
    PROVE  RecordsInv'
<1>1. PICK x : x = call[c]
  OBVIOUS
<1>2. /\ pc[c] = "settle" /\ UNCHANGED <<journal, commission, reserve, calls>>
      /\ \/ Becomes(c, "settled?", x)
         \/ Becomes(c, "cload", Call(x.pid, x.due, x.next, journal, x.amount, x.left, x.args))
  BY <1>1, LoadCommissionIs DEF services
<1>3. IsRecord(x.due, calls)
  BY <1>1, CallIsOk
<1>4. Remembered'
  BY <1>2 DEF RecordsInv, Remembered, token, registry
<1>5. CASE Becomes(c, "settled?", x)
  BY <1>1, <1>2, <1>4, <1>5, GoesOnRecords
<1>6. CASE Becomes(c, "cload", Call(x.pid, x.due, x.next, journal, x.amount, x.left, x.args))
  <2>1. PICK y : y = Call(x.pid, x.due, x.next, journal, x.amount, x.left, x.args)
    OBVIOUS
  <2>2. /\ y.pid = x.pid /\ y.due = x.due /\ y.log = journal /\ y.amount = x.amount
        /\ y.left = x.left /\ y.args = x.args
    BY <2>1, CallShape
  <2> QED
    BY <1>1, <1>2, <1>3, <1>4, <1>6, <2>1, <2>2, GoesRecords
<1> QED
  BY <1>2, <1>5, <1>6

\* The commission is hydrated from a log.
LEMMA HydrateCommissionRecords ==
    ASSUME SettleInv, RecordsInv, NEW c \in Caller, HydrateCommission(c), UNCHANGED token
    PROVE  RecordsInv'
<1>1. PICK x : x = call[c]
  OBVIOUS
<1>2. /\ pc[c] = "cload" /\ UNCHANGED <<journal, reserve, calls>> /\ commission' = CommissionFrom(x.log)
      /\ Becomes(c, "settled?", Call(x.pid, x.due, x.next, <<>>, x.amount, x.left, x.args))
  BY <1>1, HydrateCommissionIs
<1>3. IsRecord(x.due, calls) /\ IsCommission(commission')
  BY <1>1, <1>2, CallIsOk, CommissionFromIs
<1>4. Remembered'
  BY <1>2, <1>3 DEF RecordsInv, Remembered, token, registry
<1>5. PICK y : y = Call(x.pid, x.due, x.next, <<>>, x.amount, x.left, x.args)
  OBVIOUS
<1>6. /\ y.pid = x.pid /\ y.due = x.due /\ y.log = <<>> /\ y.amount = x.amount
      /\ y.left = x.left /\ y.args = x.args
  BY <1>5, CallShape
<1> QED
  BY <1>1, <1>2, <1>3, <1>4, <1>5, <1>6, GoesRecords

\* The settlement becomes due.
LEMMA CheckSettledRecords ==
    ASSUME SettleInv, RecordsInv, NEW c \in Caller, CheckSettled(c), UNCHANGED token
    PROVE  RecordsInv'
<1>1. PICK x, f : /\ x = call[c]
                  /\ f = Fact("commission", x.pid, Nobody, Payment * Cardinality(Node) + AstShare)
  OBVIOUS
<1>2. /\ pc[c] = "settled?" /\ UNCHANGED <<journal, commission, reserve, calls>>
      /\ \/ Becomes(c, "idle", Call(Nobody, NoFact, "idle", <<>>, 0, {}, NoArgs))
         \/ Becomes(c, "append", Call(x.pid, f, "pay", x.log, x.amount, Node, x.args))
  BY <1>1, CheckSettledIs DEF services
<1>3. Remembered'
  BY <1>2 DEF RecordsInv, Remembered, token, registry
<1>4. CASE Becomes(c, "idle", Call(Nobody, NoFact, "idle", <<>>, 0, {}, NoArgs))
  BY <1>2, <1>3, <1>4, EndsRecords, CallsStay
<1>5. CASE Becomes(c, "append", Call(x.pid, f, "pay", x.log, x.amount, Node, x.args))
  <2>1. x.pid \in Minted
    BY <1>1, <1>2, CallIsOk DEF CallOk, OperationPc
  <2>2. f.fact = "commission" /\ f.pid = x.pid /\ f.amount = Payment * Cardinality(Node) + AstShare
    BY <1>1, FactShape
  <2>3. f.amount \in Nat
    <3>1. Payment \in Nat /\ AstShare \in Nat /\ Cardinality(Node) \in Nat
      BY AmountsAssumption, FiniteAssumption, FS_CardinalityType
    <3> QED
      BY <2>2, <3>1
  <2>4. IsRecord(f, calls)
    BY <2>1, <2>2, <2>3 DEF IsRecord, ReleaseFact
  <2> QED
    BY <1>1, <1>2, <1>3, <1>5, <2>1, <2>2, <2>4, OwesRecords DEF ReleaseFact, SettlementFact
<1> QED
  BY <1>2, <1>4, <1>5

\* A node is credited and its payment becomes due.
LEMMA PayNodeRecords ==
    ASSUME SettleInv, RecordsInv, NEW c \in Caller, PayNode(c), UNCHANGED token
    PROVE  RecordsInv'
<1>1. PICK x : x = call[c]
  OBVIOUS
<1>2. /\ pc[c] = "pay" /\ UNCHANGED <<journal, reserve, calls>>
      /\ \/ x.left = {} /\ commission' = [commission EXCEPT !.settled = @ \cup {x.pid}]
            /\ Becomes(c, "accrue", x)
         \/ \E n \in x.left :
              /\ commission' = [commission EXCEPT !.credits[n] = @ + Payment]
              /\ Becomes(c, "append", Call(x.pid, Fact("paid", x.pid, n, Payment), "pay", x.log,
                                          x.amount, x.left \ {n}, x.args))
  BY <1>1, PayNodeIs
<1>3. x.pid \in Minted
  BY <1>1, <1>2, CallIsOk DEF CallOk, OperationPc
<1>4. IsCommission(commission)
  BY DEF RecordsInv, Remembered
<1>5. x.left \subseteq Node
  BY <1>1, CallIsOk
<1>6. CASE /\ commission' = [commission EXCEPT !.settled = @ \cup {x.pid}]
           /\ Becomes(c, "accrue", x)
  <2>1. IsCommission(commission')
    BY <1>3, <1>4, <1>6 DEF IsCommission
  <2>2. Remembered'
    BY <1>2, <2>1 DEF RecordsInv, Remembered, token, registry
  <2> QED
    BY <1>1, <1>2, <1>6, <2>2, GoesOnRecords
<1>7. ASSUME NEW n \in x.left,
             commission' = [commission EXCEPT !.credits[n] = @ + Payment],
             Becomes(c, "append", Call(x.pid, Fact("paid", x.pid, n, Payment), "pay", x.log,
                                       x.amount, x.left \ {n}, x.args))
      PROVE  RecordsInv'
  <2>1. Payment \in Nat /\ n \in Node
    BY <1>5, AmountsAssumption
  <2>2. IsCommission(commission')
    BY <1>4, <1>7, <2>1 DEF IsCommission
  <2>3. Remembered'
    BY <1>2, <2>2 DEF RecordsInv, Remembered, token, registry
  <2>4. PICK f : f = Fact("paid", x.pid, n, Payment)
    OBVIOUS
  <2>5. f.fact = "paid" /\ f.pid = x.pid /\ f.amount = Payment
    BY <2>4, FactShape
  <2>6. IsRecord(f, calls)
    BY <1>3, <2>1, <2>5 DEF IsRecord, ReleaseFact
  <2>7. x.left \ {n} \subseteq Node
    BY <1>5
  <2> QED
    BY <1>1, <1>2, <1>3, <1>7, <2>3, <2>4, <2>5, <2>6, <2>7, OwesRecords DEF ReleaseFact, SettlementFact
<1> QED
  BY <1>2, <1>6, <1>7
-----------------------------------------------------------------------------
\* Steps of the reserve and of the daemon.
LEMMA LoadReserveRecords ==
    ASSUME SettleInv, RecordsInv, NEW c \in Caller, UNCHANGED token,
           LoadReserve(c, "accrue", "accrued?") \/ LoadReserve(c, "child", "claim")
    PROVE  RecordsInv'
<1>1. PICK x : x = call[c]
  OBVIOUS
<1>2. /\ UNCHANGED <<journal, commission, reserve, calls>>
      /\ \E after \in {"accrued?", "claim"} :
           /\ pc[c] = IF after = "claim" THEN "child" ELSE "accrue"
           /\ \/ Becomes(c, after, x)
              \/ Becomes(c, "rload", Call(x.pid, x.due, after, journal, x.amount, x.left, x.args))
  BY <1>1, LoadReserveIs DEF services
<1>3. PICK after \in {"accrued?", "claim"} :
           /\ pc[c] = IF after = "claim" THEN "child" ELSE "accrue"
           /\ \/ Becomes(c, after, x)
              \/ Becomes(c, "rload", Call(x.pid, x.due, after, journal, x.amount, x.left, x.args))
  BY <1>2
<1>4. IsRecord(x.due, calls)
  BY <1>1, CallIsOk
<1>5. Remembered'
  BY <1>2 DEF RecordsInv, Remembered, token, registry
<1>6. after = "claim" => x.args.then = "burn"
  BY <1>1, <1>3, CallIsOk DEF Asked, Releasing
<1>7. CASE Becomes(c, after, x)
  BY <1>1, <1>2, <1>3, <1>5, <1>6, <1>7, GoesOnRecords
<1>8. CASE Becomes(c, "rload", Call(x.pid, x.due, after, journal, x.amount, x.left, x.args))
  <2>1. journal \in {call[c].log, <<>>, journal} /\ pc[c] # "idle"
    BY <1>3
  <2>2. PICK y : y = Call(x.pid, x.due, after, journal, x.amount, x.left, x.args)
    OBVIOUS
  <2>3. /\ y.pid = x.pid /\ y.due = x.due /\ y.log = journal /\ y.amount = x.amount
        /\ y.left = x.left /\ y.args = x.args /\ y.next = after
    BY <2>2, CallShape
  <2> QED
    BY <1>1, <1>2, <1>4, <1>5, <1>6, <1>8, <2>1, <2>2, <2>3, GoesRecords
<1> QED
  BY <1>3, <1>7, <1>8

\* The reserve is hydrated from a log.
LEMMA HydrateReserveRecords ==
    ASSUME SettleInv, RecordsInv, NEW c \in Caller, HydrateReserve(c), UNCHANGED token
    PROVE  RecordsInv'
<1>1. PICK x : x = call[c]
  OBVIOUS
<1>2. /\ pc[c] = "rload" /\ UNCHANGED <<journal, commission, calls>> /\ reserve' = ReserveFrom(x.log)
      /\ Becomes(c, x.next, Call(x.pid, x.due, "idle", <<>>, x.amount, x.left, x.args))
  BY <1>1, HydrateReserveIs
<1>3. /\ IsRecord(x.due, calls)
      /\ reserve'.own \in Int /\ reserve'.volume \in Nat /\ reserve'.accrued \subseteq Minted
  BY <1>1, <1>2, CallIsOk, ReserveFromIs
<1>4. Remembered'
  BY <1>2, <1>3 DEF RecordsInv, Remembered, token, registry
<1>5. x.next \in {"accrued?", "claim"} /\ (x.next = "claim" => x.args.then = "burn")
  BY <1>1, <1>2, CallIsOk DEF CallOk, Asked, Releasing
<1>6. PICK y : y = Call(x.pid, x.due, "idle", <<>>, x.amount, x.left, x.args)
  OBVIOUS
<1>7. /\ y.pid = x.pid /\ y.due = x.due /\ y.log = <<>> /\ y.amount = x.amount
      /\ y.left = x.left /\ y.args = x.args /\ y.next = "idle"
  BY <1>6, CallShape
<1> QED
  BY <1>1, <1>2, <1>3, <1>4, <1>5, <1>6, <1>7, GoesRecords

\* The reserve accrues.
LEMMA AccrueRecords ==
    ASSUME SettleInv, RecordsInv, NEW c \in Caller, Accrue(c), UNCHANGED token
    PROVE  RecordsInv'
<1>1. PICK x : x = call[c]
  OBVIOUS
<1>2. /\ pc[c] = "accrued?" /\ UNCHANGED <<journal, commission, calls>>
      /\ \/ UNCHANGED reserve /\ Becomes(c, "idle", Call(Nobody, NoFact, "idle", <<>>, 0, {}, NoArgs))
         \/ /\ reserve' = [reserve EXCEPT !.own = @ + AstShare, !.volume = @ + Volume,
                                          !.accrued = @ \cup {x.pid}]
            /\ Becomes(c, "append", Call(x.pid, Fact("accrual", x.pid, Nobody, AstShare), "idle",
                                        x.log, x.amount, x.left, x.args))
  BY <1>1, AccrueIs
<1>3. CASE UNCHANGED reserve /\ Becomes(c, "idle", Call(Nobody, NoFact, "idle", <<>>, 0, {}, NoArgs))
  <2>1. Remembered'
    BY <1>2, <1>3 DEF RecordsInv, Remembered, token, registry
  <2> QED
    BY <1>2, <1>3, <2>1, EndsRecords, CallsStay
<1>4. CASE /\ reserve' = [reserve EXCEPT !.own = @ + AstShare, !.volume = @ + Volume,
                                         !.accrued = @ \cup {x.pid}]
           /\ Becomes(c, "append", Call(x.pid, Fact("accrual", x.pid, Nobody, AstShare), "idle",
                                        x.log, x.amount, x.left, x.args))
  <2>1. x.pid \in Minted
    BY <1>1, <1>2, CallIsOk DEF CallOk, OperationPc
  <2>2. AstShare \in Nat /\ Volume \in Nat /\ IsReserve(reserve)
    BY AmountsAssumption DEF SettleInv
  <2>3. /\ reserve'.own = reserve.own + AstShare /\ reserve'.volume = reserve.volume + Volume
        /\ reserve'.accrued = reserve.accrued \cup {x.pid}
    BY <1>4, <2>2 DEF IsReserve
  <2>4. Remembered'
    BY <1>2, <2>1, <2>2, <2>3 DEF RecordsInv, Remembered, token, registry
  <2>5. PICK f : f = Fact("accrual", x.pid, Nobody, AstShare)
    OBVIOUS
  <2>6. f.fact = "accrual" /\ f.pid = x.pid /\ f.amount = AstShare
    BY <2>5, FactShape
  <2>7. IsRecord(f, calls)
    BY <2>1, <2>2, <2>6 DEF IsRecord, ReleaseFact
  <2>8. x.left \subseteq Node
    BY <1>1, CallIsOk
  <2> QED
    BY <1>1, <1>2, <1>4, <2>1, <2>4, <2>5, <2>6, <2>7, <2>8, OwesRecords DEF ReleaseFact, SettlementFact
<1> QED
  BY <1>2, <1>3, <1>4

\* The activation becomes due.
LEMMA TickRecords ==
    ASSUME SettleInv, RecordsInv, NEW c \in Caller, Tick(c), UNCHANGED token
    PROVE  RecordsInv'
<1>1. PICK x, f : x = call[c] /\ f = Fact("activated", c, Nobody, Len(journal))
  OBVIOUS
<1>2. /\ pc[c] = "velocity" /\ UNCHANGED <<journal, commission, reserve, calls>>
      /\ \/ Becomes(c, "idle", Call(Nobody, NoFact, "idle", <<>>, 0, {}, NoArgs))
         \/ Becomes(c, "append", Call(x.pid, f, "idle", x.log, x.amount, x.left, x.args))
  BY <1>1, TickIs
<1>3. Remembered'
  BY <1>2 DEF RecordsInv, Remembered, token, registry
<1>4. CASE Becomes(c, "idle", Call(Nobody, NoFact, "idle", <<>>, 0, {}, NoArgs))
  BY <1>2, <1>3, <1>4, EndsRecords, CallsStay
<1>5. CASE Becomes(c, "append", Call(x.pid, f, "idle", x.log, x.amount, x.left, x.args))
  <2>1. x.pid \notin Minted /\ x.args.then = "none" /\ x.left \subseteq Node
    BY <1>1, <1>2, CallIsOk DEF CallOk, SettlementPc, Asked
  <2>2. f.fact = "activated" /\ f.amount = Len(journal)
    BY <1>1, FactShape
  <2>3. Len(journal) \in Nat
    BY DEF SettleInv
  <2>4. IsRecord(f, calls)
    BY <2>2, <2>3 DEF IsRecord, ReleaseFact, SettlementFact
  <2> QED
    BY <1>1, <1>2, <1>3, <1>5, <2>1, <2>2, <2>4, OwesRecords DEF ReleaseFact, SettlementFact
<1> QED
  BY <1>2, <1>4, <1>5

\* A record is appended, or fails to be.
LEMMA AppendDueRecords ==
    ASSUME SettleInv, RecordsInv, NEW c \in Caller, AppendDue(c), UNCHANGED token
    PROVE  RecordsInv'
<1>1. PICK x : x = call[c]
  OBVIOUS
<1>2. /\ pc[c] = "append" /\ UNCHANGED <<commission, reserve, calls>>
      /\ journal' = journal \/ journal' = Append(journal, x.due)
      /\ \/ Becomes(c, "idle", Call(Nobody, NoFact, "idle", <<>>, 0, {}, NoArgs))
         \/ /\ x.next # "idle"
            /\ Becomes(c, x.next, Call(x.pid, NoFact, "idle", x.log, x.amount, x.left, x.args))
  BY <1>1, AppendDueIs DEF services
<1>3. Remembered'
  BY <1>2 DEF RecordsInv, Remembered, token, registry
<1>4. IsRecord(x.due, calls')
  BY <1>1, <1>2, CallIsOk
<1>5. journal' = journal \/ \E r : journal' = Append(journal, r) /\ IsRecord(r, calls')
  BY <1>2, <1>4
<1>6. CASE Becomes(c, "idle", Call(Nobody, NoFact, "idle", <<>>, 0, {}, NoArgs))
  BY <1>2, <1>3, <1>5, <1>6, EndsRecords, CallsStay
<1>7. CASE /\ x.next # "idle"
           /\ Becomes(c, x.next, Call(x.pid, NoFact, "idle", x.log, x.amount, x.left, x.args))
  <2>1. x.next \in {"pay", "remint"}
    BY <1>1, <1>2, <1>7, CallIsOk DEF CallOk
  <2>2. x.next = "remint" => x.args.then = "burn"
    <3>1. x.pid \in Minted => x.next \in {"pay", "idle"}
      BY <1>1, <1>2, CallIsOk DEF CallOk
    <3>2. x.next = "remint" => Owes(c, "released")
      BY <1>1, <1>2, <3>1, CallIsOk DEF Asked, Owes
    <3> QED
      BY <1>1, <3>2, CallIsOk DEF Asked, Releasing
  <2>3. PICK y : y = Call(x.pid, NoFact, "idle", x.log, x.amount, x.left, x.args)
    OBVIOUS
  <2>4. /\ y.pid = x.pid /\ y.due = NoFact /\ y.log = x.log /\ y.amount = x.amount
        /\ y.left = x.left /\ y.args = x.args
    BY <2>3, CallShape
  <2>5. IsRecord(y.due, calls)
    BY <2>4, NothingDue
  <2> QED
    BY <1>1, <1>2, <1>3, <1>5, <1>7, <2>1, <2>2, <2>3, <2>4, <2>5, GoesRecords
<1> QED
  BY <1>2, <1>6, <1>7

LEMMA AppendFailsRecords ==
    ASSUME SettleInv, RecordsInv, NEW c \in Caller, AppendFails(c), UNCHANGED token
    PROVE  RecordsInv'
<1>1. /\ UNCHANGED <<journal, commission, reserve, calls>> /\ Stop(c)
  BY DEF AppendFails, services
<1>2. Becomes(c, "idle", Call(Nobody, NoFact, "idle", <<>>, 0, {}, NoArgs))
  BY <1>1, StopIs
<1>3. Remembered'
  BY <1>1 DEF RecordsInv, Remembered, token, registry
<1> QED
  BY <1>1, <1>2, <1>3, EndsRecords, CallsStay


\* Steps of the release.
LEMMA ClaimRecords ==
    ASSUME SettleInv, RecordsInv, NEW c \in Caller, Claim(c)
    PROVE  RecordsInv'
<1>1. PICK x, m, f : x = call[c] /\ m = x.args.amount /\ f = Fact("released", x.pid, Nobody, m)
  OBVIOUS
<1>2. /\ pc[c] = "claim" /\ UNCHANGED <<journal, commission, calls, token>>
      /\ \/ UNCHANGED reserve /\ Becomes(c, "idle", Call(Nobody, NoFact, "idle", <<>>, 0, {}, NoArgs))
         \/ /\ reserve' = [reserve EXCEPT !.own = @ - m]
            /\ Becomes(c, "append", Call(x.pid, f, "remint", x.log, x.amount, x.left, x.args))
  BY <1>1, ClaimIs
<1>3. CASE UNCHANGED reserve /\ Becomes(c, "idle", Call(Nobody, NoFact, "idle", <<>>, 0, {}, NoArgs))
  <2>1. Remembered'
    BY <1>2, <1>3 DEF RecordsInv, Remembered, token, registry
  <2> QED
    BY <1>2, <1>3, <2>1, EndsRecords, CallsStay
<1>4. CASE /\ reserve' = [reserve EXCEPT !.own = @ - m]
           /\ Becomes(c, "append", Call(x.pid, f, "remint", x.log, x.amount, x.left, x.args))
  <2>1. x.args.then = "burn" /\ x.pid \notin Minted /\ x.left \subseteq Node
    BY <1>1, <1>2, CallIsOk DEF CallOk, SettlementPc, Asked, Releasing
  <2>2. m \in Nat /\ x.pid = <<c, calls[c]>> /\ calls[c] \in Nat \ {0}
    BY <1>1, <2>1, ReleaseArgs DEF IsRelease
  <2>3. /\ reserve'.own = reserve.own - m /\ reserve'.volume = reserve.volume
        /\ reserve'.accrued = reserve.accrued
    BY <1>4 DEF SettleInv, IsReserve
  <2>4. Remembered'
    BY <1>2, <2>2, <2>3 DEF RecordsInv, Remembered, token, registry
  <2>5. f.fact = "released" /\ f.pid = x.pid /\ f.amount = m
    BY <1>1, FactShape
  <2>6. IsRecord(f, calls)
    BY <2>2, <2>5 DEF IsRecord, SettlementFact
  <2> QED
    BY <1>1, <1>2, <1>4, <2>1, <2>4, <2>5, <2>6, OwesRecords DEF ReleaseFact, SettlementFact
<1> QED
  BY <1>2, <1>3, <1>4

\* A release burns ...
LEMMA BurnRecords ==
    ASSUME SettleInv, RecordsInv, NEW c \in Caller, Burn(c)
    PROVE  RecordsInv'
<1>1. PICK x, h, m, f : /\ x = call[c] /\ h = x.args.holder /\ m = x.args.before
                        /\ f = Fact("burn", x.pid, h, m)
  OBVIOUS
<1>2. /\ pc[c] = "burn" /\ UNCHANGED <<commission, reserve, calls, value, holderIds>>
      /\ \/ /\ UNCHANGED <<journal, balances>>
            /\ Becomes(c, "idle", Call(Nobody, NoFact, "idle", <<>>, 0, {}, NoArgs))
         \/ /\ ~(balances[h] < m) /\ balances' = [balances EXCEPT ![h] = @ - m]
            /\ journal' = Append(journal, f)
            /\ Becomes(c, "child", x)
  BY <1>1, BurnIs DEF services, registry
<1>3. cold' \in BOOLEAN
  BY DEF Burn
<1>4. CASE /\ UNCHANGED <<journal, balances>>
           /\ Becomes(c, "idle", Call(Nobody, NoFact, "idle", <<>>, 0, {}, NoArgs))
  <2>1. Remembered'
    BY <1>2, <1>3, <1>4 DEF RecordsInv, Remembered
  <2> QED
    BY <1>2, <1>4, <2>1, EndsRecords, CallsStay
<1>5. CASE /\ ~(balances[h] < m) /\ balances' = [balances EXCEPT ![h] = @ - m]
           /\ journal' = Append(journal, f)
           /\ Becomes(c, "child", x)
  <2>1. x.args.then = "burn"
    BY <1>1, <1>2, CallIsOk DEF Asked, Releasing
  <2>2. /\ m \in Nat /\ h \in Holder /\ x.pid = <<c, calls[c]>> /\ calls[c] \in Nat \ {0}
    BY <1>1, <2>1, ReleaseArgs DEF IsRelease
  <2>3. balances' \in [Holder -> Nat]
    BY <1>5, <2>2 DEF RecordsInv, Remembered
  <2>4. Remembered'
    BY <1>2, <1>3, <2>3 DEF RecordsInv, Remembered
  <2>5. f.fact = "burn" /\ f.pid = x.pid /\ f.amount = m
    BY <1>1, FactShape
  <2>6. IsRecord(f, calls')
    BY <1>2, <2>2, <2>5 DEF IsRecord, SettlementFact
  <2> QED
    BY <1>1, <1>2, <1>5, <2>1, <2>4, <2>6, GoesOnRecords
<1> QED
  BY <1>2, <1>4, <1>5

\* ... and mints the rest.
LEMMA RemintRecords ==
    ASSUME SettleInv, RecordsInv, NEW c \in Caller, Remint(c)
    PROVE  RecordsInv'
<1>1. PICK x, h, m, rest, f, r :
        /\ x = call[c] /\ h = x.args.holder /\ m = x.args.amount /\ rest = x.args.before - m
        /\ f = Fact("release", x.pid, h, m) /\ r = Fact("remint", x.pid, h, rest)
  OBVIOUS
<1>2. /\ pc[c] = "remint" /\ UNCHANGED <<commission, reserve, calls, cold, value, holderIds>>
      /\ \/ UNCHANGED <<journal, balances>>
         \/ /\ balances' = [balances EXCEPT ![h] = @ + rest]
            /\ journal' = Append(journal, r)
      /\ Becomes(c, "append", Call(x.pid, f, "idle", x.log, x.amount, x.left, x.args))
  BY <1>1, RemintIs DEF services, registry
<1>3. x.args.then = "burn" /\ x.pid \notin Minted /\ x.left \subseteq Node
  BY <1>1, <1>2, CallIsOk DEF CallOk, SettlementPc, Asked, Releasing
<1>4. /\ m \in Nat /\ rest \in Nat /\ h \in Holder
      /\ x.pid = <<c, calls[c]>> /\ calls[c] \in Nat \ {0}
  BY <1>1, <1>3, ReleaseArgs DEF IsRelease
<1>5. Remembered'
  <2>1. balances' \in [Holder -> Nat]
    BY <1>2, <1>4 DEF RecordsInv, Remembered
  <2> QED
    BY <1>2, <2>1 DEF RecordsInv, Remembered
<1>6. /\ f.fact = "release" /\ f.pid = x.pid /\ f.amount = m
      /\ r.fact = "remint" /\ r.pid = x.pid /\ r.amount = rest
  BY <1>1, FactShape
<1>7. IsRecord(f, calls) /\ IsRecord(r, calls')
  BY <1>2, <1>4, <1>6 DEF IsRecord, SettlementFact
<1> QED
  BY <1>1, <1>2, <1>3, <1>5, <1>6, <1>7, OwesRecords DEF ReleaseFact, SettlementFact
-----------------------------------------------------------------------------
\* The other operations of the token: what they leave it with.
LEMMA RevalueKeeps ==
    ASSUME SettleInv, RecordsInv, NEW c \in Caller, Revalue(c)
    PROVE  balances' \in Balances /\ cold' = FALSE /\ UNCHANGED registry
<1>1. PICK a : a = call[c].args
  OBVIOUS
<1>2. pc[c] = "reval" /\ cold' = FALSE /\ UNCHANGED registry
  BY DEF Revalue
<1>3. balances \in Balances
  BY DEF RecordsInv, Remembered, Balances
<1>4. CASE UNCHANGED balances
  BY <1>2, <1>3, <1>4
<1>5. CASE ~UNCHANGED balances
  <2>1. PICK order \in Orders(balances) :
          balances' = Apply(balances, Allocations(balances, order, a.previous, a.new)).balances
    BY <1>1, <1>5 DEF Revalue
  <2>2. a.then = "reval"
    BY <1>1, <1>2, CallIsOk DEF Asked
  <2>3. a.previous \in Nat \ {0} /\ a.new \in Nat
    BY <1>1, <2>2, RevaluationArgs, RequestsAssumption DEF IsRevaluation
  <2>4. Allocations(balances, order, a.previous, a.new) \in Seq(Entry)
    BY <1>3, <2>3, AllocationsAre
  <2>5. Apply(balances, Allocations(balances, order, a.previous, a.new)) \in Result
    BY <1>3, <2>4, ApplyKeeps
  <2> QED
    BY <1>2, <2>1, <2>5 DEF Result
<1> QED
  BY <1>4, <1>5

\* Verdicts, revaluations and transfers.
LEMMA OthersRecords ==
    ASSUME SettleInv, RecordsInv, NEW c \in Caller,
           Verdict(c) \/ Revalue(c) \/ SetValue(c) \/ Transfer(c) \/ SetHolders(c)
    PROVE  RecordsInv'
<1>1. UNCHANGED <<journal, commission, reserve, calls>>
  BY OthersAre DEF services
<1>2. Remembered'
  <2>1. CASE Verdict(c)
    BY <1>1, <2>1 DEF Verdict, RecordsInv, Remembered, token, registry
  <2>2. CASE Revalue(c)
    BY <1>1, <2>2, RevalueKeeps DEF RecordsInv, Remembered, registry, Balances
  <2>3. CASE SetValue(c)
    <3>1. pc[c] = "value" /\ value' = [value EXCEPT ![call[c].args.asset] = call[c].args.new]
          /\ UNCHANGED <<balances, cold, holderIds>>
      BY <2>3 DEF SetValue
    <3>2. call[c].args.asset \in Minted /\ call[c].args.new \in Value
      BY <3>1, CallIsOk, RevaluationArgs DEF Asked, IsRevaluation
    <3> QED
      BY <1>1, <3>1, <3>2 DEF RecordsInv, Remembered
  <2>4. CASE Transfer(c)
    <3>1. PICK a : a = call[c].args
      OBVIOUS
    <3>2. /\ pc[c] = "transfer" /\ UNCHANGED <<value, holderIds>> /\ cold' = FALSE
          /\ \/ UNCHANGED balances
             \/ /\ ~(balances[a.from] < a.amount)
                /\ balances' = [balances EXCEPT ![a.from] = @ - a.amount, ![a.to] = @ + a.amount]
      BY <2>4, <3>1 DEF Transfer, registry
    <3>3. a.from \in Holder /\ a.to \in Holder /\ a.from # a.to /\ a.amount \in Nat
      BY <3>1, <3>2, CallIsOk, TransferArgs DEF Asked, IsTransfer
    <3>4. balances \in [Holder -> Nat]
      BY DEF RecordsInv, Remembered
    <3>5. balances' \in [Holder -> Nat]
      BY <3>2, <3>3, <3>4
    <3> QED
      BY <1>1, <3>2, <3>5 DEF RecordsInv, Remembered
  <2>5. CASE SetHolders(c)
    <3>1. PICK a : a = call[c].args
      OBVIOUS
    <3>2. /\ pc[c] = "holders" /\ UNCHANGED <<balances, cold, value>>
          /\ holderIds' = [holderIds EXCEPT ![a.asset] = (@ \ {a.from}) \cup {a.to}]
      BY <2>5, <3>1 DEF SetHolders
    <3>3. a.asset \in Minted /\ a.to \in Holder
      BY <3>1, <3>2, CallIsOk, TransferArgs DEF Asked, IsTransfer
    <3>4. holderIds' \in [Minted -> SUBSET Holder]
      BY <3>2, <3>3 DEF RecordsInv, Remembered
    <3> QED
      BY <1>1, <3>2, <3>4 DEF RecordsInv, Remembered
  <2> QED
    BY <2>1, <2>2, <2>3, <2>4, <2>5
<1>3. PICK then : then = call[c].args.then
  OBVIOUS
<1>4. /\ pc[c] # "idle"
      /\ \/ Becomes(c, "idle", Call(Nobody, NoFact, "idle", <<>>, 0, {}, NoArgs))
         \/ pc[c] = "verdict" /\ Becomes(c, then, call[c])
         \/ pc[c] = "reval" /\ Becomes(c, "value", call[c])
         \/ pc[c] = "transfer" /\ Becomes(c, "holders", call[c])
  BY <1>3, OthersAre
<1>5. CASE Becomes(c, "idle", Call(Nobody, NoFact, "idle", <<>>, 0, {}, NoArgs))
  BY <1>1, <1>2, <1>5, EndsRecords, CallsStay
<1>6. CASE pc[c] = "verdict" /\ Becomes(c, then, call[c])
  <2>1. then \in {"burn", "reval", "transfer"}
    BY <1>3, <1>6, CallIsOk DEF CallOk, SettlementPc
  <2> QED
    BY <1>1, <1>2, <1>3, <1>6, <2>1, GoesOnRecords
<1>7. CASE pc[c] = "reval" /\ Becomes(c, "value", call[c])
  <2>1. call[c].args.then = "reval"
    BY <1>7, CallIsOk DEF Asked
  <2> QED
    BY <1>1, <1>2, <1>7, <2>1, GoesOnRecords
<1>8. CASE pc[c] = "transfer" /\ Becomes(c, "holders", call[c])
  <2>1. call[c].args.then = "transfer"
    BY <1>8, CallIsOk DEF Asked
  <2> QED
    BY <1>1, <1>2, <1>8, <2>1, GoesOnRecords
<1> QED
  BY <1>4, <1>5, <1>6, <1>7, <1>8
-----------------------------------------------------------------------------
\* What begins.
LEMMA BeginningsRecords ==
    ASSUME SettleInv, RecordsInv, NEW c \in Caller,
           \/ \E p \in Minted : Settle(c, p) /\ UNCHANGED token
           \/ Status(c) /\ UNCHANGED token
           \/ \E h \in Holder, amount \in Amount : AskRelease(c, h, amount)
           \/ \E p \in Minted, new \in Value : AskRevaluation(c, p, new)
           \/ \E p \in Minted, from, to \in Holder, amount \in Amount :
                AskTransfer(c, p, from, to, amount)
    PROVE  RecordsInv'
<1>1. ASSUME NEW args, Ask(c, args), IsArgs(args), args.then # "none"
      PROVE  RecordsInv'
  <2>1. /\ calls' = [calls EXCEPT ![c] = @ + 1] /\ UNCHANGED <<journal, commission, reserve, token>>
        /\ Becomes(c, "verdict", Call(Own(c), NoFact, "idle", <<>>, 0, {}, args))
    BY <1>1, AskIs DEF services
  <2>2. PICK n \in Nat : n = 0
    OBVIOUS
  <2>3. Becomes(c, "verdict", Call(Own(c), NoFact, "idle", <<>>, n, {}, args))
    BY <2>1, <2>2
  <2> QED
    BY <1>1, <2>1, <2>3, BeginsRecords
<1>2. ASSUME NEW p \in Minted, Settle(c, p), UNCHANGED token PROVE RecordsInv'
  <2>1. /\ calls' = [calls EXCEPT ![c] = @ + 1] /\ UNCHANGED <<journal, commission, reserve>>
        /\ Becomes(c, "settle", Call(p, NoFact, "idle", <<>>, 0, {}, NoArgs))
    BY <1>2, BeginIs DEF Settle, services
  <2>2. PICK n \in Nat : n = 0
    OBVIOUS
  <2>3. Becomes(c, "settle", Call(p, NoFact, "idle", <<>>, n, {}, NoArgs))
    BY <2>1, <2>2
  <2> QED
    BY <1>2, <2>1, <2>3, BeginsRecords, NothingDue
<1>3. ASSUME Status(c), UNCHANGED token PROVE RecordsInv'
  <2>1. /\ calls' = [calls EXCEPT ![c] = @ + 1] /\ UNCHANGED <<journal, commission, reserve>>
        /\ Becomes(c, "velocity", Call(Nobody, NoFact, "idle", <<>>, reserve.volume, {}, NoArgs))
    BY <1>3, StatusIs DEF services
  <2>2. reserve.volume \in Nat
    BY DEF RecordsInv, Remembered
  <2> QED
    BY <1>3, <2>1, <2>2, BeginsRecords, NothingDue
<1>4. ASSUME NEW h \in Holder, NEW amount \in Amount, AskRelease(c, h, amount) PROVE RecordsInv'
  <2>1. PICK args : args = [then |-> "burn", holder |-> h, amount |-> amount, before |-> balances[h]]
    OBVIOUS
  <2>2. Ask(c, args) /\ balances[h] >= amount
    BY <1>4, <2>1 DEF AskRelease
  <2>3. balances[h] \in Nat /\ amount \in Nat
    BY RequestsAssumption DEF RecordsInv, Remembered
  <2>4. IsArgs(args) /\ args.then # "none"
    BY <2>1, <2>2, <2>3 DEF IsArgs, IsRelease
  <2> QED
    BY <1>1, <2>2, <2>4
<1>5. ASSUME NEW p \in Minted, NEW new \in Value, AskRevaluation(c, p, new) PROVE RecordsInv'
  <2>1. PICK args : args = [then |-> "reval", asset |-> p, previous |-> value[p], new |-> new]
    OBVIOUS
  <2>2. Ask(c, args) /\ value[p] > 0
    BY <1>5, <2>1 DEF AskRevaluation
  <2>3. value[p] \in Nat
    BY RequestsAssumption, AmountsAssumption DEF RecordsInv, Remembered
  <2>4. IsArgs(args) /\ args.then # "none"
    BY <2>1, <2>2, <2>3 DEF IsArgs, IsRevaluation
  <2> QED
    BY <1>1, <2>2, <2>4
<1>6. ASSUME NEW p \in Minted, NEW from \in Holder, NEW to \in Holder, NEW amount \in Amount,
             AskTransfer(c, p, from, to, amount)
      PROVE  RecordsInv'
  <2>1. PICK args : args = [then |-> "transfer", asset |-> p, from |-> from, to |-> to, amount |-> amount]
    OBVIOUS
  <2>2. Ask(c, args) /\ from # to
    BY <1>6, <2>1 DEF AskTransfer
  <2>3. amount \in Nat
    BY RequestsAssumption
  <2>4. IsArgs(args) /\ args.then # "none"
    BY <2>1, <2>2, <2>3 DEF IsArgs, IsTransfer
  <2> QED
    BY <1>1, <2>2, <2>4
<1> QED
  BY <1>2, <1>3, <1>4, <1>5, <1>6


\* An idle call.
LEMMA NoCallIs ==
    /\ NoCall.pid = Nobody /\ NoCall.due = NoFact /\ NoCall.next = "idle" /\ NoCall.log = <<>>
    /\ NoCall.amount = 0 /\ NoCall.left = {} /\ NoCall.args = NoArgs
BY DEF NoCall

\* A restart.
LEMMA RestartRecords ==
    ASSUME SettleInv, RecordsInv, Restart
    PROVE  RecordsInv'
<1>1. /\ journal' = journal /\ calls' = calls /\ balances' = balances /\ cold' = TRUE
      /\ pc' = [c \in Caller |-> "idle"] /\ call' = [c \in Caller |-> NoCall]
      /\ commission' = ColdCommission /\ reserve' = ColdReserve
      /\ value' = [p \in Minted |-> 0] /\ holderIds' = [p \in Minted |-> {}]
  BY DEF Restart, SettlementRestart
<1>2. Remembered'
  <2>1. /\ IsCommission(commission') /\ reserve'.own = 0 /\ reserve'.volume = 0
        /\ reserve'.accrued = {}
    BY <1>1, ColdIs
  <2>2. value' \in [Minted -> Value \cup {0, Volume}] /\ holderIds' \in [Minted -> SUBSET Holder]
    BY <1>1
  <2> QED
    BY <1>1, <2>1, <2>2 DEF RecordsInv, Remembered
<1>3. ASSUME NEW c \in Caller PROVE CallRecords(c)'
  <2>1. pc'[c] = "idle" /\ call'[c] = NoCall
    BY <1>1
  <2>2. Count(journal', "accrual") \in Nat
    BY <1>1, JournalIsLog, LogAmounts DEF SettleInv, RecordsInv, IsLog
  <2>3. Asked(c)'
    BY <2>1, NoCallIs, NothingDue DEF Asked, Releasing, Owes
  <2>4. IsLog(<<>>) /\ Count(<<>>, "accrual") <= Count(journal', "accrual")
    BY <2>2, EmptyIsLog
  <2> QED
    BY <2>1, <2>3, <2>4, NoCallIs, NothingDue DEF CallRecords
<1> QED
  BY <1>1, <1>2, <1>3 DEF RecordsInv

\* RecordsInv holds at first ...
LEMMA InitRecords == Init => RecordsInv
<1> SUFFICES ASSUME Init PROVE RecordsInv
  OBVIOUS
<1>1. /\ journal = <<>> /\ cold = FALSE
      /\ balances = [h \in Holder |-> Volume * Cardinality({p \in Minted : Owner[p] = h})]
      /\ pc = [c \in Caller |-> "idle"] /\ call = [c \in Caller |-> NoCall]
      /\ commission = ColdCommission /\ reserve = ColdReserve
      /\ value = [p \in Minted |-> Volume] /\ holderIds = [p \in Minted |-> {Owner[p]}]
  BY DEF Init, SettlementInit
<1>2. Remembered
  <2>1. balances \in [Holder -> Nat]
    <3>1. ASSUME NEW h \in Holder PROVE Volume * Cardinality({p \in Minted : Owner[p] = h}) \in Nat
      <4>1. IsFiniteSet({p \in Minted : Owner[p] = h})
        BY FiniteAssumption, FS_Subset
      <4>2. Cardinality({p \in Minted : Owner[p] = h}) \in Nat
        BY <4>1, FS_CardinalityType
      <4> QED
        BY <4>2, AmountsAssumption
    <3> QED
      BY <1>1, <3>1
  <2>2. value \in [Minted -> Value \cup {0, Volume}] /\ holderIds \in [Minted -> SUBSET Holder]
    BY <1>1, OwnerAssumption
  <2>3. /\ IsCommission(commission) /\ reserve.own = 0 /\ reserve.volume = 0
        /\ reserve.accrued = {}
    BY <1>1, ColdIs
  <2>4. reserve.own \in Int /\ reserve.volume \in Nat /\ reserve.accrued \subseteq Minted
    BY <2>3
  <2>5. cold \in BOOLEAN
    BY <1>1
  <2> QED
    BY <2>1, <2>2, <2>3, <2>4, <2>5 DEF Remembered
<1>3. ASSUME NEW c \in Caller PROVE CallRecords(c)
  <2>1. pc[c] = "idle" /\ call[c] = NoCall
    BY <1>1
  <2>2. Asked(c)
    BY <2>1, NoCallIs, NothingDue DEF Asked, Releasing, Owes
  <2>3. IsLog(<<>>) /\ Count(<<>>, "accrual") <= Count(journal, "accrual")
    BY <1>1, EmptyIsLog
  <2> QED
    BY <2>1, <2>2, <2>3, NoCallIs, NothingDue DEF CallRecords
<1> QED
  BY <1>1, <1>2, <1>3 DEF RecordsInv

\* ... and every step keeps it.
LEMMA NextRecords ==
    ASSUME SettleInv, RecordsInv, Next
    PROVE  RecordsInv'
<1>1. ASSUME NEW c \in Caller, SettlementStep(c), UNCHANGED token PROVE RecordsInv'
  BY <1>1, LoadCommissionRecords, HydrateCommissionRecords, CheckSettledRecords, PayNodeRecords,
     LoadReserveRecords, HydrateReserveRecords, AccrueRecords, TickRecords, AppendDueRecords
  DEF SettlementStep
<1>2. ASSUME NEW c \in Caller,
             \/ LoadReserve(c, "child", "claim") /\ UNCHANGED token
             \/ AppendFails(c) /\ UNCHANGED token
             \/ Claim(c) \/ Burn(c) \/ Remint(c)
             \/ Verdict(c) \/ Revalue(c) \/ SetValue(c) \/ Transfer(c) \/ SetHolders(c)
      PROVE  RecordsInv'
  BY <1>2, LoadReserveRecords, AppendFailsRecords, ClaimRecords, BurnRecords, RemintRecords, OthersRecords
<1>3. ASSUME NEW c \in Caller,
             \/ \E p \in Minted : Settle(c, p) /\ UNCHANGED token
             \/ Status(c) /\ UNCHANGED token
             \/ \E h \in Holder, amount \in Amount : AskRelease(c, h, amount)
             \/ \E p \in Minted, new \in Value : AskRevaluation(c, p, new)
             \/ \E p \in Minted, from, to \in Holder, amount \in Amount :
                    AskTransfer(c, p, from, to, amount)
      PROVE  RecordsInv'
  BY <1>3, BeginningsRecords
<1> QED
  BY <1>1, <1>2, <1>3, RestartRecords DEF Next

\* What is journalled, due, read, asked for and remembered stays of the kind it should be.
THEOREM RecordsInvariance == Spec => [](SettleInv /\ RecordsInv)
<1>1. SettleInv /\ RecordsInv /\ UNCHANGED vars => RecordsInv'
  <2> SUFFICES ASSUME RecordsInv, UNCHANGED vars PROVE RecordsInv'
    OBVIOUS
  <2>1. UNCHANGED <<journal, commission, reserve, pc, call, calls, balances, cold, value, holderIds>>
    BY DEF vars, settlementVars, services, running, token, registry
  <2>2. Remembered'
    BY <2>1 DEF RecordsInv, Remembered
  <2>3. \A c \in Caller : CallRecords(c)'
    BY <2>1 DEF RecordsInv, CallRecords, Asked, Releasing, Owes
  <2> QED
    BY <2>1, <2>2, <2>3 DEF RecordsInv
<1> QED
  BY <1>1, InitRecords, NextRecords, SettleInvariance, PTL DEF Spec

\* The types hold, and balances stay amounts: no debit goes below zero.
THEOREM TypesHold == Spec => []TypeOK
<1>1. SettleInv /\ RecordsInv => TypeOK
  <2> SUFFICES ASSUME SettleInv, RecordsInv PROVE TypeOK
    OBVIOUS
  <2>1. \A c \in Caller : pc[c] \in SettlementPc \cup OperationPc \cup {"idle"}
    BY DEF SettleInv, CallOk
  <2> QED
    BY <2>1 DEF TypeOK, RecordsInv, Remembered, IsCommission, SettlementPc, OperationPc
<1> QED
  BY <1>1, RecordsInvariance, PTL


(***************************************************************************)
(* The steps that neither the commission, the reserve nor the daemon take  *)
(* part in.                                                                *)
(***************************************************************************)
Plain(c) ==
    LET x == call[c]
        y == call'[c] IN
    /\ UNCHANGED <<commission, reserve, active, faults, history>>
    /\ journal' = journal \/ \E r : journal' = Append(journal, r) /\ r.fact \in {"burn", "remint"}
    /\ Becomes(c, pc'[c], y) /\ x.pid \notin Minted /\ y.pid \notin Minted
    /\ pc[c] \in {"idle", "verdict", "burn", "remint", "reval", "value", "transfer", "holders"}
    /\ pc'[c] \in {"idle", "verdict", "burn", "child", "reval", "value", "transfer", "holders", "append"}
    /\ pc'[c] = "append" => y.due.fact = "release" /\ pc[c] = "remint"
    /\ pc'[c] # "append" /\ y.args.then = "burn" =>
        \/ y.pid = x.pid /\ x.args = y.args /\ pc[c] # "remint"
        \/ y.pid = Own(c)

\* A call that ends is plain.
LEMMA PlainEnds ==
    ASSUME NEW c \in Caller, Becomes(c, "idle", Call(Nobody, NoFact, "idle", <<>>, 0, {}, NoArgs))
    PROVE  /\ pc'[c] = "idle" /\ Becomes(c, pc'[c], call'[c])
           /\ call'[c].pid = Nobody /\ call'[c].args.then = "none" /\ Nobody \notin Minted
           /\ call'[c].due = NoFact
<1>1. PICK x : x = Call(Nobody, NoFact, "idle", <<>>, 0, {}, NoArgs)
  OBVIOUS
<1>2. x.pid = Nobody /\ x.args = NoArgs /\ x.due = NoFact
  BY <1>1, CallShape
<1> QED
  BY <1>1, <1>2, NothingDue, FreshAssumption DEF Becomes

\* The steps of the token are plain: what is asked, ...
LEMMA AskIsPlain ==
    ASSUME SettleInv, RecordsInv, NEW c \in Caller, NEW args, Ask(c, args)
    PROVE  Plain(c)
<1>1. PICK x : x = Call(Own(c), NoFact, "idle", <<>>, 0, {}, args)
  OBVIOUS
<1>2. x.pid = Own(c) /\ x.args = args
  BY <1>1, CallShape
<1>3. /\ pc[c] = "idle" /\ calls[c] < MaxCalls /\ Becomes(c, "verdict", x)
      /\ UNCHANGED <<journal, services, faults, history, token>>
  BY <1>1, AskIs
<1>4. calls[c] + 1 \in 1..MaxCalls /\ call[c].pid = Nobody
  BY <1>3, AmountsAssumption DEF SettleInv, CallOk
<1>5. Own(c) \notin Minted /\ Nobody \notin Minted
  BY <1>4, FreshAssumption DEF Own
<1>6. call'[c] = x /\ pc'[c] = "verdict"
  BY <1>3 DEF Becomes
<1> QED
  BY <1>2, <1>3, <1>4, <1>5, <1>6 DEF Plain, services

\* ... a burn, ...
LEMMA BurnIsPlain ==
    ASSUME SettleInv, RecordsInv, NEW c \in Caller, Burn(c)
    PROVE  Plain(c)
<1>1. PICK x, h, m, f : /\ x = call[c] /\ h = x.args.holder /\ m = x.args.before
                        /\ f = Fact("burn", x.pid, h, m)
  OBVIOUS
<1>2. /\ pc[c] = "burn" /\ UNCHANGED <<services, faults, history>>
      /\ \/ /\ UNCHANGED journal
            /\ Becomes(c, "idle", Call(Nobody, NoFact, "idle", <<>>, 0, {}, NoArgs))
         \/ /\ journal' = Append(journal, f)
            /\ Becomes(c, "child", x)
  BY <1>1, BurnIs
<1>3. x.pid \notin Minted
  BY <1>1, <1>2, CallIsOk DEF CallOk, SettlementPc
<1>4. CASE UNCHANGED journal /\ Becomes(c, "idle", Call(Nobody, NoFact, "idle", <<>>, 0, {}, NoArgs))
  BY <1>1, <1>2, <1>3, <1>4, PlainEnds DEF Plain, services
<1>5. CASE journal' = Append(journal, f) /\ Becomes(c, "child", x)
  <2>1. call'[c] = x /\ pc'[c] = "child"
    BY <1>5 DEF Becomes
  <2>2. f.fact = "burn"
    BY <1>1, FactShape
  <2> QED
    BY <1>1, <1>2, <1>3, <1>5, <2>1, <2>2 DEF Plain, services
<1> QED
  BY <1>2, <1>4, <1>5

\* ... a remint ...
LEMMA RemintIsPlain ==
    ASSUME SettleInv, RecordsInv, NEW c \in Caller, Remint(c)
    PROVE  Plain(c)
<1>1. PICK x, h, rest, f, r, y :
        /\ x = call[c] /\ h = x.args.holder /\ rest = x.args.before - x.args.amount
        /\ f = Fact("release", x.pid, h, x.args.amount) /\ r = Fact("remint", x.pid, h, rest)
        /\ y = Call(x.pid, f, "idle", x.log, x.amount, x.left, x.args)
  OBVIOUS
<1>2. /\ pc[c] = "remint" /\ UNCHANGED <<services, faults, history>>
      /\ UNCHANGED journal \/ journal' = Append(journal, r)
      /\ Becomes(c, "append", y)
  BY <1>1, RemintIs
<1>3. x.pid \notin Minted
  BY <1>1, <1>2, CallIsOk DEF CallOk, SettlementPc
<1>4. y.pid = x.pid /\ y.due = f /\ f.fact = "release" /\ r.fact = "remint"
  BY <1>1, CallShape, FactShape
<1>5. call'[c] = y /\ pc'[c] = "append"
  BY <1>2 DEF Becomes
<1> QED
  BY <1>1, <1>2, <1>3, <1>4, <1>5 DEF Plain, services

\* ... and the rest.
LEMMA OthersArePlain ==
    ASSUME SettleInv, RecordsInv, NEW c \in Caller,
           Verdict(c) \/ Revalue(c) \/ SetValue(c) \/ Transfer(c) \/ SetHolders(c)
    PROVE  Plain(c)
<1>1. PICK then, x : x = call[c] /\ then = x.args.then
  OBVIOUS
<1>2. /\ UNCHANGED <<journal, services, faults, history>>
      /\ pc[c] \in {"verdict", "reval", "value", "transfer", "holders"}
      /\ \/ Becomes(c, "idle", Call(Nobody, NoFact, "idle", <<>>, 0, {}, NoArgs))
         \/ pc[c] = "verdict" /\ Becomes(c, then, x)
         \/ pc[c] = "reval" /\ Becomes(c, "value", x)
         \/ pc[c] = "transfer" /\ Becomes(c, "holders", x)
  BY <1>1, OthersAre
<1>3. x.pid \notin Minted
  BY <1>1, <1>2, CallIsOk DEF CallOk, SettlementPc
<1>4. CASE Becomes(c, "idle", Call(Nobody, NoFact, "idle", <<>>, 0, {}, NoArgs))
  BY <1>1, <1>2, <1>3, <1>4, PlainEnds DEF Plain, services
<1>5. ASSUME NEW l \in {"burn", "reval", "transfer", "value", "holders"}, Becomes(c, l, x)
      PROVE  Plain(c)
  <2>1. call'[c] = x /\ pc'[c] = l
    BY <1>5 DEF Becomes
  <2> QED
    BY <1>1, <1>2, <1>3, <1>5, <2>1 DEF Plain, services
<1>6. pc[c] = "verdict" => then \in {"burn", "reval", "transfer"}
  BY <1>1, <1>3, CallIsOk DEF CallOk
<1> QED
  BY <1>2, <1>4, <1>5, <1>6

\* The steps there are.
LEMMA Steps ==
    ASSUME SettleInv, RecordsInv, Next
    PROVE  \/ Restart
           \/ \E c \in Caller :
                \/ LoadCommission(c) \/ HydrateCommission(c) \/ CheckSettled(c) \/ PayNode(c)
                \/ LoadReserve(c, "accrue", "accrued?") \/ LoadReserve(c, "child", "claim")
                \/ HydrateReserve(c) \/ Accrue(c) \/ Tick(c) \/ AppendDue(c) \/ AppendFails(c)
                \/ (\E p \in Minted : Settle(c, p)) \/ Status(c) \/ Claim(c)
                \/ Plain(c)
<1>1. ASSUME NEW c \in Caller, NEW h \in Holder, NEW amount \in Amount, AskRelease(c, h, amount)
      PROVE  Plain(c)
  BY <1>1, AskIsPlain DEF AskRelease
<1>2. ASSUME NEW c \in Caller, NEW p \in Minted, NEW new \in Value, AskRevaluation(c, p, new)
      PROVE  Plain(c)
  BY <1>2, AskIsPlain DEF AskRevaluation
<1>3. ASSUME NEW c \in Caller, NEW p \in Minted, NEW from \in Holder, NEW to \in Holder,
             NEW amount \in Amount, AskTransfer(c, p, from, to, amount)
      PROVE  Plain(c)
  BY <1>3, AskIsPlain DEF AskTransfer
<1> QED
  BY <1>1, <1>2, <1>3, BurnIsPlain, RemintIsPlain, OthersArePlain DEF Next, SettlementStep


(***************************************************************************)
(* FreshInv: what a call owes is not in the journal yet.                   *)
(***************************************************************************)
FreshCall(c) ==
    LET x == call[c] IN
    /\ Owes(c, "commission") => Facts("commission", x.pid) = {} /\ x.left = Node
    /\ Owes(c, "paid") => x.due.who \notin x.left /\ PaidTo(x.pid, x.due.who) = {}
    /\ pc[c] = "pay" \/ Owes(c, "paid") => \A n \in x.left : PaidTo(x.pid, n) = {}
    /\ Owes(c, "accrual") => Facts("accrual", x.pid) = {}

Unreleased(c) ==
    call[c].args.then = "burn" /\ pc[c] # "remint" /\ ~Owes(c, "release") =>
        Facts("released", call[c].pid) = {}

Stated(c) == pc[c] = "pay" \/ Owes(c, "paid") => Facts("commission", call[c].pid) # {}

FreshInv ==
    /\ \A p : Facts("paid", p) # {} => Facts("commission", p) # {}
    /\ \A c \in Caller : Stated(c) /\ Unreleased(c)
    /\ ~raced => /\ \A c \in Caller : FreshCall(c)
                 /\ \A c, d \in Caller : \A p \in Minted : Settling(c, p) /\ Settling(d, p) => c = d

\* A call that settles, by what it is at.
LEMMA SettlesMinted ==
    ASSUME SettleInv, RecordsInv, NEW c \in Caller,
           pc[c] = "pay" \/ \E f \in SettlementFact : Owes(c, f)
    PROVE  call[c].pid \in Minted /\ Settling(c, call[c].pid)
BY DEF SettleInv, CallOk, OperationPc, Owes, Settling


\* The journal has nothing new, or r, which c states of what it is at.
Adds(c, r) ==
    /\ \A f, p : Facts(f, p) \subseteq Facts(f, p)'
    /\ \A f, p : Facts(f, p)' = Facts(f, p) \/ (r.fact = f /\ r.pid = p)
    /\ \A p, n : PaidTo(p, n)' = PaidTo(p, n) \/ (r.fact = "paid" /\ r.pid = p /\ r.who = n)
    /\ r.fact \in SettlementFact => r.pid = call[c].pid /\ pc[c] # "idle"
    /\ r.fact = "released" => r.pid = <<c, calls[c]>>
    /\ r.fact = "paid" => Facts("commission", r.pid) # {}

\* A step that appends nothing, ...
LEMMA AddsNothing ==
    ASSUME NEW c \in Caller, journal' = journal
    PROVE  Adds(c, NoFact)
<1>1. /\ \A f, p : Facts(f, p)' = Facts(f, p)
      /\ \A p, n : PaidTo(p, n)' = PaidTo(p, n)
  BY DEF Facts, PaidTo
<1> QED
  BY <1>1, NothingDue DEF Adds, SettlementFact

\* ... or one record.
LEMMA AddsRecord ==
    ASSUME SettleInv, NEW c \in Caller, NEW r, journal' = Append(journal, r),
           r.fact \in SettlementFact => r.pid = call[c].pid /\ pc[c] # "idle",
           r.fact = "released" => r.pid = <<c, calls[c]>>,
           r.fact = "paid" => Facts("commission", r.pid) # {}
    PROVE  Adds(c, r)
<1>1. journal \in Seq(ToSet(journal))
  BY DEF SettleInv
<1>2. /\ \A f, p : Facts(f, p)' = IF r.fact = f /\ r.pid = p
                                  THEN Facts(f, p) \cup {Len(journal) + 1} ELSE Facts(f, p)
      /\ \A p, n : PaidTo(p, n)' = IF r.fact = "paid" /\ r.pid = p /\ r.who = n
                                   THEN PaidTo(p, n) \cup {Len(journal) + 1} ELSE PaidTo(p, n)
  BY <1>1, FactsGrow
<1> QED
  BY <1>2 DEF Adds

\* FreshInv, when only one call moved.
LEMMA FreshFrame ==
    ASSUME SettleInv, RecordsInv, FreshInv, NEW c \in Caller, NEW l, NEW x, Becomes(c, l, x),
           NEW r, Adds(c, r), ~raced' => ~raced,
           ~raced' => \A p \in Minted : Settling(c, p)' => \A d \in Caller \ {c} : ~Settling(d, p),
           Stated(c)', Unreleased(c)', ~raced' => FreshCall(c)'
    PROVE  FreshInv'
<1>1. ASSUME NEW p, Facts("paid", p)' # {} PROVE Facts("commission", p)' # {}
  <2>1. Facts("commission", p) # {}
    BY <1>1 DEF Adds, FreshInv
  <2> QED
    BY <2>1 DEF Adds
<1>2. \A d \in Caller \ {c} : pc'[d] = pc[d] /\ call'[d] = call[d]
  BY DEF Becomes
<1>3. ASSUME NEW d \in Caller \ {c} PROVE Stated(d)' /\ Unreleased(d)'
  <2>0. PICK p : p = call[d].pid
    OBVIOUS
  <2>1. Stated(d) /\ Unreleased(d)
    BY DEF FreshInv
  <2>2. Stated(d)'
    <3>1. Facts("commission", p) \subseteq Facts("commission", p)'
      BY DEF Adds
    <3> QED
      BY <1>2, <2>0, <2>1, <3>1 DEF Stated, Owes
  <2>3. Unreleased(d)'
    <3>1. call[d].args.then = "burn" => p = <<d, calls[d]>>
      BY <2>0, ReleaseArgs
    <3>2. p = <<d, calls[d]>> => Facts("released", p)' = Facts("released", p)
      BY DEF Adds
    <3> QED
      BY <1>2, <2>0, <2>1, <3>1, <3>2 DEF Unreleased, Owes
  <2> QED
    BY <2>2, <2>3
<1>4. ASSUME ~raced', NEW d \in Caller \ {c} PROVE FreshCall(d)'
  <2>1. ~raced /\ FreshCall(d)
    BY <1>4 DEF FreshInv
  <2>2. PICK p : p = call[d].pid
    OBVIOUS
  <2>3. CASE Settling(d, p) /\ p \in Minted
    <3>1. ~Settling(c, p)
      BY <2>1, <2>3 DEF FreshInv
    <3>2. ~(r.fact \in SettlementFact /\ r.pid = p)
      BY <3>1 DEF Adds, Settling
    <3>3. /\ \A f \in SettlementFact : Facts(f, p)' = Facts(f, p)
          /\ \A n : PaidTo(p, n)' = PaidTo(p, n)
      BY <3>2 DEF Adds, SettlementFact
    <3> QED
      BY <1>2, <2>1, <2>2, <3>3 DEF FreshCall, Owes, SettlementFact
  <2>4. CASE ~(Settling(d, p) /\ p \in Minted)
    <3>1. pc[d] # "pay" /\ \A f \in SettlementFact : ~Owes(d, f)
      BY <2>2, <2>4, SettlesMinted
    <3> QED
      BY <1>2, <3>1 DEF FreshCall, Owes, SettlementFact
  <2> QED
    BY <2>3, <2>4
<1>5. ASSUME ~raced', NEW d \in Caller, NEW e \in Caller, NEW p \in Minted,
             Settling(d, p)', Settling(e, p)'
      PROVE  d = e
  <2>1. \A k \in Caller \ {c} : Settling(k, p)' <=> Settling(k, p)
    BY <1>2 DEF Settling
  <2>2. ~raced
    BY <1>5
  <2>3. CASE d = c \/ e = c
    BY <1>5, <2>1, <2>3
  <2>4. CASE d # c /\ e # c
    BY <1>5, <2>1, <2>2, <2>4 DEF FreshInv
  <2> QED
    BY <2>3, <2>4
<1> QED
  BY <1>1, <1>3, <1>4, <1>5 DEF FreshInv


\* A step that journals nothing and owes nothing of a settlement.
LEMMA FreshQuiet ==
    ASSUME SettleInv, RecordsInv, FreshInv, NEW c \in Caller, NEW l, NEW x, Becomes(c, l, x),
           journal' = journal, raced' = raced,
           x.pid \notin Minted \/ (x.pid = call[c].pid /\ pc[c] # "idle"),
           l # "pay", l = "append" => x.due.fact \notin SettlementFact,
           x.args.then = "burn" =>
                /\ x.pid = call[c].pid /\ x.args = call[c].args
                /\ pc[c] # "remint" /\ ~Owes(c, "release")
    PROVE  FreshInv'
<1>1. PICK y : y = call[c]
  OBVIOUS
<1>2. pc'[c] = l /\ call'[c] = x
  BY DEF Becomes
<1>3. Adds(c, NoFact)
  BY AddsNothing
<1>4. Stated(c)' /\ FreshCall(c)'
  BY <1>2 DEF Stated, FreshCall, Owes, SettlementFact
<1>5. Unreleased(c)'
  <2>1. \A f, p : Facts(f, p)' = Facts(f, p)
    BY DEF Facts
  <2>2. Unreleased(c)
    BY DEF FreshInv
  <2>3. x.args.then = "burn" => Facts("released", x.pid) = {}
    BY <2>2 DEF Unreleased
  <2> QED
    BY <1>2, <2>1, <2>3 DEF Unreleased
<1>6. ~raced' => \A p \in Minted : Settling(c, p)' => \A d \in Caller \ {c} : ~Settling(d, p)
  <2>1. \A p \in Minted : Settling(c, p)' => Settling(c, p)
    BY <1>2 DEF Settling
  <2> QED
    BY <2>1 DEF FreshInv
<1> QED
  BY <1>3, <1>4, <1>5, <1>6, FreshFrame

\* A call ends.
LEMMA FreshEnds ==
    ASSUME SettleInv, RecordsInv, FreshInv, NEW c \in Caller,
           Becomes(c, "idle", Call(Nobody, NoFact, "idle", <<>>, 0, {}, NoArgs)),
           journal' = journal, raced' = raced
    PROVE  FreshInv'
<1>1. PICK x : x = Call(Nobody, NoFact, "idle", <<>>, 0, {}, NoArgs)
  OBVIOUS
<1>2. x.pid = Nobody /\ x.args = NoArgs
  BY <1>1, CallShape
<1>3. x.pid \notin Minted /\ x.args.then = "none"
  BY <1>2, FreshAssumption, NothingDue
<1> QED
  BY <1>1, <1>3, FreshQuiet

\* A call goes on with what it has.
LEMMA FreshGoes ==
    ASSUME SettleInv, RecordsInv, FreshInv, NEW c \in Caller, NEW l, NEW x, Becomes(c, l, x),
           journal' = journal, raced' = raced, x.pid = call[c].pid, x.args = call[c].args,
           pc[c] \notin {"idle", "remint", "append"}, l \notin {"pay", "append"}
    PROVE  FreshInv'
BY FreshQuiet DEF Owes

\* A call reads the journal.
LEMMA FreshLoads ==
    ASSUME SettleInv, RecordsInv, FreshInv, NEW c \in Caller,
           \/ LoadCommission(c) \/ HydrateCommission(c)
           \/ LoadReserve(c, "accrue", "accrued?") \/ LoadReserve(c, "child", "claim")
           \/ HydrateReserve(c)
    PROVE  FreshInv'
<1>1. PICK x, j : x = call[c] /\ j = journal
  OBVIOUS
<1>2. journal' = journal /\ raced' = raced
  BY DEF LoadCommission, HydrateCommission, LoadReserve, HydrateReserve, history
<1>3. CASE LoadCommission(c)
  <2>1. /\ pc[c] = "settle"
        /\ \/ Becomes(c, "settled?", x)
           \/ Becomes(c, "cload", Call(x.pid, x.due, x.next, j, x.amount, x.left, x.args))
    BY <1>1, <1>3, LoadCommissionIs
  <2>2. PICK y : y = Call(x.pid, x.due, x.next, j, x.amount, x.left, x.args)
    OBVIOUS
  <2>3. y.pid = x.pid /\ y.args = x.args
    BY <2>2, CallShape
  <2>4. CASE Becomes(c, "settled?", x)
    BY <1>1, <1>2, <2>1, <2>4, FreshGoes
  <2>5. CASE Becomes(c, "cload", y)
    BY <1>1, <1>2, <2>1, <2>3, <2>5, FreshGoes
  <2> QED
    BY <2>1, <2>2, <2>4, <2>5
<1>4. CASE HydrateCommission(c)
  <2>1. /\ pc[c] = "cload"
        /\ Becomes(c, "settled?", Call(x.pid, x.due, x.next, <<>>, x.amount, x.left, x.args))
    BY <1>1, <1>4, HydrateCommissionIs
  <2>2. PICK y : y = Call(x.pid, x.due, x.next, <<>>, x.amount, x.left, x.args)
    OBVIOUS
  <2>3. y.pid = x.pid /\ y.args = x.args
    BY <2>2, CallShape
  <2> QED
    BY <1>1, <1>2, <2>1, <2>2, <2>3, FreshGoes
<1>5. ASSUME NEW at \in {"accrue", "child"}, NEW after \in {"accrued?", "claim"},
             LoadReserve(c, at, after)
      PROVE  FreshInv'
  <2>1. /\ pc[c] = at
        /\ \/ Becomes(c, after, x)
           \/ Becomes(c, "rload", Call(x.pid, x.due, after, j, x.amount, x.left, x.args))
    BY <1>1, <1>5, LoadReserveIs
  <2>2. PICK y : y = Call(x.pid, x.due, after, j, x.amount, x.left, x.args)
    OBVIOUS
  <2>3. y.pid = x.pid /\ y.args = x.args
    BY <2>2, CallShape
  <2>4. CASE Becomes(c, after, x)
    BY <1>1, <1>2, <2>1, <2>4, FreshGoes
  <2>5. CASE Becomes(c, "rload", y)
    BY <1>1, <1>2, <2>1, <2>3, <2>5, FreshGoes
  <2> QED
    BY <2>1, <2>2, <2>4, <2>5
<1>6. CASE HydrateReserve(c)
  <2>1. /\ pc[c] = "rload"
        /\ Becomes(c, x.next, Call(x.pid, x.due, "idle", <<>>, x.amount, x.left, x.args))
    BY <1>1, <1>6, HydrateReserveIs
  <2>2. PICK y : y = Call(x.pid, x.due, "idle", <<>>, x.amount, x.left, x.args)
    OBVIOUS
  <2>3. y.pid = x.pid /\ y.args = x.args
    BY <2>2, CallShape
  <2>4. x.next \in {"accrued?", "claim"}
    BY <1>1, <2>1, CallIsOk DEF CallOk
  <2> QED
    BY <1>1, <1>2, <2>1, <2>2, <2>3, <2>4, FreshGoes
<1> QED
  BY <1>3, <1>4, <1>5, <1>6


\* A settlement was asked nothing.
LEMMA MintedAsksNothing ==
    ASSUME SettleInv, RecordsInv, NEW c \in Caller, call[c].pid \in Minted
    PROVE  call[c].args.then = "none"
<1>1. calls[c] \in 0..MaxCalls /\ Asked(c) /\ MaxCalls \in Nat
  BY AmountsAssumption, CallIsOk DEF CallOk
<1>2. calls[c] > 0 => calls[c] \in 1..MaxCalls
  BY <1>1
<1> QED
  BY <1>1, <1>2, FreshAssumption DEF Asked

\* The steps that state nothing of a settlement.
LEMMA FreshOtherSteps ==
    ASSUME SettleInv, RecordsInv, FreshInv, NEW c \in Caller,
           AppendFails(c) \/ Tick(c) \/ Status(c) \/ Claim(c)
    PROVE  FreshInv'
<1>1. PICK x, m, j : x = call[c] /\ m = x.args.amount /\ j = Len(journal)
  OBVIOUS
<1>2. journal' = journal /\ raced' = raced
  <2>1. Claim(c) => journal' = journal /\ raced' = raced
    BY ClaimIs DEF history
  <2> QED
    BY <2>1 DEF AppendFails, Tick, Status, history
<1>3. CASE AppendFails(c)
  BY <1>2, <1>3, StopIs, FreshEnds DEF AppendFails
<1>4. CASE Tick(c)
  <2>1. PICK f, y : f = Fact("activated", c, Nobody, j)
                    /\ y = Call(x.pid, f, "idle", x.log, x.amount, x.left, x.args)
    OBVIOUS
  <2>2. /\ pc[c] = "velocity"
        /\ \/ Becomes(c, "idle", Call(Nobody, NoFact, "idle", <<>>, 0, {}, NoArgs))
           \/ Becomes(c, "append", y)
    BY <1>1, <1>4, <2>1, TickIs
  <2>3. y.pid = x.pid /\ y.args = x.args /\ y.due = f /\ f.fact = "activated"
    BY <2>1, CallShape, FactShape
  <2>4. CASE Becomes(c, "append", y)
    BY <1>1, <1>2, <2>2, <2>3, <2>4, FreshQuiet DEF SettlementFact, Owes
  <2> QED
    BY <1>2, <2>2, <2>4, FreshEnds
<1>5. CASE Claim(c)
  <2>1. PICK f, y : f = Fact("released", x.pid, Nobody, m)
                    /\ y = Call(x.pid, f, "remint", x.log, x.amount, x.left, x.args)
    OBVIOUS
  <2>2. /\ pc[c] = "claim"
        /\ \/ Becomes(c, "idle", Call(Nobody, NoFact, "idle", <<>>, 0, {}, NoArgs))
           \/ Becomes(c, "append", y)
    BY <1>1, <1>5, <2>1, ClaimIs
  <2>3. y.pid = x.pid /\ y.args = x.args /\ y.due = f /\ f.fact = "released"
    BY <2>1, CallShape, FactShape
  <2>4. CASE Becomes(c, "append", y)
    BY <1>1, <1>2, <2>2, <2>3, <2>4, FreshQuiet DEF SettlementFact, Owes
  <2> QED
    BY <1>2, <2>2, <2>4, FreshEnds
<1>6. CASE Status(c)
  <2>1. PICK v, y : v = reserve.volume /\ y = Call(Nobody, NoFact, "idle", <<>>, v, {}, NoArgs)
    OBVIOUS
  <2>2. Becomes(c, "velocity", y)
    BY <1>6, <2>1, StatusIs
  <2>3. y.pid = Nobody /\ y.args = NoArgs
    BY <2>1, CallShape
  <2>4. y.pid \notin Minted /\ y.args.then = "none"
    BY <2>3, FreshAssumption, NothingDue
  <2> QED
    BY <1>2, <2>2, <2>4, FreshQuiet
<1> QED
  BY <1>3, <1>4, <1>5, <1>6

\* A settlement begins.
LEMMA SettleFresh ==
    ASSUME SettleInv, RecordsInv, FreshInv, NEW c \in Caller, NEW p \in Minted, Settle(c, p)
    PROVE  FreshInv'
<1>1. PICK x : x = Call(p, NoFact, "idle", <<>>, 0, {}, NoArgs)
  OBVIOUS
<1>2. /\ Becomes(c, "settle", x) /\ journal' = journal
      /\ raced' = (raced \/ \E d \in Caller \ {c} : Settling(d, p))
  BY <1>1, BeginIs DEF Settle
<1>3. x.pid = p /\ x.args = NoArgs /\ x.args.then = "none"
  BY <1>1, CallShape, NothingDue
<1>4. pc'[c] = "settle" /\ call'[c] = x
  BY <1>2 DEF Becomes
<1>5. Stated(c)' /\ FreshCall(c)' /\ Unreleased(c)'
  BY <1>3, <1>4 DEF Stated, FreshCall, Unreleased, Owes
<1>6. ~raced' => \A q \in Minted : Settling(c, q)' => \A d \in Caller \ {c} : ~Settling(d, q)
  BY <1>2, <1>3, <1>4 DEF Settling
<1> QED
  BY <1>2, <1>5, <1>6, AddsNothing, FreshFrame

\* A record of a settlement becomes due.
LEMMA FreshOwes ==
    ASSUME SettleInv, RecordsInv, FreshInv, NEW c \in Caller, NEW x, Becomes(c, "append", x),
           journal' = journal, raced' = raced, x.pid = call[c].pid, x.pid \in Minted, pc[c] # "idle",
           x.args = call[c].args,
           x.due.fact = "paid" => Facts("commission", x.pid) # {},
           ~raced => /\ x.due.fact = "commission" => Facts("commission", x.pid) = {} /\ x.left = Node
                     /\ x.due.fact = "paid" => /\ x.due.who \notin x.left
                                               /\ PaidTo(x.pid, x.due.who) = {}
                                               /\ \A n \in x.left : PaidTo(x.pid, n) = {}
                     /\ x.due.fact = "accrual" => Facts("accrual", x.pid) = {}
    PROVE  FreshInv'
<1>1. pc'[c] = "append" /\ call'[c] = x
  BY DEF Becomes
<1>2. /\ \A f, p : Facts(f, p)' = Facts(f, p)
      /\ \A p, n : PaidTo(p, n)' = PaidTo(p, n)
  BY DEF Facts, PaidTo
<1>3. Stated(c)'
  BY <1>1, <1>2 DEF Stated, Owes
<1>4. ~raced' => FreshCall(c)'
  BY <1>1, <1>2 DEF FreshCall, Owes
<1>5. Unreleased(c)'
  BY <1>1, MintedAsksNothing DEF Unreleased
<1>6. ~raced' => \A q \in Minted : Settling(c, q)' => \A d \in Caller \ {c} : ~Settling(d, q)
  BY <1>1 DEF FreshInv, Settling
<1> QED
  BY <1>3, <1>4, <1>5, <1>6, AddsNothing, FreshFrame

\* The settlement becomes due ...
LEMMA CheckSettledFresh ==
    ASSUME SettleInv, RecordsInv, FreshInv, NEW c \in Caller, CheckSettled(c)
    PROVE  FreshInv'
<1>1. PICK x, f, y : /\ x = call[c]
                     /\ f = Fact("commission", x.pid, Nobody, Payment * Cardinality(Node) + AstShare)
                     /\ y = Call(x.pid, f, "pay", x.log, x.amount, Node, x.args)
  OBVIOUS
<1>2. /\ pc[c] = "settled?" /\ UNCHANGED <<journal, raced>>
      /\ \/ Becomes(c, "idle", Call(Nobody, NoFact, "idle", <<>>, 0, {}, NoArgs))
         \/ ~Journalled("commission", x.pid) /\ Becomes(c, "append", y)
  BY <1>1, CheckSettledIs DEF history
<1>3. x.pid \in Minted
  BY <1>1, <1>2, CallIsOk DEF CallOk, OperationPc
<1>4. y.pid = x.pid /\ y.due = f /\ y.left = Node /\ y.args = x.args /\ f.fact = "commission"
  BY <1>1, CallShape, FactShape
<1>5. CASE ~Journalled("commission", x.pid) /\ Becomes(c, "append", y)
  <2>1. Facts("commission", x.pid) = {}
    BY <1>5 DEF Journalled, Facts
  <2> QED
    BY <1>1, <1>2, <1>3, <1>4, <1>5, <2>1, FreshOwes
<1> QED
  BY <1>2, <1>5, FreshEnds

\* ... then the payments ...
LEMMA PayNodeFresh ==
    ASSUME SettleInv, RecordsInv, FreshInv, NEW c \in Caller, PayNode(c)
    PROVE  FreshInv'
<1>1. PICK x : x = call[c]
  OBVIOUS
<1>2. /\ pc[c] = "pay" /\ UNCHANGED <<journal, raced>>
      /\ \/ Becomes(c, "accrue", x)
         \/ \E n \in x.left :
              Becomes(c, "append", Call(x.pid, Fact("paid", x.pid, n, Payment), "pay", x.log,
                                        x.amount, x.left \ {n}, x.args))
  BY <1>1, PayNodeIs DEF history
<1>3. x.pid \in Minted
  BY <1>1, <1>2, CallIsOk DEF CallOk, OperationPc
<1>4. CASE Becomes(c, "accrue", x)
  BY <1>1, <1>2, <1>4, FreshGoes
<1>5. ASSUME NEW n \in x.left,
             Becomes(c, "append", Call(x.pid, Fact("paid", x.pid, n, Payment), "pay", x.log,
                                       x.amount, x.left \ {n}, x.args))
      PROVE  FreshInv'
  <2>1. PICK f, y : f = Fact("paid", x.pid, n, Payment)
                    /\ y = Call(x.pid, f, "pay", x.log, x.amount, x.left \ {n}, x.args)
    OBVIOUS
  <2>2. /\ y.pid = x.pid /\ y.due = f /\ y.left = x.left \ {n} /\ y.args = x.args
        /\ f.fact = "paid" /\ f.who = n
    BY <2>1, CallShape, FactShape
  <2>3. /\ Facts("commission", x.pid) # {}
        /\ ~raced => \A m \in x.left : PaidTo(x.pid, m) = {}
    BY <1>1, <1>2 DEF FreshInv, FreshCall, Stated
  <2>4. Becomes(c, "append", y)
    BY <1>5, <2>1
  <2>5. ~raced => /\ y.due.who \notin y.left /\ PaidTo(y.pid, y.due.who) = {}
                  /\ \A m \in y.left : PaidTo(y.pid, m) = {}
    BY <2>2, <2>3
  <2> QED
    BY <1>1, <1>2, <1>3, <2>2, <2>3, <2>4, <2>5, FreshOwes
<1> QED
  BY <1>2, <1>4, <1>5

\* ... and the accrual.
LEMMA AccrueFresh ==
    ASSUME SettleInv, RecordsInv, FreshInv, NEW c \in Caller, Accrue(c)
    PROVE  FreshInv'
<1>1. PICK x, f, y : /\ x = call[c] /\ f = Fact("accrual", x.pid, Nobody, AstShare)
                     /\ y = Call(x.pid, f, "idle", x.log, x.amount, x.left, x.args)
  OBVIOUS
<1>2. /\ pc[c] = "accrued?" /\ UNCHANGED <<journal, raced>>
      /\ \/ Becomes(c, "idle", Call(Nobody, NoFact, "idle", <<>>, 0, {}, NoArgs))
         \/ ~Journalled("accrual", x.pid) /\ Becomes(c, "append", y)
  BY <1>1, AccrueIs DEF history
<1>3. x.pid \in Minted
  BY <1>1, <1>2, CallIsOk DEF CallOk, OperationPc
<1>4. y.pid = x.pid /\ y.due = f /\ y.args = x.args /\ f.fact = "accrual"
  BY <1>1, CallShape, FactShape
<1>5. CASE ~Journalled("accrual", x.pid) /\ Becomes(c, "append", y)
  <2>1. Facts("accrual", x.pid) = {}
    BY <1>5 DEF Journalled, Facts
  <2> QED
    BY <1>1, <1>2, <1>3, <1>4, <1>5, <2>1, FreshOwes
<1> QED
  BY <1>2, <1>5, FreshEnds

\* A plain step.
LEMMA PlainFresh ==
    ASSUME SettleInv, RecordsInv, FreshInv, NEW c \in Caller, Plain(c)
    PROVE  FreshInv'
<1>1. PICK l, x, y : x = call[c] /\ y = call'[c] /\ l = pc'[c]
  OBVIOUS
<1>2. /\ Becomes(c, l, y) /\ x.pid \notin Minted /\ y.pid \notin Minted /\ raced' = raced
      /\ l \in {"idle", "verdict", "burn", "child", "reval", "value", "transfer", "holders", "append"}
      /\ l = "append" => y.due.fact = "release"
      /\ pc[c] # "append"
  BY <1>1 DEF Plain, history
<1>3. PICK r : /\ Adds(c, r) /\ r.fact \notin SettlementFact \cup {"released"}
  <2>1. CASE journal' = journal
    BY <2>1, AddsNothing, NothingDue DEF SettlementFact
  <2>2. CASE journal' # journal
    <3>1. PICK r : journal' = Append(journal, r) /\ r.fact \in {"burn", "remint"}
      BY <2>2 DEF Plain
    <3>2. r.fact \notin SettlementFact \cup {"released"} /\ r.fact # "paid"
      BY <3>1 DEF SettlementFact
    <3>3. Adds(c, r)
      BY <3>1, <3>2, AddsRecord
    <3> QED
      BY <3>2, <3>3
  <2> QED
    BY <2>1, <2>2
<1>4. Stated(c)' /\ FreshCall(c)'
  BY <1>1, <1>2 DEF Stated, FreshCall, Owes, SettlementFact
<1>5. Unreleased(c)'
  <2>1. \A p : Facts("released", p)' = Facts("released", p)
    BY <1>3 DEF Adds
  <2>2. Facts("released", Own(c)) = {}
    <3>1. ASSUME NEW i \in DOMAIN journal, journal[i].fact = "released" PROVE journal[i].pid # Own(c)
      <4>1. PICK d \in Caller : \E n \in 1..calls[d] : journal[i].pid = <<d, n>>
        BY <3>1 DEF RecordsInv, IsRecord, ReleaseFact
      <4>2. calls[c] \in Nat
        BY AmountsAssumption DEF SettleInv, CallOk
      <4>3. calls[c] + 1 \notin 1..calls[c]
        BY <4>2
      <4> QED
        BY <4>1, <4>3 DEF Own
    <3> QED
      BY <3>1 DEF Facts
  <2>3. Unreleased(c)
    BY DEF FreshInv
  <2>4. l # "append" /\ y.args.then = "burn" =>
          \/ y.pid = x.pid /\ x.args = y.args /\ pc[c] # "remint"
          \/ y.pid = Own(c)
    BY <1>1 DEF Plain
  <2>5. PICK q : q = Own(c)
    OBVIOUS
  <2>6. l # "append" /\ y.args.then = "burn" => Facts("released", y.pid) = {}
    BY <1>1, <1>2, <2>2, <2>3, <2>4 DEF Unreleased, Owes
  <2>7. y.args.then = "burn" /\ pc'[c] # "remint" /\ ~Owes(c, "release")' => Facts("released", y.pid)' = {}
    BY <1>1, <1>2, <2>1, <2>6 DEF Owes
  <2> QED
    BY <1>1, <2>7 DEF Unreleased
<1>6. ~raced' => \A q \in Minted : Settling(c, q)' => \A d \in Caller \ {c} : ~Settling(d, q)
  BY <1>1, <1>2 DEF Settling
<1> QED
  BY <1>2, <1>3, <1>4, <1>5, <1>6, FreshFrame


\* What an append adds is what the call states.
LEMMA AppendDueAdds ==
    ASSUME SettleInv, RecordsInv, FreshInv, NEW c \in Caller, pc[c] = "append",
           NEW r, r = call[c].due
    PROVE  /\ r.fact \in SettlementFact => r.pid = call[c].pid
           /\ r.fact = "released" => r.pid = <<c, calls[c]>>
           /\ r.fact = "paid" => Facts("commission", r.pid) # {}
<1>1. PICK x : x = call[c]
  OBVIOUS
<1>2. CallOk(c) /\ Asked(c) /\ Stated(c)
  BY CallIsOk DEF FreshInv
<1>3. r.fact \in SettlementFact => r.pid = x.pid
  BY <1>1, <1>2 DEF CallOk
<1>4. r.fact = "released" => r.pid = <<c, calls[c]>>
  <2>1. r.fact = "released" => x.args.then = "burn" /\ r.pid = x.pid
    BY <1>1, <1>2 DEF Asked, Releasing, Owes, ReleaseFact, SettlementFact
  <2> QED
    BY <1>1, <2>1, ReleaseArgs
<1>5. r.fact = "paid" => Facts("commission", r.pid) # {}
  BY <1>1, <1>2, <1>3 DEF Stated, Owes, SettlementFact
<1> QED
  BY <1>1, <1>3, <1>4, <1>5

\* A record that is due is not journalled yet: its append is not a duplicate.
LEMMA AppendDueAppends ==
    ASSUME SettleInv, RecordsInv, FreshInv, NEW c \in Caller, AppendDue(c), ~raced,
           call[c].due.fact \in SettlementFact \cup {"released"}
    PROVE  journal' = Append(journal, call[c].due)
<1>1. PICK x, r : x = call[c] /\ r = call[c].due
  OBVIOUS
<1>2. /\ pc[c] = "append"
      /\ \/ r \in ToSet(journal)
         \/ journal' = Append(journal, r)
  BY <1>1, AppendDueIs
<1>3. FreshCall(c) /\ Unreleased(c) /\ CallOk(c) /\ Asked(c)
  BY CallIsOk DEF FreshInv
<1>4. r.fact \in SettlementFact => r.pid = x.pid
  BY <1>1, <1>2, AppendDueAdds
<1>5. r.fact = "released" => r.pid = x.pid /\ x.args.then = "burn"
  BY <1>1, <1>2, <1>3 DEF Asked, Releasing, Owes, ReleaseFact, SettlementFact
<1>6. r \notin ToSet(journal)
  <2>1. r.fact # "paid" => Facts(r.fact, r.pid) = {}
    BY <1>1, <1>2, <1>3, <1>4, <1>5 DEF FreshCall, Unreleased, Owes, SettlementFact
  <2>2. r.fact = "paid" => PaidTo(r.pid, r.who) = {}
    BY <1>1, <1>2, <1>3, <1>4 DEF FreshCall, Owes, SettlementFact
  <2>3. ASSUME NEW i \in DOMAIN journal, journal[i] = r PROVE FALSE
    <3>1. i \in Facts(r.fact, r.pid) /\ (r.fact = "paid" => i \in PaidTo(r.pid, r.who))
      BY <2>3 DEF Facts, PaidTo
    <3> QED
      BY <2>1, <2>2, <3>1
  <2> QED
    BY <2>3 DEF ToSet
<1> QED
  BY <1>1, <1>2, <1>6
\* The record that was due is appended.
LEMMA AppendDueFresh ==
    ASSUME SettleInv, RecordsInv, FreshInv, NEW c \in Caller, AppendDue(c)
    PROVE  FreshInv'
<1>1. PICK x, r, k : x = call[c] /\ r = x.due /\ k = x.next
  OBVIOUS
<1>2. PICK y : y = Call(x.pid, NoFact, "idle", x.log, x.amount, x.left, x.args)
  OBVIOUS
<1>3. PICK z : z = Call(Nobody, NoFact, "idle", <<>>, 0, {}, NoArgs)
  OBVIOUS
<1>4. /\ pc[c] = "append" /\ raced' = raced
      /\ \/ journal' = journal /\ r \in ToSet(journal)
         \/ journal' = Append(journal, r)
      /\ \/ k = "idle" /\ Becomes(c, "idle", z)
         \/ k # "idle" /\ Becomes(c, k, y)
  BY <1>1, <1>2, <1>3, AppendDueIs DEF history
<1>5. /\ y.pid = x.pid /\ y.due = NoFact /\ y.left = x.left /\ y.args = x.args
      /\ z.pid = Nobody /\ z.due = NoFact /\ z.args = NoArgs
  BY <1>2, <1>3, CallShape
<1>6. CallOk(c) /\ Asked(c) /\ Stated(c) /\ (~raced => FreshCall(c))
  BY CallIsOk DEF FreshInv
<1>7. /\ r.fact \in SettlementFact => r.pid = x.pid
      /\ r.fact = "released" => r.pid = <<c, calls[c]>>
      /\ r.fact = "paid" => Facts("commission", r.pid) # {}
  BY <1>1, <1>4, AppendDueAdds
<1>8. PICK s : Adds(c, s) /\ (s = r \/ s = NoFact)
  BY <1>4, <1>7, <1>1, AddsNothing, AddsRecord
<1>9. Facts(r.fact, r.pid)' # {}
  <2>1. CASE journal' = Append(journal, r)
    <3>1. journal \in Seq(ToSet(journal))
      BY DEF SettleInv
    <3>2. PICK f, p : f = r.fact /\ p = r.pid
      OBVIOUS
    <3>3. Facts(f, p)' = Facts(f, p) \cup {Len(journal) + 1}
      BY <2>1, <3>1, <3>2, FactsGrow
    <3>4. \A i \in DOMAIN journal' : journal'[i].fact = f /\ journal'[i].pid = p => i \in Facts(f, p)'
      BY DEF Facts
    <3> QED
      BY <3>2, <3>3 DEF Facts
  <2>2. CASE journal' = journal /\ r \in ToSet(journal)
    BY <2>2 DEF ToSet, Facts
  <2> QED
    BY <1>4, <2>1, <2>2
<1>10. CASE k = "idle" /\ Becomes(c, "idle", z)
  <2>1. pc'[c] = "idle" /\ call'[c] = z
    BY <1>10 DEF Becomes
  <2>2. Stated(c)' /\ FreshCall(c)' /\ Unreleased(c)'
    BY <1>5, <2>1, NothingDue DEF Stated, FreshCall, Unreleased, Owes
  <2>3. ~raced' => \A q \in Minted : Settling(c, q)' => \A d \in Caller \ {c} : ~Settling(d, q)
    BY <2>1 DEF Settling
  <2> QED
    BY <1>4, <1>8, <1>10, <2>2, <2>3, FreshFrame
<1>11. CASE k # "idle" /\ Becomes(c, k, y)
  <2>1. pc'[c] = k /\ call'[c] = y
    BY <1>11 DEF Becomes
  <2>2. \/ k = "pay" /\ x.pid \in Minted /\ r.fact \in {"commission", "paid"}
        \/ k = "remint" /\ x.pid \notin Minted
    BY <1>1, <1>4, <1>6, <1>11 DEF CallOk, Asked, SettlementFact
  <2>3. Unreleased(c)'
    BY <1>1, <1>5, <2>1, <2>2, MintedAsksNothing DEF Unreleased
  <2>4. Stated(c)'
    <3>1. k = "pay" => Facts("commission", x.pid)' # {}
      <4>1. CASE r.fact = "commission"
        BY <1>7, <1>9, <4>1 DEF SettlementFact
      <4>2. CASE k = "pay" /\ r.fact = "paid"
        <5>1. Facts("commission", x.pid) # {}
          BY <1>7, <4>2 DEF SettlementFact
        <5>2. PICK p : p = x.pid
          OBVIOUS
        <5>3. Facts("commission", p) \subseteq Facts("commission", p)'
          BY <1>8 DEF Adds
        <5> QED
          BY <5>1, <5>2, <5>3
      <4> QED
        BY <2>2, <4>1, <4>2
    <3> QED
      BY <1>5, <2>1, <2>2, <3>1 DEF Stated, Owes
  <2>5. ~raced' => FreshCall(c)'
    <3>1. ASSUME ~raced, k = "pay", NEW n \in x.left, NEW p, p = x.pid PROVE PaidTo(p, n)' = {}
      <4>1. CASE r.fact = "commission"
        <5>1. Facts("commission", p) = {}
          BY <1>1, <1>4, <1>6, <3>1, <4>1 DEF FreshCall, Owes
        <5>2. Facts("paid", p) = {}
          BY <5>1 DEF FreshInv
        <5>3. PaidTo(p, n) = {} /\ s.fact # "paid"
          BY <1>8, <4>1, <5>2, NothingDue DEF PaidTo
        <5> QED
          BY <1>8, <5>3 DEF Adds
      <4>2. CASE r.fact = "paid"
        <5>1. r.who # n /\ PaidTo(p, n) = {}
          BY <1>1, <1>4, <1>6, <3>1, <4>2 DEF FreshCall, Owes
        <5>2. s.fact # "paid" \/ s.who # n
          BY <1>8, <5>1, NothingDue
        <5> QED
          BY <1>8, <5>1, <5>2 DEF Adds
      <4> QED
        BY <2>2, <3>1, <4>1, <4>2
    <3>2. PICK p : p = x.pid
      OBVIOUS
    <3>3. ~raced /\ k = "pay" => \A n \in x.left : PaidTo(p, n)' = {}
      BY <3>1, <3>2
    <3> QED
      BY <1>4, <1>5, <2>1, <2>2, <3>2, <3>3 DEF FreshCall, Owes
  <2>6. ~raced' => \A q \in Minted : Settling(c, q)' => \A d \in Caller \ {c} : ~Settling(d, q)
    BY <1>1, <1>4, <1>5, <2>1 DEF FreshInv, Settling
  <2> QED
    BY <1>4, <1>8, <1>11, <2>3, <2>4, <2>5, <2>6, FreshFrame
<1> QED
  BY <1>4, <1>10, <1>11

\* FreshInv holds at first ...
LEMMA InitFresh == Init => FreshInv
<1> SUFFICES ASSUME Init PROVE FreshInv
  OBVIOUS
<1>1. /\ journal = <<>> /\ DOMAIN journal = {}
      /\ pc = [c \in Caller |-> "idle"] /\ call = [c \in Caller |-> NoCall]
  BY DEF Init, SettlementInit
<1>2. \A c \in Caller : pc[c] = "idle" /\ call[c].args.then = "none"
  BY <1>1, NoCallIs, NothingDue
<1>3. \A f, p : Facts(f, p) = {}
  BY <1>1 DEF Facts
<1> QED
  BY <1>2, <1>3 DEF FreshInv, FreshCall, Stated, Unreleased, Owes, Settling

\* ... after a restart ...
LEMMA RestartFresh ==
    ASSUME FreshInv, Restart
    PROVE  FreshInv'
<1>1. /\ journal' = journal
      /\ pc' = [c \in Caller |-> "idle"] /\ call' = [c \in Caller |-> NoCall]
  BY DEF Restart, SettlementRestart
<1>2. \A c \in Caller : pc'[c] = "idle" /\ call'[c] = NoCall /\ call'[c].args.then = "none"
  BY <1>1, NoCallIs, NothingDue
<1>3. \A f, p : Facts(f, p)' = Facts(f, p)
  BY <1>1 DEF Facts
<1>4. \A p : Facts("paid", p)' # {} => Facts("commission", p)' # {}
  BY <1>3 DEF FreshInv
<1>5. ASSUME NEW c \in Caller PROVE Stated(c)' /\ Unreleased(c)' /\ FreshCall(c)'
  BY <1>2 DEF Stated, Unreleased, FreshCall, Owes
<1>6. ASSUME NEW c \in Caller, NEW p PROVE ~Settling(c, p)'
  BY <1>2 DEF Settling
<1> QED
  BY <1>4, <1>5, <1>6 DEF FreshInv

\* ... and after every step.
LEMMA NextFresh ==
    ASSUME SettleInv, RecordsInv, FreshInv, Next
    PROVE  FreshInv'
BY Steps, RestartFresh, FreshLoads, FreshOtherSteps, SettleFresh, CheckSettledFresh, PayNodeFresh,
   AccrueFresh, PlainFresh, AppendDueFresh

\* It does not depend on anything else.
LEMMA StutterFresh ==
    ASSUME FreshInv, UNCHANGED <<journal, pc, call, raced>>
    PROVE  FreshInv'
<1>1. /\ \A f, p : Facts(f, p)' = Facts(f, p)
      /\ \A p, n : PaidTo(p, n)' = PaidTo(p, n)
  BY DEF Facts, PaidTo
<1>2. \A c \in Caller : \A f : Owes(c, f)' <=> Owes(c, f)
  BY DEF Owes
<1>3. \A c \in Caller : \A p : Settling(c, p)' <=> Settling(c, p)
  BY DEF Settling
<1>4. ASSUME NEW c \in Caller PROVE Stated(c)' /\ Unreleased(c)'
  BY <1>1, <1>2 DEF FreshInv, Stated, Unreleased
<1>5. ASSUME ~raced, NEW c \in Caller PROVE FreshCall(c)'
  BY <1>1, <1>2, <1>5 DEF FreshInv, FreshCall
<1>6. /\ \A p : Facts("paid", p)' # {} => Facts("commission", p)' # {}
      /\ ~raced' => \A c, d \in Caller : \A p \in Minted : Settling(c, p)' /\ Settling(d, p)' => c = d
  BY <1>1, <1>3 DEF FreshInv
<1> QED
  BY <1>4, <1>5, <1>6 DEF FreshInv

\* What a call owes is not in the journal yet.
LEMMA FreshInvariance == Spec => [](SettleInv /\ RecordsInv /\ FreshInv)
<1>1. Init => FreshInv
  BY InitFresh
<1>2. SettleInv /\ RecordsInv /\ FreshInv /\ [Next]_vars => FreshInv'
  <2>1. UNCHANGED vars => UNCHANGED <<journal, pc, call, raced>>
    BY DEF vars, settlementVars, running, history
  <2> QED
    BY <2>1, NextFresh, StutterFresh
<1> QED
  BY <1>1, <1>2, RecordsInvariance, PTL DEF Spec


(***************************************************************************)
(* The books: what the journal states together with what is owed to it.    *)
(***************************************************************************)
Booked(f) == Total(journal, f) + Owed(f)
BookedTo(f, n) == TotalTo(journal, f, n) + OwedTo(f, n)
BookedCount(f) == Count(journal, f) + OwedCount(f)
Number(f) == Cardinality({i \in DOMAIN journal : journal[i].fact = f})

\* What is booked are natural numbers.
LEMMA BookedAmounts ==
    ASSUME SettleInv, RecordsInv
    PROVE  /\ journal \in Seq(ToSet(journal)) /\ HasAmounts(journal) /\ DueAmounts
           /\ \A f : /\ Total(journal, f) \in Nat /\ Count(journal, f) \in Nat
                     /\ Owed(f) \in Nat /\ OwedCount(f) \in Nat /\ Number(f) \in Nat
           /\ \A f, n : TotalTo(journal, f, n) \in Nat /\ OwedTo(f, n) \in Nat
<1>1. journal \in Seq(ToSet(journal))
  BY DEF SettleInv
<1>2. HasAmounts(journal) /\ DueAmounts
  BY DEF RecordsInv, CallRecords, IsRecord, HasAmounts, DueAmounts
<1>3. ASSUME NEW f PROVE Number(f) \in Nat
  <2>1. PICK S : S = {i \in DOMAIN journal : journal[i].fact = f}
    OBVIOUS
  <2>2. IsFiniteSet(DOMAIN journal)
    BY <1>1, FS_Interval
  <2>3. IsFiniteSet(S)
    BY <2>1, <2>2, FS_Subset
  <2> QED
    BY <2>1, <2>3, FS_CardinalityType DEF Number
<1> QED
  BY <1>1, <1>2, <1>3, LogAmounts, OwedAmounts

\* Nothing changes of f.
SameBooks(f) ==
    /\ Total(journal', f) = Total(journal, f) /\ Count(journal', f) = Count(journal, f)
    /\ \A n : TotalTo(journal', f, n) = TotalTo(journal, f, n)
    /\ Of(journal', f) = Of(journal, f)
    /\ Booked(f)' = Booked(f) /\ BookedCount(f)' = BookedCount(f)
    /\ \A n : BookedTo(f, n)' = BookedTo(f, n)
    /\ Number(f)' = Number(f)

\* What the other processes have stated.
LEMMA OfOthers ==
    ASSUME SettleInv, NEW f, NEW r, journal' = Append(journal, r)
    PROVE  /\ r.fact # f => Of(journal', f) = Of(journal, f) /\ Number(f)' = Number(f)
           /\ r.fact = f => /\ Of(journal', f) = Of(journal, f) \cup {r.pid}
                            /\ Number(f)' = Number(f) + 1
<1>1. journal \in Seq(ToSet(journal))
  BY DEF SettleInv
<1>2. PICK n : n = Len(journal) + 1
  OBVIOUS
<1>3. /\ DOMAIN journal' = DOMAIN journal \cup {n} /\ n \notin DOMAIN journal
      /\ \A i \in DOMAIN journal : journal'[i] = journal[i]
      /\ journal'[n] = r
  <2>1. /\ DOMAIN journal = 1..Len(journal) /\ Len(journal) \in Nat
        /\ DOMAIN journal' = 1..(Len(journal) + 1)
        /\ \A i \in DOMAIN journal : journal'[i] = journal[i]
        /\ journal'[Len(journal) + 1] = r
    BY <1>1, JournalGrows
  <2> QED
    BY <1>2, <2>1
<1>4. PICK S, T : S = {i \in DOMAIN journal : journal[i].fact = f}
                  /\ T = {i \in DOMAIN journal' : journal'[i].fact = f}
  OBVIOUS
<1>5. T = IF r.fact = f THEN S \cup {n} ELSE S
  BY <1>3, <1>4
<1>6. IsFiniteSet(S) /\ n \notin S
  <2>1. IsFiniteSet(DOMAIN journal)
    BY <1>1, FS_Interval
  <2> QED
    BY <1>3, <1>4, <2>1, FS_Subset
<1>7. Cardinality(S \cup {n}) = Cardinality(S) + 1
  BY <1>6, FS_AddElement
<1>8. Number(f) = Cardinality(S) /\ Number(f)' = Cardinality(T)
  BY <1>4 DEF Number
<1>9. Of(journal, f) = {journal[i].pid : i \in S} /\ Of(journal', f) = {journal'[i].pid : i \in T}
  BY <1>4 DEF Of
<1>10. r.fact = f => Of(journal', f) = Of(journal, f) \cup {r.pid}
  BY <1>3, <1>4, <1>5, <1>9
<1>11. r.fact # f => Of(journal', f) = Of(journal, f)
  BY <1>3, <1>4, <1>5, <1>9
<1> QED
  BY <1>5, <1>7, <1>8, <1>10, <1>11

\* The books of a step that neither owes nor states anything.
LEMMA BooksStay ==
    ASSUME SettleInv, RecordsInv, NEW c \in Caller, NEW l, NEW x, Becomes(c, l, x),
           x.due.amount \in Nat, NEW f, ~Owes(c, f), l = "append" => x.due.fact # f,
           journal' = journal \/ \E r : journal' = Append(journal, r) /\ r.fact # f /\ r.amount \in Nat
    PROVE  SameBooks(f)
<1>1. /\ pc'[c] = l /\ call'[c] = x
      /\ \A d \in Caller \ {c} : pc'[d] = pc[d] /\ call'[d] = call[d]
  BY DEF Becomes
<1>2. ~Owes(c, f)'
  BY <1>1 DEF Owes
<1>3. /\ Total(journal', f) = Total(journal, f) /\ Count(journal', f) = Count(journal, f)
      /\ \A n : TotalTo(journal', f, n) = TotalTo(journal, f, n)
      /\ Of(journal', f) = Of(journal, f) /\ Number(f)' = Number(f)
  <2>1. CASE journal' = journal
    BY <2>1 DEF Number
  <2>2. CASE journal' # journal
    <3>1. PICK r : journal' = Append(journal, r) /\ r.fact # f /\ r.amount \in Nat
      BY <2>2
    <3>2. /\ Total(Append(journal, r), f) = Total(journal, f) + 0
          /\ Count(Append(journal, r), f) = Count(journal, f) + 0
          /\ \A n : TotalTo(Append(journal, r), f, n) = TotalTo(journal, f, n) + 0
      BY <3>1, BookedAmounts, LogGrows
    <3>3. Total(journal, f) \in Nat /\ Count(journal, f) \in Nat /\ \A n : TotalTo(journal, f, n) \in Nat
      BY BookedAmounts
    <3> QED
      BY <3>1, <3>2, <3>3, OfOthers
  <2> QED
    BY <2>1, <2>2
<1>4. Owed(f)' = Owed(f) /\ OwedCount(f)' = OwedCount(f) /\ \A n : OwedTo(f, n)' = OwedTo(f, n)
  <2>1. /\ Owed(f)' = Owed(f) + (Share(c, f)' - Share(c, f))
        /\ OwedCount(f)' = OwedCount(f) + ((IF Owes(c, f)' THEN 1 ELSE 0) - (IF Owes(c, f) THEN 1 ELSE 0))
        /\ \A n : OwedTo(f, n)' = OwedTo(f, n) + (ShareTo(c, f, n)' - ShareTo(c, f, n))
    BY <1>1, BookedAmounts, OwedChanges
  <2>2. /\ Share(c, f) = 0 /\ Share(c, f)' = 0
        /\ \A n : ShareTo(c, f, n) = 0 /\ ShareTo(c, f, n)' = 0
    BY <1>2 DEF Share, ShareTo
  <2>3. Owed(f) \in Nat /\ OwedCount(f) \in Nat /\ \A n : OwedTo(f, n) \in Nat
    BY BookedAmounts
  <2> QED
    BY <1>2, <2>1, <2>2, <2>3
<1> QED
  BY <1>3, <1>4 DEF SameBooks, Booked, BookedTo, BookedCount

\* A record becomes due.
LEMMA BooksIncur ==
    ASSUME SettleInv, RecordsInv, NEW c \in Caller, NEW x, Becomes(c, "append", x),
           NEW r, r = x.due, r.amount \in Nat, pc[c] # "append", journal' = journal
    PROVE  /\ Booked(r.fact)' = Booked(r.fact) + r.amount
           /\ BookedCount(r.fact)' = BookedCount(r.fact) + 1
           /\ \A n : BookedTo(r.fact, n)' = BookedTo(r.fact, n) + (IF r.who = n THEN r.amount ELSE 0)
           /\ \A f : f # r.fact => SameBooks(f)
<1>1. /\ pc'[c] = "append" /\ call'[c] = x
      /\ \A d \in Caller \ {c} : pc'[d] = pc[d] /\ call'[d] = call[d]
  BY DEF Becomes
<1>2. PICK f : f = r.fact
  OBVIOUS
<1>3. ~Owes(c, f) /\ Owes(c, f)'
  BY <1>1, <1>2 DEF Owes
<1>4. /\ Owed(f)' = Owed(f) + (Share(c, f)' - Share(c, f))
      /\ OwedCount(f)' = OwedCount(f) + ((IF Owes(c, f)' THEN 1 ELSE 0) - (IF Owes(c, f) THEN 1 ELSE 0))
      /\ \A n : OwedTo(f, n)' = OwedTo(f, n) + (ShareTo(c, f, n)' - ShareTo(c, f, n))
  BY <1>1, BookedAmounts, OwedChanges
<1>5. /\ Share(c, f) = 0 /\ Share(c, f)' = r.amount
      /\ \A n : ShareTo(c, f, n) = 0 /\ ShareTo(c, f, n)' = IF r.who = n THEN r.amount ELSE 0
  BY <1>1, <1>3 DEF Share, ShareTo
<1>6. /\ Total(journal, f) \in Nat /\ Owed(f) \in Nat /\ Count(journal, f) \in Nat
      /\ OwedCount(f) \in Nat /\ \A n : TotalTo(journal, f, n) \in Nat /\ OwedTo(f, n) \in Nat
  BY BookedAmounts
<1>7. Booked(f)' = Booked(f) + r.amount
  <2>1. Owed(f)' = Owed(f) + (r.amount - 0) /\ Owed(f) \in Nat /\ Total(journal, f) \in Nat
    BY <1>4, <1>5, <1>6
  <2> QED
    BY <2>1 DEF Booked
<1>8. BookedCount(f)' = BookedCount(f) + 1
  <2>1. OwedCount(f)' = OwedCount(f) + 1
    BY <1>3, <1>4, <1>6
  <2> QED
    BY <1>6, <2>1 DEF BookedCount
<1>9. ASSUME NEW n PROVE BookedTo(f, n)' = BookedTo(f, n) + (IF r.who = n THEN r.amount ELSE 0)
  <2>1. /\ OwedTo(f, n)' = OwedTo(f, n) + (ShareTo(c, f, n)' - ShareTo(c, f, n))
        /\ ShareTo(c, f, n) = 0 /\ ShareTo(c, f, n)' = IF r.who = n THEN r.amount ELSE 0
        /\ TotalTo(journal, f, n) \in Nat /\ OwedTo(f, n) \in Nat
    BY <1>4, <1>5, <1>6
  <2> QED
    BY <2>1 DEF BookedTo
<1>10. ASSUME NEW g, g # f PROVE SameBooks(g)
  <2>1. ~Owes(c, g)
    BY DEF Owes
  <2> QED
    BY <1>2, <1>10, <2>1, BooksStay
<1> QED
  BY <1>2, <1>7, <1>8, <1>9, <1>10

\* A record that was due is appended.
LEMMA BooksDischarge ==
    ASSUME SettleInv, RecordsInv, NEW c \in Caller, NEW l, NEW x, Becomes(c, l, x), l # "append",
           x.due = NoFact, NEW r, r = call[c].due, r.amount \in Nat, pc[c] = "append",
           journal' = Append(journal, r)
    PROVE  /\ \A f : Booked(f)' = Booked(f) /\ BookedCount(f)' = BookedCount(f)
           /\ \A f, n : BookedTo(f, n)' = BookedTo(f, n)
           /\ \A f : f # r.fact => SameBooks(f)
<1>1. /\ pc'[c] = l /\ call'[c] = x
      /\ \A d \in Caller \ {c} : pc'[d] = pc[d] /\ call'[d] = call[d]
  BY DEF Becomes
<1>2. PICK f : f = r.fact
  OBVIOUS
<1>3. Owes(c, f) /\ ~Owes(c, f)' /\ x.due.amount = 0 /\ x.due.amount \in Nat
  BY <1>1, <1>2, NothingDue DEF Owes
<1>4. /\ Owed(f)' = Owed(f) + (Share(c, f)' - Share(c, f))
      /\ OwedCount(f)' = OwedCount(f) + ((IF Owes(c, f)' THEN 1 ELSE 0) - (IF Owes(c, f) THEN 1 ELSE 0))
      /\ \A n : OwedTo(f, n)' = OwedTo(f, n) + (ShareTo(c, f, n)' - ShareTo(c, f, n))
  BY <1>1, <1>3, BookedAmounts, OwedChanges
<1>5. /\ Share(c, f)' = 0 /\ Share(c, f) = r.amount
      /\ \A n : ShareTo(c, f, n)' = 0 /\ ShareTo(c, f, n) = IF r.who = n THEN r.amount ELSE 0
  BY <1>1, <1>3 DEF Share, ShareTo
<1>6. /\ Total(journal, f) \in Nat /\ Owed(f) \in Nat /\ Count(journal, f) \in Nat
      /\ OwedCount(f) \in Nat /\ \A n : TotalTo(journal, f, n) \in Nat /\ OwedTo(f, n) \in Nat
  BY BookedAmounts
<1>7. /\ Total(journal', f) = Total(journal, f) + r.amount
      /\ Count(journal', f) = Count(journal, f) + 1
      /\ \A n : TotalTo(journal', f, n) = TotalTo(journal, f, n) + (IF r.who = n THEN r.amount ELSE 0)
  BY <1>2, BookedAmounts, LogGrows
<1>8. Booked(f)' = Booked(f)
  <2>1. Owed(f)' = Owed(f) - r.amount
    <3>1. Owed(f)' = Owed(f) + (0 - r.amount) /\ Owed(f) \in Nat
      BY <1>4, <1>5, <1>6
    <3> QED
      BY <3>1
  <2>2. Total(journal', f) = Total(journal, f) + r.amount /\ Total(journal, f) \in Nat /\ Owed(f) \in Nat
    BY <1>6, <1>7
  <2> QED
    BY <2>1, <2>2 DEF Booked
<1>9. BookedCount(f)' = BookedCount(f)
  <2>1. OwedCount(f)' = OwedCount(f) - 1
    BY <1>3, <1>4, <1>6
  <2> QED
    BY <1>6, <1>7, <2>1 DEF BookedCount
<1>10. ASSUME NEW n PROVE BookedTo(f, n)' = BookedTo(f, n)
  <2>1. /\ OwedTo(f, n)' = OwedTo(f, n) + (ShareTo(c, f, n)' - ShareTo(c, f, n))
        /\ ShareTo(c, f, n)' = 0 /\ ShareTo(c, f, n) = IF r.who = n THEN r.amount ELSE 0
        /\ TotalTo(journal, f, n) \in Nat /\ OwedTo(f, n) \in Nat
        /\ TotalTo(journal', f, n) = TotalTo(journal, f, n) + (IF r.who = n THEN r.amount ELSE 0)
    BY <1>4, <1>5, <1>6, <1>7
  <2> QED
    BY <2>1 DEF BookedTo
<1>11. ASSUME NEW g, g # f PROVE SameBooks(g)
  <2>1. ~Owes(c, g)
    BY <1>2, <1>11 DEF Owes
  <2> QED
    BY <1>2, <1>3, <1>11, <2>1, BooksStay
<1>12. ASSUME NEW g PROVE Booked(g)' = Booked(g) /\ BookedCount(g)' = BookedCount(g)
                         /\ \A n : BookedTo(g, n)' = BookedTo(g, n)
  BY <1>8, <1>9, <1>10, <1>11 DEF SameBooks
<1> QED
  BY <1>2, <1>11, <1>12

\* At rest, and where nothing of f is due, the books are the journal.
LEMMA BooksAtRest ==
    ASSUME SettleInv, RecordsInv, NEW f, \A c \in Caller : ~Owes(c, f)
    PROVE  /\ Booked(f) = Total(journal, f) /\ BookedCount(f) = Count(journal, f)
           /\ \A n : BookedTo(f, n) = TotalTo(journal, f, n)
<1>1. Owed(f) = 0 /\ OwedCount(f) = 0 /\ \A n : OwedTo(f, n) = 0
  BY BookedAmounts, OwedAmounts
<1>2. Total(journal, f) \in Nat /\ Count(journal, f) \in Nat /\ \A n : TotalTo(journal, f, n) \in Nat
  BY BookedAmounts
<1> QED
  BY <1>1, <1>2 DEF Booked, BookedCount, BookedTo


MoneyFact == {"commission", "paid", "accrual", "released", "activated"}

\* A step of c that leaves the books as they are, with nothing of them due before or after.
Quietly(c) ==
    /\ Becomes(c, pc'[c], call'[c])
    /\ \A f \in MoneyFact : SameBooks(f) /\ ~Owes(c, f) /\ ~Owes(c, f)'

\* A call that goes on owing nothing, ...
LEMMA GoesQuietly ==
    ASSUME SettleInv, RecordsInv, NEW c \in Caller, NEW l, NEW x, Becomes(c, l, x),
           pc[c] # "append", l # "append", x.due.amount \in Nat, journal' = journal
    PROVE  Quietly(c) /\ pc'[c] = l /\ call'[c] = x
<1>1. pc'[c] = l /\ call'[c] = x
  BY DEF Becomes
<1>2. ASSUME NEW f \in MoneyFact PROVE SameBooks(f) /\ ~Owes(c, f) /\ ~Owes(c, f)'
  <2>1. ~Owes(c, f) /\ ~Owes(c, f)'
    BY <1>1 DEF Owes
  <2> QED
    BY <2>1, BooksStay
<1> QED
  BY <1>1, <1>2 DEF Quietly

\* ... or ends.
LEMMA EndsQuietly ==
    ASSUME SettleInv, RecordsInv, NEW c \in Caller, journal' = journal, pc[c] # "append",
           Becomes(c, "idle", Call(Nobody, NoFact, "idle", <<>>, 0, {}, NoArgs))
    PROVE  Quietly(c) /\ pc'[c] = "idle" /\ call'[c].pid \notin Minted
<1>1. PICK x : x = Call(Nobody, NoFact, "idle", <<>>, 0, {}, NoArgs)
  OBVIOUS
<1>2. x.pid = Nobody /\ x.due = NoFact /\ x.due.amount \in Nat
  BY <1>1, CallShape, NothingDue
<1> QED
  BY <1>1, <1>2, GoesQuietly, FreshAssumption

\* What the steps do that begin a call or go on to the next read.
LEMMA SettleMoves ==
    ASSUME SettleInv, RecordsInv, NEW c \in Caller, NEW p \in Minted, Settle(c, p)
    PROVE  /\ Quietly(c) /\ pc[c] = "idle" /\ pc'[c] = "settle"
           /\ UNCHANGED <<journal, commission, reserve, active, faults, rehydrated, lost, cut>>
           /\ ~raced' => ~raced
<1>1. PICK x : x = Call(p, NoFact, "idle", <<>>, 0, {}, NoArgs)
  OBVIOUS
<1>2. pc[c] = "idle" /\ Becomes(c, "settle", x)
  BY <1>1, BeginIs DEF Settle
<1>3. x.due = NoFact /\ x.due.amount \in Nat
  BY <1>1, CallShape, NothingDue
<1>4. UNCHANGED <<journal, commission, reserve, active, faults, rehydrated, lost, cut>>
      /\ (~raced' => ~raced)
  BY DEF Settle, services
<1> QED
  BY <1>2, <1>3, <1>4, GoesQuietly

\* What each action does to the books:
LEMMA StatusMoves ==
    ASSUME SettleInv, RecordsInv, NEW c \in Caller, Status(c)
    PROVE  /\ Quietly(c) /\ pc[c] = "idle" /\ pc'[c] = "velocity" /\ call'[c].pid \notin Minted
           /\ call'[c].amount = reserve.volume
           /\ UNCHANGED <<journal, commission, reserve, active, faults, raced, rehydrated, lost, cut>>
<1>1. PICK v, x : v = reserve.volume /\ x = Call(Nobody, NoFact, "idle", <<>>, v, {}, NoArgs)
  OBVIOUS
<1>2. pc[c] = "idle" /\ Becomes(c, "velocity", x)
  BY <1>1, StatusIs
<1>3. x.pid = Nobody /\ x.due = NoFact /\ x.due.amount \in Nat /\ x.amount = v
  BY <1>1, CallShape, NothingDue
<1>4. UNCHANGED <<journal, commission, reserve, active, faults, raced, rehydrated, lost, cut>>
  BY DEF Status, services, history
<1> QED
  BY <1>1, <1>2, <1>3, <1>4, GoesQuietly, FreshAssumption

LEMMA LoadCommissionMoves ==
    ASSUME SettleInv, RecordsInv, NEW c \in Caller, LoadCommission(c)
    PROVE  /\ Quietly(c) /\ pc[c] = "settle" /\ call'[c].pid = call[c].pid
           /\ \/ commission.hydrated /\ pc'[c] = "settled?"
              \/ ~commission.hydrated /\ pc'[c] = "cload" /\ call'[c].log = journal
           /\ UNCHANGED <<journal, commission, reserve, active, faults, raced, rehydrated, lost, cut>>
<1>1. PICK x, j, y : x = call[c] /\ j = journal
                     /\ y = Call(x.pid, x.due, x.next, j, x.amount, x.left, x.args)
  OBVIOUS
<1>2. /\ pc[c] = "settle"
      /\ \/ commission.hydrated /\ Becomes(c, "settled?", x)
         \/ ~commission.hydrated /\ Becomes(c, "cload", y)
  BY <1>1, LoadCommissionIs
<1>3. y.pid = x.pid /\ y.due = x.due /\ y.log = j /\ x.due.amount \in Nat
  BY <1>1, CallShape, CallIsOk DEF IsRecord
<1>4. UNCHANGED <<journal, commission, reserve, active, faults, raced, rehydrated, lost, cut>>
  BY DEF LoadCommission, services, history
<1>5. CASE commission.hydrated /\ Becomes(c, "settled?", x)
  BY <1>1, <1>2, <1>3, <1>4, <1>5, GoesQuietly
<1>6. CASE ~commission.hydrated /\ Becomes(c, "cload", y)
  BY <1>1, <1>2, <1>3, <1>4, <1>6, GoesQuietly
<1> QED
  BY <1>2, <1>5, <1>6

LEMMA HydrateCommissionMoves ==
    ASSUME SettleInv, RecordsInv, NEW c \in Caller, HydrateCommission(c)
    PROVE  /\ Quietly(c) /\ pc[c] = "cload" /\ pc'[c] = "settled?" /\ call'[c].pid = call[c].pid
           /\ commission' = CommissionFrom(call[c].log)
           /\ rehydrated' = (rehydrated \/ commission.hydrated)
           /\ UNCHANGED <<journal, reserve, active, faults, raced, lost, cut>>
<1>1. PICK x, y : x = call[c] /\ y = Call(x.pid, x.due, x.next, <<>>, x.amount, x.left, x.args)
  OBVIOUS
<1>2. /\ pc[c] = "cload" /\ commission' = CommissionFrom(x.log) /\ Becomes(c, "settled?", y)
      /\ rehydrated' = (rehydrated \/ commission.hydrated)
      /\ UNCHANGED <<journal, reserve, active, faults, raced, lost, cut>>
  BY <1>1, HydrateCommissionIs
<1>3. y.pid = x.pid /\ y.due = x.due /\ x.due.amount \in Nat
  BY <1>1, CallShape, CallIsOk DEF IsRecord
<1> QED
  BY <1>1, <1>2, <1>3, GoesQuietly

LEMMA LoadReserveMoves ==
    ASSUME SettleInv, RecordsInv, NEW c \in Caller, NEW at \in {"accrue", "child"},
           NEW after \in {"accrued?", "claim"}, LoadReserve(c, at, after)
    PROVE  /\ Quietly(c) /\ pc[c] = at /\ call'[c].pid = call[c].pid
           /\ \/ reserve.hydrated /\ pc'[c] = after
              \/ ~reserve.hydrated /\ pc'[c] = "rload" /\ call'[c].log = journal
           /\ UNCHANGED <<journal, commission, reserve, active, faults, raced, rehydrated, lost, cut>>
<1>1. PICK x, j, y : x = call[c] /\ j = journal
                     /\ y = Call(x.pid, x.due, after, j, x.amount, x.left, x.args)
  OBVIOUS
<1>2. /\ pc[c] = at
      /\ \/ reserve.hydrated /\ Becomes(c, after, x)
         \/ ~reserve.hydrated /\ Becomes(c, "rload", y)
  BY <1>1, LoadReserveIs
<1>3. y.pid = x.pid /\ y.due = x.due /\ y.log = j /\ x.due.amount \in Nat
  BY <1>1, CallShape, CallIsOk DEF IsRecord
<1>4. UNCHANGED <<journal, commission, reserve, active, faults, raced, rehydrated, lost, cut>>
  BY DEF LoadReserve, services, history
<1>5. CASE reserve.hydrated /\ Becomes(c, after, x)
  BY <1>1, <1>2, <1>3, <1>4, <1>5, GoesQuietly
<1>6. CASE ~reserve.hydrated /\ Becomes(c, "rload", y)
  BY <1>1, <1>2, <1>3, <1>4, <1>6, GoesQuietly
<1> QED
  BY <1>2, <1>5, <1>6

LEMMA HydrateReserveMoves ==
    ASSUME SettleInv, RecordsInv, NEW c \in Caller, HydrateReserve(c)
    PROVE  /\ Quietly(c) /\ pc[c] = "rload" /\ pc'[c] \in {"accrued?", "claim"}
           /\ call'[c].pid = call[c].pid /\ reserve' = ReserveFrom(call[c].log)
           /\ rehydrated' = (rehydrated \/ reserve.hydrated)
           /\ UNCHANGED <<journal, commission, active, faults, raced, lost, cut>>
<1>1. PICK x, y : x = call[c] /\ y = Call(x.pid, x.due, "idle", <<>>, x.amount, x.left, x.args)
  OBVIOUS
<1>2. /\ pc[c] = "rload" /\ reserve' = ReserveFrom(x.log) /\ Becomes(c, x.next, y)
      /\ rehydrated' = (rehydrated \/ reserve.hydrated)
      /\ UNCHANGED <<journal, commission, active, faults, raced, lost, cut>>
  BY <1>1, HydrateReserveIs
<1>3. y.pid = x.pid /\ y.due = x.due /\ x.due.amount \in Nat
  BY <1>1, CallShape, CallIsOk DEF IsRecord
<1>4. x.next \in {"accrued?", "claim"}
  BY <1>1, <1>2, CallIsOk DEF CallOk
<1> QED
  BY <1>1, <1>2, <1>3, <1>4, GoesQuietly

LEMMA PlainMoves ==
    ASSUME SettleInv, RecordsInv, RecordsInv', NEW c \in Caller, Plain(c)
    PROVE  /\ Quietly(c) /\ pc[c] \notin {"append", "pay", "velocity"}
           /\ call[c].pid \notin Minted /\ call'[c].pid \notin Minted
           /\ pc'[c] \notin {"settle", "cload", "pay", "rload", "accrued?", "claim", "velocity"}
           /\ UNCHANGED <<commission, reserve, active, faults, raced, rehydrated, lost, cut>>
<1>1. PICK l, x : l = pc'[c] /\ x = call'[c]
  OBVIOUS
<1>2. /\ Becomes(c, l, x) /\ pc[c] # "append" /\ (l = "append" => x.due.fact = "release")
      /\ journal' = journal \/ \E r : journal' = Append(journal, r) /\ r.fact \in {"burn", "remint"}
  BY <1>1 DEF Plain
<1>3. x.due.amount \in Nat
  BY <1>1 DEF RecordsInv, CallRecords, IsRecord
<1>4. ASSUME NEW f \in MoneyFact PROVE SameBooks(f) /\ ~Owes(c, f) /\ ~Owes(c, f)'
  <2>1. /\ ~Owes(c, f) /\ ~Owes(c, f)' /\ (l = "append" => x.due.fact # f)
        /\ journal' = journal \/ \E r : journal' = Append(journal, r) /\ r.fact # f
    BY <1>1, <1>2 DEF Owes, MoneyFact
  <2>2. ASSUME NEW r, journal' = Append(journal, r) PROVE r.amount \in Nat
    <3>1. journal'[Len(journal) + 1] = r /\ Len(journal) + 1 \in DOMAIN journal'
      BY <2>2, JournalGrows DEF SettleInv
    <3> QED
      BY <3>1 DEF RecordsInv, IsRecord
  <2>3. journal' = journal \/ \E r : journal' = Append(journal, r) /\ r.fact # f /\ r.amount \in Nat
    BY <2>1, <2>2
  <2> QED
    BY <1>2, <1>3, <2>1, <2>3, BooksStay
<1>5. Quietly(c)
  BY <1>1, <1>2, <1>4 DEF Quietly
<1> QED
  BY <1>5 DEF Plain, history

\* What the steps do by which a record becomes due.
Incurs(c, r) ==
    /\ Becomes(c, "append", call'[c]) /\ pc'[c] = "append" /\ pc[c] \notin {"append", "idle"}
    /\ call'[c].pid = call[c].pid /\ call'[c].due = r /\ r.amount \in Nat /\ journal' = journal

LEMMA OwesIncurs ==
    ASSUME SettleInv, RecordsInv, NEW c \in Caller, NEW x, Becomes(c, "append", x), journal' = journal,
           x.pid = call[c].pid, NEW r, x.due = r, r.amount \in Nat, pc[c] \notin {"append", "idle"}
    PROVE  Incurs(c, r)
BY DEF Incurs, Becomes

LEMMA CheckSettledMoves ==
    ASSUME SettleInv, RecordsInv, NEW c \in Caller, CheckSettled(c)
    PROVE  /\ pc[c] = "settled?" /\ call[c].pid \in Minted
           /\ UNCHANGED <<journal, commission, reserve, active, faults, raced, rehydrated, lost, cut>>
           /\ \/ Quietly(c) /\ pc'[c] = "idle" /\ call'[c].pid \notin Minted
              \/ \E r : Incurs(c, r) /\ r.fact = "commission"
<1>1. PICK x, f, y : /\ x = call[c]
                     /\ f = Fact("commission", x.pid, Nobody, Payment * Cardinality(Node) + AstShare)
                     /\ y = Call(x.pid, f, "pay", x.log, x.amount, Node, x.args)
  OBVIOUS
<1>2. /\ pc[c] = "settled?"
      /\ \/ Becomes(c, "idle", Call(Nobody, NoFact, "idle", <<>>, 0, {}, NoArgs))
         \/ Becomes(c, "append", y)
  BY <1>1, CheckSettledIs
<1>3. UNCHANGED <<journal, commission, reserve, active, faults, raced, rehydrated, lost, cut>>
  BY DEF CheckSettled, services, history
<1>4. x.pid \in Minted
  BY <1>1, <1>2, CallIsOk DEF CallOk, OperationPc
<1>5. y.pid = x.pid /\ y.due = f /\ f.fact = "commission" /\ f.amount = Payment * Cardinality(Node) + AstShare
  BY <1>1, CallShape, FactShape
<1>6. f.amount \in Nat
  <2>1. Payment \in Nat /\ AstShare \in Nat /\ Cardinality(Node) \in Nat
    BY AmountsAssumption, FiniteAssumption, FS_CardinalityType
  <2> QED
    BY <1>5, <2>1
<1>7. CASE Becomes(c, "append", y)
  <2>1. Incurs(c, f)
    BY <1>1, <1>2, <1>3, <1>5, <1>6, <1>7, OwesIncurs
  <2> QED
    BY <1>1, <1>2, <1>3, <1>4, <1>5, <2>1
<1>8. CASE Becomes(c, "idle", Call(Nobody, NoFact, "idle", <<>>, 0, {}, NoArgs))
  BY <1>1, <1>2, <1>3, <1>4, <1>8, EndsQuietly
<1> QED
  BY <1>2, <1>7, <1>8

LEMMA PayNodeMoves ==
    ASSUME SettleInv, RecordsInv, NEW c \in Caller, PayNode(c)
    PROVE  /\ pc[c] = "pay" /\ call[c].pid \in Minted
           /\ UNCHANGED <<journal, reserve, active, faults, raced, rehydrated, lost, cut>>
           /\ \/ /\ Quietly(c) /\ pc'[c] = "accrue" /\ call'[c].pid = call[c].pid
                 /\ commission' = [commission EXCEPT !.settled = @ \cup {call[c].pid}]
              \/ \E r : /\ Incurs(c, r) /\ r.fact = "paid" /\ r.amount = Payment /\ r.who \in Node
                        /\ commission' = [commission EXCEPT !.credits[r.who] = @ + Payment]
<1>1. PICK x, p, S : x = call[c] /\ p = x.pid /\ S = x.left
  OBVIOUS
<1>2. /\ pc[c] = "pay"
      /\ \/ /\ commission' = [commission EXCEPT !.settled = @ \cup {p}]
            /\ Becomes(c, "accrue", x)
         \/ \E n \in S :
              /\ commission' = [commission EXCEPT !.credits[n] = @ + Payment]
              /\ Becomes(c, "append", Call(p, Fact("paid", p, n, Payment), "pay", x.log,
                                          x.amount, S \ {n}, x.args))
  BY <1>1, PayNodeIs
<1>3. UNCHANGED <<journal, reserve, active, faults, raced, rehydrated, lost, cut>>
  BY DEF PayNode, history
<1>4. p \in Minted /\ S \subseteq Node /\ x.due.amount \in Nat
  BY <1>1, <1>2, CallIsOk DEF CallOk, OperationPc, IsRecord
<1>5. CASE commission' = [commission EXCEPT !.settled = @ \cup {p}] /\ Becomes(c, "accrue", x)
  <2>1. Quietly(c) /\ pc'[c] = "accrue" /\ call'[c] = x
    BY <1>2, <1>3, <1>4, <1>5, GoesQuietly
  <2>2. /\ Quietly(c) /\ pc'[c] = "accrue" /\ call'[c].pid = call[c].pid
        /\ commission' = [commission EXCEPT !.settled = @ \cup {call[c].pid}]
    BY <1>1, <1>5, <2>1
  <2> QED
    BY <1>1, <1>2, <1>3, <1>4, <2>2
<1>6. ASSUME NEW n \in S, commission' = [commission EXCEPT !.credits[n] = @ + Payment],
             Becomes(c, "append", Call(p, Fact("paid", p, n, Payment), "pay", x.log,
                                       x.amount, S \ {n}, x.args))
      PROVE  \E r : /\ Incurs(c, r) /\ r.fact = "paid" /\ r.amount = Payment /\ r.who \in Node
                    /\ commission' = [commission EXCEPT !.credits[r.who] = @ + Payment]
  <2>1. PICK f, y : f = Fact("paid", p, n, Payment)
                    /\ y = Call(p, f, "pay", x.log, x.amount, S \ {n}, x.args)
    OBVIOUS
  <2>2. /\ y.pid = p /\ y.due = f /\ f.fact = "paid" /\ f.who = n /\ f.amount = Payment
        /\ Payment \in Nat
    BY <2>1, CallShape, FactShape, AmountsAssumption
  <2>3. Incurs(c, f)
    BY <1>1, <1>2, <1>3, <1>6, <2>1, <2>2, OwesIncurs
  <2> QED
    BY <1>4, <1>6, <2>2, <2>3
<1> QED
  BY <1>1, <1>2, <1>3, <1>4, <1>5, <1>6

LEMMA AccrueMoves ==
    ASSUME SettleInv, RecordsInv, NEW c \in Caller, Accrue(c)
    PROVE  /\ pc[c] = "accrued?" /\ call[c].pid \in Minted
           /\ UNCHANGED <<journal, commission, active, faults, raced, rehydrated, lost, cut>>
           /\ \/ Quietly(c) /\ pc'[c] = "idle" /\ call'[c].pid \notin Minted /\ reserve' = reserve
              \/ /\ reserve' = [reserve EXCEPT !.own = @ + AstShare, !.volume = @ + Volume,
                                               !.accrued = @ \cup {call[c].pid}]
                 /\ \E r : Incurs(c, r) /\ r.fact = "accrual" /\ r.amount = AstShare /\ r.pid = call[c].pid
<1>1. PICK x, f, y, p : /\ x = call[c] /\ p = x.pid /\ f = Fact("accrual", p, Nobody, AstShare)
                        /\ y = Call(p, f, "idle", x.log, x.amount, x.left, x.args)
  OBVIOUS
<1>2. /\ pc[c] = "accrued?"
      /\ \/ reserve' = reserve /\ Becomes(c, "idle", Call(Nobody, NoFact, "idle", <<>>, 0, {}, NoArgs))
         \/ /\ reserve' = [reserve EXCEPT !.own = @ + AstShare, !.volume = @ + Volume,
                                          !.accrued = @ \cup {p}]
            /\ Becomes(c, "append", y)
  BY <1>1, AccrueIs
<1>3. UNCHANGED <<journal, commission, active, faults, raced, rehydrated, lost, cut>>
  BY DEF Accrue, history
<1>4. p \in Minted
  BY <1>1, <1>2, CallIsOk DEF CallOk, OperationPc
<1>5. /\ y.pid = p /\ y.due = f /\ f.fact = "accrual" /\ f.amount = AstShare /\ f.pid = p
      /\ AstShare \in Nat
  BY <1>1, CallShape, FactShape, AmountsAssumption
<1>6. CASE /\ reserve' = [reserve EXCEPT !.own = @ + AstShare, !.volume = @ + Volume,
                                         !.accrued = @ \cup {p}]
           /\ Becomes(c, "append", y)
  <2>1. Incurs(c, f)
    BY <1>1, <1>2, <1>3, <1>5, <1>6, OwesIncurs
  <2> QED
    BY <1>1, <1>2, <1>3, <1>4, <1>5, <1>6, <2>1
<1>7. CASE reserve' = reserve /\ Becomes(c, "idle", Call(Nobody, NoFact, "idle", <<>>, 0, {}, NoArgs))
  BY <1>1, <1>2, <1>3, <1>4, <1>7, EndsQuietly
<1> QED
  BY <1>2, <1>6, <1>7

LEMMA ClaimMoves ==
    ASSUME SettleInv, RecordsInv, NEW c \in Caller, Claim(c)
    PROVE  /\ pc[c] = "claim" /\ call[c].pid \notin Minted
           /\ UNCHANGED <<journal, commission, active, faults, raced, rehydrated, lost, cut>>
           /\ \/ Quietly(c) /\ pc'[c] = "idle" /\ call'[c].pid \notin Minted /\ reserve' = reserve
              \/ \E r : /\ Incurs(c, r) /\ r.fact = "released" /\ ~(reserve.own < r.amount)
                        /\ reserve' = [reserve EXCEPT !.own = @ - r.amount]
<1>1. PICK x, m, f, y : /\ x = call[c] /\ m = x.args.amount /\ f = Fact("released", x.pid, Nobody, m)
                        /\ y = Call(x.pid, f, "remint", x.log, x.amount, x.left, x.args)
  OBVIOUS
<1>2. /\ pc[c] = "claim"
      /\ \/ reserve' = reserve /\ Becomes(c, "idle", Call(Nobody, NoFact, "idle", <<>>, 0, {}, NoArgs))
         \/ /\ ~(reserve.own < m) /\ reserve' = [reserve EXCEPT !.own = @ - m]
            /\ Becomes(c, "append", y)
  BY <1>1, ClaimIs
<1>3. UNCHANGED <<journal, commission, active, faults, raced, rehydrated, lost, cut>>
  BY ClaimIs DEF history
<1>4. x.pid \notin Minted
  BY <1>1, <1>2, CallIsOk DEF CallOk, SettlementPc
<1>5. y.pid = x.pid /\ y.due = f /\ f.fact = "released" /\ f.amount = m
  BY <1>1, CallShape, FactShape
<1>6. m \in Nat
  <2>1. x.args.then = "burn"
    BY <1>1, <1>2, CallIsOk DEF Asked, Releasing
  <2> QED
    BY <1>1, <2>1, ReleaseArgs DEF IsRelease
<1>7. CASE /\ ~(reserve.own < m) /\ reserve' = [reserve EXCEPT !.own = @ - m]
           /\ Becomes(c, "append", y)
  <2>1. Incurs(c, f)
    BY <1>1, <1>2, <1>3, <1>5, <1>6, <1>7, OwesIncurs
  <2> QED
    BY <1>1, <1>2, <1>3, <1>4, <1>5, <1>7, <2>1
<1>8. CASE reserve' = reserve /\ Becomes(c, "idle", Call(Nobody, NoFact, "idle", <<>>, 0, {}, NoArgs))
  BY <1>1, <1>2, <1>3, <1>4, <1>8, EndsQuietly
<1> QED
  BY <1>2, <1>7, <1>8

LEMMA TickMoves ==
    ASSUME SettleInv, RecordsInv, NEW c \in Caller, Tick(c)
    PROVE  /\ pc[c] = "velocity" /\ call[c].pid \notin Minted
           /\ UNCHANGED <<journal, commission, reserve, faults, raced, rehydrated, lost, cut>>
           /\ \/ Quietly(c) /\ pc'[c] = "idle" /\ call'[c].pid \notin Minted /\ active' = active
              \/ /\ ~active /\ active' = TRUE /\ call[c].amount > Threshold
                 /\ \E r : Incurs(c, r) /\ r.fact = "activated"
<1>1. PICK x, j, f, y : /\ x = call[c] /\ j = Len(journal) /\ f = Fact("activated", c, Nobody, j)
                        /\ y = Call(x.pid, f, "idle", x.log, x.amount, x.left, x.args)
  OBVIOUS
<1>2. /\ pc[c] = "velocity"
      /\ \/ active' = active /\ Becomes(c, "idle", Call(Nobody, NoFact, "idle", <<>>, 0, {}, NoArgs))
         \/ ~active /\ active' = TRUE /\ x.amount > Threshold /\ Becomes(c, "append", y)
  BY <1>1, TickIs
<1>3. UNCHANGED <<journal, commission, reserve, faults, raced, rehydrated, lost, cut>>
  BY DEF Tick, history
<1>4. x.pid \notin Minted
  BY <1>1, <1>2, CallIsOk DEF CallOk, SettlementPc
<1>5. y.pid = x.pid /\ y.due = f /\ f.fact = "activated" /\ f.amount = j
  BY <1>1, CallShape, FactShape
<1>6. j \in Nat
  BY <1>1 DEF SettleInv
<1>7. CASE ~active /\ active' = TRUE /\ x.amount > Threshold /\ Becomes(c, "append", y)
  <2>1. Incurs(c, f)
    BY <1>1, <1>2, <1>3, <1>5, <1>6, <1>7, OwesIncurs
  <2> QED
    BY <1>1, <1>2, <1>3, <1>4, <1>5, <1>7, <2>1
<1>8. CASE active' = active /\ Becomes(c, "idle", Call(Nobody, NoFact, "idle", <<>>, 0, {}, NoArgs))
  BY <1>1, <1>2, <1>3, <1>4, <1>8, EndsQuietly
<1> QED
  BY <1>2, <1>7, <1>8


\* An append that is dropped, or was made before.
LEMMA BooksDrop ==
    ASSUME SettleInv, RecordsInv, NEW c \in Caller, NEW l, NEW x, Becomes(c, l, x), l # "append",
           x.due.amount \in Nat, pc[c] = "append", journal' = journal
    PROVE  /\ \A f : BookedCount(f)' <= BookedCount(f)
           /\ \A f : f # call[c].due.fact => SameBooks(f)
<1>1. /\ pc'[c] = l /\ call'[c] = x
      /\ \A d \in Caller \ {c} : pc'[d] = pc[d] /\ call'[d] = call[d]
  BY DEF Becomes
<1>2. ASSUME NEW f PROVE BookedCount(f)' <= BookedCount(f)
  <2>1. OwedCount(f)' = OwedCount(f) + ((IF Owes(c, f)' THEN 1 ELSE 0) - (IF Owes(c, f) THEN 1 ELSE 0))
    BY <1>1, BookedAmounts, OwedChanges
  <2>2. ~Owes(c, f)'
    BY <1>1 DEF Owes
  <2>3. OwedCount(f) \in Nat /\ Count(journal, f) \in Nat
    BY BookedAmounts
  <2>4. OwedCount(f)' <= OwedCount(f) /\ OwedCount(f)' \in Int
    BY <2>1, <2>2, <2>3
  <2> QED
    BY <2>3, <2>4 DEF BookedCount
<1>3. ASSUME NEW f, f # call[c].due.fact PROVE SameBooks(f)
  <2>1. ~Owes(c, f)
    BY <1>3 DEF Owes
  <2> QED
    BY <2>1, BooksStay
<1> QED
  BY <1>2, <1>3

LEMMA AppendFailsMoves ==
    ASSUME SettleInv, RecordsInv, NEW c \in Caller, AppendFails(c)
    PROVE  /\ Becomes(c, "idle", call'[c]) /\ pc[c] = "append" /\ pc'[c] = "idle"
           /\ call'[c].pid \notin Minted /\ lost' /\ faults' = faults + 1
           /\ UNCHANGED <<journal, commission, reserve, active, raced, rehydrated, cut>>
           /\ \A f : BookedCount(f)' <= BookedCount(f)
<1>1. PICK x : x = Call(Nobody, NoFact, "idle", <<>>, 0, {}, NoArgs)
  OBVIOUS
<1>2. Becomes(c, "idle", x) /\ pc[c] = "append"
  BY <1>1, StopIs DEF AppendFails
<1>3. x.pid = Nobody /\ x.due = NoFact /\ x.due.amount \in Nat
  BY <1>1, CallShape, NothingDue
<1>4. /\ lost' /\ faults' = faults + 1
      /\ UNCHANGED <<journal, commission, reserve, active, raced, rehydrated, cut>>
  BY DEF AppendFails, services
<1>5. \A f : BookedCount(f)' <= BookedCount(f)
  BY <1>2, <1>3, <1>4, BooksDrop
<1>6. pc'[c] = "idle" /\ call'[c] = x
  BY <1>2 DEF Becomes
<1> QED
  BY <1>2, <1>3, <1>4, <1>5, <1>6, FreshAssumption

LEMMA AppendDueMoves ==
    ASSUME SettleInv, RecordsInv, FreshInv, NEW c \in Caller, AppendDue(c), NEW r, r = call[c].due
    PROVE  /\ Becomes(c, pc'[c], call'[c]) /\ pc[c] = "append"
           /\ UNCHANGED <<commission, reserve, active, faults, raced, rehydrated, lost, cut>>
           /\ \/ pc'[c] = "idle" /\ call'[c].pid \notin Minted /\ r.fact \notin {"commission", "paid"}
              \/ /\ pc'[c] = "pay" /\ call'[c].pid = call[c].pid /\ call[c].pid \in Minted
                 /\ r.fact \in {"commission", "paid"}
              \/ pc'[c] = "remint" /\ call'[c].pid = call[c].pid /\ call[c].pid \notin Minted
                 /\ r.fact = "released"
           /\ \/ journal' = journal /\ (raced \/ r.fact \notin SettlementFact \cup {"released"})
              \/ journal' = Append(journal, r)
           /\ r.fact \in SettlementFact => r.pid = call[c].pid
           /\ \A f : BookedCount(f)' <= BookedCount(f)
           /\ ~raced => \A f \in MoneyFact \ {"activated"} :
                /\ Booked(f)' = Booked(f) /\ BookedCount(f)' = BookedCount(f)
                /\ \A n : BookedTo(f, n)' = BookedTo(f, n)
           /\ \A f : f # r.fact => SameBooks(f)
<1>1. PICK x, k : x = call[c] /\ k = x.next
  OBVIOUS
<1>2. PICK y : y = Call(x.pid, NoFact, "idle", x.log, x.amount, x.left, x.args)
  OBVIOUS
<1>3. PICK z : z = Call(Nobody, NoFact, "idle", <<>>, 0, {}, NoArgs)
  OBVIOUS
<1>4. /\ pc[c] = "append"
      /\ journal' = journal \/ journal' = Append(journal, r)
      /\ \/ k = "idle" /\ Becomes(c, "idle", z)
         \/ k # "idle" /\ Becomes(c, k, y)
  BY <1>1, <1>2, <1>3, AppendDueIs
<1>5. /\ y.pid = x.pid /\ y.due = NoFact /\ z.pid = Nobody /\ z.due = NoFact
      /\ NoFact.amount \in Nat /\ Nobody \notin Minted
  BY <1>2, <1>3, CallShape, NothingDue, FreshAssumption
<1>6. UNCHANGED <<commission, reserve, active, faults, raced, rehydrated, lost, cut>>
  BY DEF AppendDue, services, history
<1>7. CallOk(c) /\ Asked(c) /\ r.amount \in Nat
  BY CallIsOk DEF IsRecord
<1>8. r.fact \in SettlementFact => r.pid = x.pid
  BY <1>1, <1>4, AppendDueAdds
<1>9. \/ k = "idle" /\ r.fact \notin {"commission", "paid"}
      \/ k = "pay" /\ x.pid \in Minted /\ r.fact \in {"commission", "paid"}
      \/ k = "remint" /\ x.pid \notin Minted /\ r.fact = "released"
  BY <1>1, <1>4, <1>7 DEF CallOk, Asked, SettlementFact
<1>10. \/ journal' = journal /\ (raced \/ r.fact \notin SettlementFact \cup {"released"})
       \/ journal' = Append(journal, r)
  BY <1>4, AppendDueAppends
<1>11. PICK l, w : Becomes(c, l, w) /\ l # "append" /\ w.due = NoFact /\ pc'[c] = l /\ call'[c] = w
                   /\ \/ w.pid = Nobody /\ l = "idle" /\ k = "idle"
                      \/ w.pid = x.pid /\ l = k /\ k # "idle"
  <2>1. CASE k = "idle" /\ Becomes(c, "idle", z)
    BY <1>5, <2>1 DEF Becomes
  <2>2. CASE k # "idle" /\ Becomes(c, k, y)
    BY <1>5, <1>9, <2>2 DEF Becomes
  <2> QED
    BY <1>4, <2>1, <2>2
<1>16. Becomes(c, pc'[c], call'[c])
  BY <1>11
<1>14. \/ pc'[c] = "idle" /\ call'[c].pid \notin Minted /\ r.fact \notin {"commission", "paid"}
       \/ /\ pc'[c] = "pay" /\ call'[c].pid = call[c].pid /\ call[c].pid \in Minted
          /\ r.fact \in {"commission", "paid"}
       \/ pc'[c] = "remint" /\ call'[c].pid = call[c].pid /\ call[c].pid \notin Minted
          /\ r.fact = "released"
  <2>1. CASE w.pid = Nobody /\ l = "idle" /\ k = "idle"
    BY <1>5, <1>9, <1>11, <2>1
  <2>2. CASE w.pid = x.pid /\ l = k /\ k # "idle"
    BY <1>1, <1>9, <1>11, <2>2
  <2> QED
    BY <1>11, <2>1, <2>2
<1>15. r.fact \in SettlementFact => r.pid = call[c].pid
  BY <1>1, <1>8
<1>12. CASE journal' = Append(journal, r)
  <2>1. /\ \A f : Booked(f)' = Booked(f) /\ BookedCount(f)' = BookedCount(f)
        /\ \A f, n : BookedTo(f, n)' = BookedTo(f, n)
        /\ \A f : f # r.fact => SameBooks(f)
    BY <1>4, <1>7, <1>11, <1>12, BooksDischarge
  <2>2. \A f : BookedCount(f) \in Nat
    BY BookedAmounts DEF BookedCount
  <2>3. \A f : BookedCount(f)' <= BookedCount(f)
    BY <2>1, <2>2
  <2> QED
    BY <1>4, <1>6, <1>10, <1>14, <1>15, <1>16, <2>1, <2>3
<1>13. CASE journal' = journal /\ (raced \/ r.fact \notin SettlementFact \cup {"released"})
  <2>1. /\ \A f : BookedCount(f)' <= BookedCount(f)
        /\ \A f : f # r.fact => SameBooks(f)
    BY <1>4, <1>5, <1>11, <1>13, BooksDrop
  <2>2. ASSUME ~raced, NEW f \in MoneyFact \ {"activated"}
        PROVE  /\ Booked(f)' = Booked(f) /\ BookedCount(f)' = BookedCount(f)
               /\ \A n : BookedTo(f, n)' = BookedTo(f, n)
    <3>1. f # r.fact
      BY <1>13, <2>2 DEF MoneyFact, SettlementFact
    <3> QED
      BY <2>1, <3>1 DEF SameBooks
  <2> QED
    BY <1>4, <1>6, <1>10, <1>14, <1>15, <1>16, <2>1, <2>2
<1> QED
  BY <1>10, <1>12, <1>13
-----------------------------------------------------------------------------
(***************************************************************************)
(* CommissionInv: the commission remembers what is paid and owed, and which*)
(* settlements are paid.                                                   *)
(***************************************************************************)
Calm == ~raced /\ ~lost /\ ~rehydrated
Paying(c, p) == call[c].pid = p /\ (pc[c] = "pay" \/ Owes(c, "paid"))

AgreesOnPayments(log) ==
    /\ \A n : TotalTo(log, "paid", n) = TotalTo(journal, "paid", n)
    /\ Of(log, "commission") = Of(journal, "commission")

CommissionInv ==
    /\ commission.hydrated \in BOOLEAN
    /\ ~commission.hydrated =>
        \A c \in Caller : call[c].pid \in Minted => pc[c] \in {"settle", "cload"}
    /\ Calm /\ ~commission.hydrated =>
        \A c \in Caller : pc[c] = "cload" => AgreesOnPayments(call[c].log)
    /\ Calm /\ commission.hydrated =>
        /\ \A n \in Node : commission.credits[n] = BookedTo("paid", n)
        /\ commission.settled \subseteq Of(journal, "commission")
        /\ \A p \in Of(journal, "commission") \ commission.settled : \E c \in Caller : Paying(c, p)

\* A step that is not the commission's.
LEMMA CommissionFrame ==
    ASSUME CommissionInv, NEW c \in Caller, NEW l, NEW x, Becomes(c, l, x), commission' = commission,
           Calm' => Calm, SameBooks("paid"), Of(journal', "commission") = Of(journal, "commission"),
           \A p : ~Paying(c, p),
           x.pid \in Minted => \/ l \in {"settle", "cload"}
                               \/ call[c].pid \in Minted /\ pc[c] \notin {"settle", "cload"}
                               \/ commission.hydrated,
           l = "cload" => x.log = journal'
    PROVE  CommissionInv'
<1>1. /\ pc'[c] = l /\ call'[c] = x
      /\ \A d \in Caller \ {c} : pc'[d] = pc[d] /\ call'[d] = call[d]
  BY DEF Becomes
<1>2. PICK k : k = commission'.hydrated /\ k = commission.hydrated /\ k \in BOOLEAN
  BY DEF CommissionInv
<1>3. ~k => \A d \in Caller : call'[d].pid \in Minted => pc'[d] \in {"settle", "cload"}
  BY <1>1, <1>2 DEF CommissionInv
<1>4. ASSUME Calm', ~k, NEW d \in Caller, pc'[d] = "cload" PROVE AgreesOnPayments(call[d].log)'
  <2>1. PICK log : log = call'[d].log
    OBVIOUS
  <2>2. \A n : TotalTo(log, "paid", n) = TotalTo(journal', "paid", n)
    BY <1>1, <1>2, <1>4, <2>1 DEF CommissionInv, AgreesOnPayments, SameBooks
  <2>3. Of(log, "commission") = Of(journal', "commission")
    BY <1>1, <1>2, <1>4, <2>1 DEF CommissionInv, AgreesOnPayments
  <2> QED
    BY <2>1, <2>2, <2>3 DEF AgreesOnPayments
<1>5. ASSUME Calm', k
      PROVE  /\ \A n \in Node : commission'.credits[n] = BookedTo("paid", n)'
             /\ commission'.settled \subseteq Of(journal', "commission")
             /\ \A p \in Of(journal', "commission") \ commission'.settled : \E d \in Caller : Paying(d, p)'
  <2>1. /\ \A n \in Node : commission.credits[n] = BookedTo("paid", n)
        /\ commission.settled \subseteq Of(journal, "commission")
        /\ \A p \in Of(journal, "commission") \ commission.settled : \E d \in Caller : Paying(d, p)
    BY <1>2, <1>5 DEF CommissionInv
  <2>2. \A d \in Caller : \A p : Paying(d, p) => Paying(d, p)'
    BY <1>1 DEF Paying, Owes
  <2> QED
    BY <2>1, <2>2 DEF SameBooks
<1> QED
  BY <1>2, <1>3, <1>4, <1>5 DEF CommissionInv


\* A step that leaves the books alone, ...
LEMMA CommissionQuiet ==
    ASSUME CommissionInv, NEW c \in Caller, Quietly(c), commission' = commission, Calm' => Calm,
           Of(journal', "commission") = Of(journal, "commission"), pc[c] # "pay",
           call'[c].pid \in Minted => \/ pc'[c] \in {"settle", "cload"}
                                      \/ call[c].pid \in Minted /\ pc[c] \notin {"settle", "cload"}
                                      \/ commission.hydrated,
           pc'[c] = "cload" => call'[c].log = journal'
    PROVE  CommissionInv'
<1>1. PICK l, x : l = pc'[c] /\ x = call'[c]
  OBVIOUS
<1>2. Becomes(c, l, x) /\ SameBooks("paid") /\ ~Owes(c, "paid")
  BY <1>1 DEF Quietly, MoneyFact
<1>3. \A p : ~Paying(c, p)
  BY <1>2 DEF Paying
<1> QED
  BY <1>1, <1>2, <1>3, CommissionFrame

\* ... one that owes a record ...
LEMMA CommissionIncurs ==
    ASSUME SettleInv, RecordsInv, CommissionInv, NEW c \in Caller, NEW r, Incurs(c, r),
           r.fact # "paid", commission' = commission, Calm' => Calm, pc[c] # "pay",
           call[c].pid \in Minted => pc[c] \notin {"settle", "cload"}
    PROVE  CommissionInv'
<1>1. PICK x : x = call'[c]
  OBVIOUS
<1>2. Becomes(c, "append", x) /\ x.due = r /\ r.amount \in Nat /\ pc[c] # "append" /\ journal' = journal
      /\ x.pid = call[c].pid
  BY <1>1 DEF Incurs
<1>3. SameBooks("paid")
  BY <1>2, BooksIncur
<1>4. \A p : ~Paying(c, p)
  BY <1>2 DEF Paying, Owes
<1> QED
  BY <1>2, <1>3, <1>4, CommissionFrame

\* ... of something else.
LEMMA CommissionElsewhere ==
    ASSUME SettleInv, RecordsInv, RecordsInv', CommissionInv, NEW c \in Caller,
           \/ (\E p \in Minted : Settle(c, p)) \/ Status(c) \/ LoadCommission(c) \/ CheckSettled(c)
           \/ LoadReserve(c, "accrue", "accrued?") \/ LoadReserve(c, "child", "claim")
           \/ HydrateReserve(c) \/ Accrue(c) \/ Claim(c) \/ Tick(c) \/ Plain(c)
    PROVE  CommissionInv'
<1>1. ASSUME NEW p \in Minted, Settle(c, p) PROVE CommissionInv'
  <2>1. /\ Quietly(c) /\ pc[c] = "idle" /\ pc'[c] = "settle"
        /\ UNCHANGED <<journal, commission, rehydrated, lost>> /\ (~raced' => ~raced)
    BY <1>1, SettleMoves
  <2> QED
    BY <2>1, CommissionQuiet DEF Calm
<1>2. CASE Status(c)
  <2>1. /\ Quietly(c) /\ pc[c] = "idle" /\ pc'[c] = "velocity" /\ call'[c].pid \notin Minted
        /\ UNCHANGED <<journal, commission, raced, rehydrated, lost>>
    BY <1>2, StatusMoves
  <2> QED
    BY <2>1, CommissionQuiet DEF Calm
<1>3. CASE LoadCommission(c)
  <2>1. /\ Quietly(c) /\ pc[c] = "settle"
        /\ \/ commission.hydrated /\ pc'[c] = "settled?"
           \/ pc'[c] = "cload" /\ call'[c].log = journal
        /\ UNCHANGED <<journal, commission, raced, rehydrated, lost>>
    BY <1>3, LoadCommissionMoves
  <2> QED
    BY <2>1, CommissionQuiet DEF Calm
<1>4. CASE CheckSettled(c)
  <2>1. /\ pc[c] = "settled?" /\ UNCHANGED <<journal, commission, raced, rehydrated, lost>>
        /\ \/ Quietly(c) /\ pc'[c] = "idle" /\ call'[c].pid \notin Minted
           \/ \E r : Incurs(c, r) /\ r.fact = "commission"
    BY <1>4, CheckSettledMoves
  <2>2. CASE \E r : Incurs(c, r) /\ r.fact = "commission"
    BY <2>1, <2>2, CommissionIncurs DEF Calm
  <2> QED
    BY <2>1, <2>2, CommissionQuiet DEF Calm
<1>5. ASSUME NEW at \in {"accrue", "child"}, NEW after \in {"accrued?", "claim"},
             LoadReserve(c, at, after)
      PROVE  CommissionInv'
  <2>1. /\ Quietly(c) /\ pc[c] = at /\ call'[c].pid = call[c].pid /\ pc'[c] \in {after, "rload"}
        /\ UNCHANGED <<journal, commission, raced, rehydrated, lost>>
    BY <1>5, LoadReserveMoves
  <2> QED
    BY <2>1, CommissionQuiet DEF Calm
<1>6. CASE HydrateReserve(c)
  <2>1. /\ Quietly(c) /\ pc[c] = "rload" /\ pc'[c] \in {"accrued?", "claim"}
        /\ call'[c].pid = call[c].pid /\ (~rehydrated' => ~rehydrated)
        /\ UNCHANGED <<journal, commission, raced, lost>>
    BY <1>6, HydrateReserveMoves
  <2> QED
    BY <2>1, CommissionQuiet DEF Calm
<1>7. CASE Accrue(c)
  <2>1. /\ pc[c] = "accrued?" /\ UNCHANGED <<journal, commission, raced, rehydrated, lost>>
        /\ \/ Quietly(c) /\ pc'[c] = "idle" /\ call'[c].pid \notin Minted
           \/ \E r : Incurs(c, r) /\ r.fact = "accrual"
    BY <1>7, AccrueMoves
  <2>2. CASE \E r : Incurs(c, r) /\ r.fact = "accrual"
    BY <2>1, <2>2, CommissionIncurs DEF Calm
  <2> QED
    BY <2>1, <2>2, CommissionQuiet DEF Calm
<1>8. CASE Claim(c)
  <2>1. /\ pc[c] = "claim" /\ UNCHANGED <<journal, commission, raced, rehydrated, lost>>
        /\ \/ Quietly(c) /\ pc'[c] = "idle" /\ call'[c].pid \notin Minted
           \/ \E r : Incurs(c, r) /\ r.fact = "released"
    BY <1>8, ClaimMoves
  <2>2. CASE \E r : Incurs(c, r) /\ r.fact = "released"
    BY <2>1, <2>2, CommissionIncurs DEF Calm
  <2> QED
    BY <2>1, <2>2, CommissionQuiet DEF Calm
<1>9. CASE Tick(c)
  <2>1. /\ pc[c] = "velocity" /\ UNCHANGED <<journal, commission, raced, rehydrated, lost>>
        /\ \/ Quietly(c) /\ pc'[c] = "idle" /\ call'[c].pid \notin Minted
           \/ \E r : Incurs(c, r) /\ r.fact = "activated"
    BY <1>9, TickMoves
  <2>2. CASE \E r : Incurs(c, r) /\ r.fact = "activated"
    BY <2>1, <2>2, CommissionIncurs DEF Calm
  <2> QED
    BY <2>1, <2>2, CommissionQuiet DEF Calm
<1>10. CASE Plain(c)
  <2>1. /\ Quietly(c) /\ pc[c] # "pay" /\ call'[c].pid \notin Minted /\ pc'[c] # "cload"
        /\ UNCHANGED <<commission, raced, rehydrated, lost>>
    BY <1>10, PlainMoves
  <2>2. Of(journal', "commission") = Of(journal, "commission")
    BY <2>1 DEF Quietly, SameBooks, MoneyFact
  <2> QED
    BY <2>1, <2>2, CommissionQuiet DEF Calm
<1> QED
  BY <1>1, <1>2, <1>3, <1>4, <1>5, <1>6, <1>7, <1>8, <1>9, <1>10

\* The commission is hydrated ...
LEMMA HydrateCommissionKeeps ==
    ASSUME SettleInv, RecordsInv, CommissionInv, NEW c \in Caller, HydrateCommission(c)
    PROVE  CommissionInv'
<1>1. PICK x, log : x = call'[c] /\ log = call[c].log
  OBVIOUS
<1>2. /\ Quietly(c) /\ pc[c] = "cload" /\ commission' = CommissionFrom(log)
      /\ rehydrated' = (rehydrated \/ commission.hydrated)
      /\ UNCHANGED <<journal, raced, lost>>
  BY <1>1, HydrateCommissionMoves
<1>3. /\ commission'.hydrated = TRUE /\ commission'.settled = Of(log, "commission")
      /\ \A n \in Node : commission'.credits[n] = TotalTo(log, "paid", n)
  BY <1>2 DEF CommissionFrom
<1>4. ASSUME Calm'
      PROVE  /\ \A n \in Node : commission'.credits[n] = BookedTo("paid", n)'
             /\ commission'.settled = Of(journal', "commission")
  <2>1. Calm /\ ~commission.hydrated
    BY <1>2, <1>4 DEF Calm
  <2>2. AgreesOnPayments(log)
    BY <1>1, <1>2, <2>1 DEF CommissionInv
  <2>3. ASSUME NEW d \in Caller PROVE ~Owes(d, "paid")
    <3>1. ~(call[d].pid \in Minted /\ pc[d] = "append")
      BY <2>1 DEF CommissionInv
    <3> QED
      BY <3>1, CallIsOk DEF CallOk, Owes, SettlementFact
  <2>4. \A n : BookedTo("paid", n) = TotalTo(journal, "paid", n)
    BY <2>3, BooksAtRest
  <2>5. SameBooks("paid")
    BY <1>2 DEF Quietly, MoneyFact
  <2> QED
    BY <1>2, <1>3, <2>2, <2>4, <2>5 DEF AgreesOnPayments, SameBooks
<1> QED
  BY <1>3, <1>4 DEF CommissionInv

\* ... and credits a node.
LEMMA PayNodeKeeps ==
    ASSUME SettleInv, RecordsInv, FreshInv, CommissionInv, NEW c \in Caller, PayNode(c)
    PROVE  CommissionInv'
<1>1. PICK p, x : p = call[c].pid /\ x = call'[c]
  OBVIOUS
<1>2. /\ pc[c] = "pay" /\ p \in Minted /\ UNCHANGED <<journal, raced, rehydrated, lost>>
      /\ \/ /\ Quietly(c) /\ pc'[c] = "accrue" /\ x.pid = p
            /\ commission' = [commission EXCEPT !.settled = @ \cup {p}]
         \/ \E r : /\ Incurs(c, r) /\ r.fact = "paid" /\ r.amount = Payment /\ r.who \in Node
                   /\ commission' = [commission EXCEPT !.credits[r.who] = @ + Payment]
  BY <1>1, PayNodeMoves
<1>3. PICK h, S, cr : /\ commission = [hydrated |-> h, settled |-> S, credits |-> cr]
                      /\ cr \in [Node -> Nat] /\ h = commission.hydrated /\ S = commission.settled
                      /\ cr = commission.credits
  BY DEF RecordsInv, Remembered, IsCommission
<1>4. h = TRUE
  BY <1>1, <1>2, <1>3 DEF CommissionInv
<1>5. Calm' => Calm
  BY <1>2 DEF Calm
<1>6. Facts("commission", p) # {}
  BY <1>1, <1>2 DEF FreshInv, Stated
<1>7. p \in Of(journal, "commission")
  BY <1>6 DEF Facts, Of
<1>8. \A d \in Caller \ {c} : pc'[d] = pc[d] /\ call'[d] = call[d]
  BY <1>2 DEF Quietly, Incurs, Becomes
<1>9. \A d \in Caller \ {c} : \A q : Paying(d, q)' <=> Paying(d, q)
  BY <1>8 DEF Paying, Owes
<1>10. Calm' => /\ \A n \in Node : cr[n] = BookedTo("paid", n)
                /\ S \subseteq Of(journal, "commission")
                /\ \A q \in Of(journal, "commission") \ S : \E d \in Caller : Paying(d, q)
  BY <1>3, <1>4, <1>5 DEF CommissionInv
<1>11. CASE /\ Quietly(c) /\ pc'[c] = "accrue" /\ x.pid = p
            /\ commission' = [commission EXCEPT !.settled = @ \cup {p}]
  <2>1. commission' = [hydrated |-> h, settled |-> S \cup {p}, credits |-> cr]
    BY <1>3, <1>11
  <2>2. SameBooks("paid")
    BY <1>11 DEF Quietly, MoneyFact
  <2>3. Calm' => \A n \in Node : commission'.credits[n] = BookedTo("paid", n)'
    BY <1>10, <2>1, <2>2 DEF SameBooks
  <2>4. Calm' => commission'.settled \subseteq Of(journal', "commission")
    BY <1>2, <1>7, <1>10, <2>1
  <2>5. ASSUME Calm', NEW q \in Of(journal', "commission") \ commission'.settled
        PROVE  \E d \in Caller : Paying(d, q)'
    <3>1. q \in Of(journal, "commission") \ S /\ q # p
      BY <1>2, <2>1, <2>5
    <3>2. PICK d \in Caller : Paying(d, q)
      BY <1>10, <2>5, <3>1
    <3>3. d # c
      BY <1>1, <3>1, <3>2 DEF Paying
    <3> QED
      BY <1>9, <3>2, <3>3
  <2>6. commission'.hydrated = TRUE
    BY <1>4, <2>1
  <2> QED
    BY <2>3, <2>4, <2>5, <2>6 DEF CommissionInv
<1>12. ASSUME NEW r, Incurs(c, r), r.fact = "paid", r.amount = Payment, r.who \in Node,
              commission' = [commission EXCEPT !.credits[r.who] = @ + Payment]
       PROVE  CommissionInv'
  <2>1. commission' = [hydrated |-> h, settled |-> S, credits |-> [cr EXCEPT ![r.who] = @ + Payment]]
    BY <1>3, <1>12
  <2>2. /\ Becomes(c, "append", x) /\ x.due = r /\ r.amount \in Nat /\ pc[c] # "append"
        /\ pc'[c] = "append" /\ x.pid = p
    BY <1>1, <1>12 DEF Incurs
  <2>3. \A n : BookedTo("paid", n)' = BookedTo("paid", n) + (IF r.who = n THEN r.amount ELSE 0)
    BY <1>2, <1>12, <2>2, BooksIncur
  <2>4. ASSUME Calm', NEW n \in Node PROVE commission'.credits[n] = BookedTo("paid", n)'
    <3>1. cr[n] = BookedTo("paid", n) /\ cr[n] \in Nat
      BY <1>3, <1>10, <2>4
    <3>2. commission'.credits[n] = IF n = r.who THEN cr[n] + Payment ELSE cr[n]
      BY <1>3, <2>1
    <3>3. BookedTo("paid", n)' = cr[n] + (IF r.who = n THEN Payment ELSE 0)
      BY <1>12, <2>3, <3>1
    <3> QED
      BY <3>1, <3>2, <3>3
  <2>5. ASSUME Calm', NEW q \in Of(journal', "commission") \ commission'.settled
        PROVE  \E d \in Caller : Paying(d, q)'
    <3>1. q \in Of(journal, "commission") \ S
      BY <1>2, <2>1, <2>5
    <3>2. PICK d \in Caller : Paying(d, q)
      BY <1>10, <2>5, <3>1
    <3>3. CASE d # c
      BY <1>9, <3>2, <3>3
    <3>4. CASE d = c
      <4>1. q = p
        BY <1>1, <3>2, <3>4 DEF Paying
      <4>2. Paying(c, p)'
        BY <1>1, <1>12, <2>2 DEF Paying, Owes
      <4> QED
        BY <4>1, <4>2
    <3> QED
      BY <3>3, <3>4
  <2>6. commission'.hydrated = TRUE /\ (Calm' => commission'.settled \subseteq Of(journal', "commission"))
    BY <1>2, <1>4, <1>10, <2>1
  <2> QED
    BY <2>4, <2>5, <2>6 DEF CommissionInv
<1> QED
  BY <1>2, <1>11, <1>12


\* A record is appended.
LEMMA CommissionAppend ==
    ASSUME SettleInv, RecordsInv, FreshInv, CommissionInv, NEW c \in Caller, AppendDue(c)
    PROVE  CommissionInv'
<1>1. PICK r, p, l, x : r = call[c].due /\ p = call[c].pid /\ l = pc'[c] /\ x = call'[c]
  OBVIOUS
<1>2. /\ Becomes(c, l, x) /\ pc[c] = "append"
      /\ UNCHANGED <<commission, raced, rehydrated, lost>>
      /\ \/ l = "idle" /\ x.pid \notin Minted /\ r.fact \notin {"commission", "paid"}
         \/ l = "pay" /\ x.pid = p /\ p \in Minted /\ r.fact \in {"commission", "paid"}
         \/ l = "remint" /\ x.pid = p /\ p \notin Minted /\ r.fact = "released"
      /\ \/ journal' = journal /\ (raced \/ r.fact \notin SettlementFact \cup {"released"})
         \/ journal' = Append(journal, r)
      /\ r.fact \in SettlementFact => r.pid = p
      /\ \A f : f # r.fact => SameBooks(f)
      /\ ~raced => \A n : BookedTo("paid", n)' = BookedTo("paid", n)
  BY <1>1, AppendDueMoves DEF MoneyFact
<1>3. PICK k : k = commission.hydrated /\ k = commission'.hydrated /\ k \in BOOLEAN
  BY <1>2 DEF CommissionInv
<1>4. /\ pc'[c] = l /\ call'[c] = x
      /\ \A d \in Caller \ {c} : pc'[d] = pc[d] /\ call'[d] = call[d]
  BY <1>2 DEF Becomes
<1>5. ~k => p \notin Minted
  BY <1>1, <1>2, <1>3 DEF CommissionInv
<1>6. ~k => \A d \in Caller : call'[d].pid \in Minted => pc'[d] \in {"settle", "cload"}
  BY <1>2, <1>3, <1>4, <1>5 DEF CommissionInv
<1>7. Calm' => Calm
  BY <1>2 DEF Calm
<1>8. ASSUME Calm', ~k, NEW d \in Caller, pc'[d] = "cload" PROVE AgreesOnPayments(call[d].log)'
  <2>1. d # c
    BY <1>2, <1>4, <1>8
  <2>2. AgreesOnPayments(call[d].log) /\ call'[d] = call[d]
    BY <1>3, <1>4, <1>7, <1>8, <2>1 DEF CommissionInv
  <2>3. r.fact \notin SettlementFact
    <3>1. CallOk(c) /\ p \notin Minted
      BY <1>5, <1>8, CallIsOk
    <3> QED
      BY <1>1, <1>2, <3>1 DEF CallOk
  <2>4. SameBooks("paid") /\ SameBooks("commission")
    BY <1>2, <2>3 DEF SettlementFact
  <2>5. PICK log : log = call[d].log /\ log = call'[d].log
    BY <2>2
  <2>6. /\ \A n : TotalTo(log, "paid", n) = TotalTo(journal', "paid", n)
        /\ Of(log, "commission") = Of(journal', "commission")
    BY <2>2, <2>4, <2>5 DEF AgreesOnPayments, SameBooks
  <2> QED
    BY <2>5, <2>6 DEF AgreesOnPayments
<1>9. ASSUME Calm', k
      PROVE  /\ \A n \in Node : commission'.credits[n] = BookedTo("paid", n)'
             /\ commission'.settled \subseteq Of(journal', "commission")
             /\ \A q \in Of(journal', "commission") \ commission'.settled : \E d \in Caller : Paying(d, q)'
  <2>1. /\ \A n \in Node : commission.credits[n] = BookedTo("paid", n)
        /\ commission.settled \subseteq Of(journal, "commission")
        /\ \A q \in Of(journal, "commission") \ commission.settled : \E d \in Caller : Paying(d, q)
    BY <1>3, <1>7, <1>9 DEF CommissionInv
  <2>2. ~raced
    BY <1>7, <1>9 DEF Calm
  <2>3. \A d \in Caller \ {c} : \A q : Paying(d, q) => Paying(d, q)'
    BY <1>4 DEF Paying, Owes
  <2>4. \A q : Paying(c, q) => r.fact = "paid" /\ q = p
    BY <1>1, <1>2 DEF Paying, Owes
  <2>5. r.fact \in {"commission", "paid"} => Paying(c, p)'
    BY <1>2, <1>4 DEF Paying
  <2>6. \A q : (\E d \in Caller : Paying(d, q)) => \E d \in Caller : Paying(d, q)'
    BY <2>3, <2>4, <2>5
  <2>7. CASE r.fact = "commission"
    <3>1. journal' = Append(journal, r) /\ r.pid = p
      BY <1>2, <2>2, <2>7 DEF SettlementFact
    <3>2. Of(journal', "commission") = Of(journal, "commission") \cup {p}
      BY <2>7, <3>1, OfOthers
    <3> QED
      BY <1>2, <2>1, <2>2, <2>5, <2>6, <2>7, <3>2
  <2>8. CASE r.fact # "commission"
    <3>1. Of(journal', "commission") = Of(journal, "commission")
      BY <1>2, <2>8 DEF SameBooks
    <3> QED
      BY <1>2, <2>1, <2>2, <2>6, <3>1
  <2> QED
    BY <2>7, <2>8
<1> QED
  BY <1>3, <1>6, <1>8, <1>9 DEF CommissionInv

\* CommissionInv is kept by every step ...
LEMMA NextCommission ==
    ASSUME SettleInv, RecordsInv, RecordsInv', FreshInv, CommissionInv, Next
    PROVE  CommissionInv'
<1>1. CASE Restart
  <2>1. /\ commission' = ColdCommission
        /\ pc' = [c \in Caller |-> "idle"]
        /\ call' = [c \in Caller |-> NoCall]
    BY <1>1 DEF Restart, SettlementRestart
  <2>2. \A c \in Caller : pc'[c] = "idle" /\ call'[c].pid \notin Minted
    BY <2>1, NoCallIs, FreshAssumption
  <2>3. commission'.hydrated = FALSE
    BY <2>1, ColdIs
  <2> QED
    BY <2>2, <2>3 DEF CommissionInv
<1>2. ASSUME NEW c \in Caller, AppendFails(c) PROVE CommissionInv'
  <2>1. /\ Becomes(c, "idle", call'[c]) /\ call'[c].pid \notin Minted /\ lost' /\ commission' = commission
    BY <1>2, AppendFailsMoves
  <2>2. PICK k : k = commission.hydrated /\ k = commission'.hydrated /\ k \in BOOLEAN
    BY <2>1 DEF CommissionInv
  <2>3. ~k => \A d \in Caller : call'[d].pid \in Minted => pc'[d] \in {"settle", "cload"}
    BY <2>1, <2>2 DEF CommissionInv, Becomes
  <2>4. ~Calm'
    BY <2>1 DEF Calm
  <2> QED
    BY <2>2, <2>3, <2>4 DEF CommissionInv
<1> QED
  BY <1>1, <1>2, Steps, CommissionElsewhere, HydrateCommissionKeeps, PayNodeKeeps, CommissionAppend

\* ... and holds at first.
LEMMA InitCommission == Init => CommissionInv
<1> SUFFICES ASSUME Init PROVE CommissionInv
  OBVIOUS
<1>1. /\ commission = ColdCommission
      /\ pc = [c \in Caller |-> "idle"] /\ call = [c \in Caller |-> NoCall]
  BY DEF Init, SettlementInit
<1>2. \A c \in Caller : pc[c] = "idle" /\ call[c].pid \notin Minted
  BY <1>1, NoCallIs, FreshAssumption
<1>3. commission.hydrated = FALSE
  BY <1>1, ColdIs
<1> QED
  BY <1>2, <1>3 DEF CommissionInv

\* Where nothing changes, the books do not.
LEMMA BooksStutter ==
    ASSUME UNCHANGED <<journal, pc, call>>
    PROVE  /\ \A f : Booked(f)' = Booked(f) /\ BookedCount(f)' = BookedCount(f)
           /\ \A f, n : BookedTo(f, n)' = BookedTo(f, n)
           /\ \A f : Number(f)' = Number(f)
           /\ \A c \in Caller : \A f : Owes(c, f)' <=> Owes(c, f)
<1>1. ASSUME NEW f, NEW n
      PROVE  /\ Owed(f)' = Owed(f) /\ OwedCount(f)' = OwedCount(f)
             /\ OwedTo(f, n)' = OwedTo(f, n)
  <2>1. /\ [c \in Caller |-> Share(c, f)]' = [c \in Caller |-> Share(c, f)]
        /\ [c \in Caller |-> ShareTo(c, f, n)]' = [c \in Caller |-> ShareTo(c, f, n)]
        /\ [c \in Caller |-> IF Owes(c, f) THEN 1 ELSE 0]' = [c \in Caller |-> IF Owes(c, f) THEN 1 ELSE 0]
    BY DEF Share, ShareTo, Owes
  <2> QED
    BY <2>1 DEF Owed, OwedCount, OwedTo
<1>2. \A c \in Caller : \A f : Owes(c, f)' <=> Owes(c, f)
  BY DEF Owes
<1> QED
  BY <1>1, <1>2 DEF Booked, BookedCount, BookedTo, Number

\* It does not depend on anything else.
LEMMA StutterCommission ==
    ASSUME CommissionInv, UNCHANGED <<journal, pc, call, commission, raced, rehydrated, lost>>
    PROVE  CommissionInv'
<1>1. /\ \A n : BookedTo("paid", n)' = BookedTo("paid", n)
      /\ \A c \in Caller : Owes(c, "paid")' <=> Owes(c, "paid")
  BY BooksStutter
<1>2. \A c \in Caller : \A p : Paying(c, p)' <=> Paying(c, p)
  BY <1>1 DEF Paying
<1>3. (Calm' <=> Calm) /\ \A log : AgreesOnPayments(log)' <=> AgreesOnPayments(log)
  BY DEF Calm, AgreesOnPayments
<1>4. \A c \in Caller : AgreesOnPayments(call[c].log)' <=> AgreesOnPayments(call[c].log)
  BY DEF AgreesOnPayments
<1> QED
  BY <1>1, <1>2, <1>3, <1>4 DEF CommissionInv


(***************************************************************************)
(* ReserveInv: the reserve remembers what is accrued and released, and does*)
(* not release more than it has.                                           *)
(***************************************************************************)
Accrues(p) == \E c \in Caller : Owes(c, "accrual") /\ call[c].pid = p

AgreesOnReserve(log) ==
    /\ Total(log, "accrual") = Total(journal, "accrual")
    /\ Total(log, "released") = Total(journal, "released")
    /\ Count(log, "accrual") = Count(journal, "accrual")
    /\ Of(log, "accrual") = Of(journal, "accrual")

ReserveIsBooked ==
    /\ reserve.own = Booked("accrual") - Booked("released")
    /\ reserve.volume = Volume * BookedCount("accrual")
    /\ \A p : p \in reserve.accrued <=> p \in Of(journal, "accrual") \/ Accrues(p)

ReserveInv ==
    /\ reserve.hydrated \in BOOLEAN
    /\ ~reserve.hydrated =>
        /\ reserve.own = 0
        /\ \A c \in Caller : /\ pc[c] \notin {"accrued?", "claim"}
                             /\ ~Owes(c, "accrual") /\ ~Owes(c, "released")
    /\ Calm /\ ~reserve.hydrated =>
        \A c \in Caller : pc[c] = "rload" => AgreesOnReserve(call[c].log)
    /\ Calm /\ reserve.hydrated => ReserveIsBooked
    /\ Calm /\ ~cut => Booked("released") <= Booked("accrual")

\* A step that is not the reserve's.
LEMMA ReserveFrame ==
    ASSUME ReserveInv, NEW c \in Caller, NEW l, NEW x, Becomes(c, l, x), reserve' = reserve,
           Calm' => Calm, cut' = cut, SameBooks("accrual"), SameBooks("released"),
           ~Owes(c, "accrual"), l = "append" => x.due.fact \notin {"accrual", "released"},
           l \in {"accrued?", "claim"} => reserve.hydrated,
           l = "rload" => x.log = journal'
    PROVE  ReserveInv'
<1>1. /\ pc'[c] = l /\ call'[c] = x
      /\ \A d \in Caller \ {c} : pc'[d] = pc[d] /\ call'[d] = call[d]
  BY DEF Becomes
<1>2. PICK k : k = reserve'.hydrated /\ k = reserve.hydrated /\ k \in BOOLEAN
  BY DEF ReserveInv
<1>3. \A d \in Caller \ {c} : \A f : Owes(d, f)' <=> Owes(d, f)
  BY <1>1 DEF Owes
<1>4. ~Owes(c, "accrual")' /\ ~Owes(c, "released")'
  BY <1>1 DEF Owes
<1>5. ~k => /\ reserve'.own = 0
            /\ \A d \in Caller : /\ pc'[d] \notin {"accrued?", "claim"}
                                 /\ ~Owes(d, "accrual")' /\ ~Owes(d, "released")'
  BY <1>1, <1>2, <1>3, <1>4 DEF ReserveInv
<1>6. ASSUME Calm', ~k, NEW d \in Caller, pc'[d] = "rload" PROVE AgreesOnReserve(call[d].log)'
  <2>1. PICK log : log = call'[d].log
    OBVIOUS
  <2>2. log = journal' \/ AgreesOnReserve(log)
    BY <1>1, <1>2, <1>6, <2>1 DEF ReserveInv
  <2>3. /\ Total(log, "accrual") = Total(journal', "accrual")
        /\ Total(log, "released") = Total(journal', "released")
        /\ Count(log, "accrual") = Count(journal', "accrual")
        /\ Of(log, "accrual") = Of(journal', "accrual")
    BY <2>2 DEF AgreesOnReserve, SameBooks
  <2> QED
    BY <2>1, <2>3 DEF AgreesOnReserve
<1>7. \A p : Accrues(p)' <=> Accrues(p)
  BY <1>1, <1>3, <1>4 DEF Accrues
<1>8. ASSUME Calm', k PROVE ReserveIsBooked'
  <2>1. ReserveIsBooked
    BY <1>2, <1>8 DEF ReserveInv
  <2> QED
    BY <1>7, <2>1 DEF ReserveIsBooked, SameBooks
<1>9. Calm' /\ ~cut' => Booked("released")' <= Booked("accrual")'
  BY DEF ReserveInv, SameBooks
<1> QED
  BY <1>2, <1>5, <1>6, <1>8, <1>9 DEF ReserveInv

\* A step that leaves the books alone, ...
LEMMA ReserveQuiet ==
    ASSUME ReserveInv, NEW c \in Caller, Quietly(c), reserve' = reserve, Calm' => Calm, cut' = cut,
           pc'[c] \in {"accrued?", "claim"} => reserve.hydrated,
           pc'[c] = "rload" => call'[c].log = journal'
    PROVE  ReserveInv'
<1>1. PICK l, x : l = pc'[c] /\ x = call'[c]
  OBVIOUS
<1>2. /\ Becomes(c, l, x) /\ SameBooks("accrual") /\ SameBooks("released") /\ ~Owes(c, "accrual")
      /\ ~Owes(c, "accrual")' /\ ~Owes(c, "released")'
  BY <1>1 DEF Quietly, MoneyFact
<1>3. l = "append" => x.due.fact \notin {"accrual", "released"}
  BY <1>1, <1>2 DEF Owes
<1> QED
  BY <1>1, <1>2, <1>3, ReserveFrame

\* ... one that owes a record ...
LEMMA ReserveIncurs ==
    ASSUME SettleInv, RecordsInv, ReserveInv, NEW c \in Caller, NEW r, Incurs(c, r),
           r.fact \notin {"accrual", "released"}, reserve' = reserve, Calm' => Calm, cut' = cut
    PROVE  ReserveInv'
<1>1. PICK x : x = call'[c]
  OBVIOUS
<1>2. Becomes(c, "append", x) /\ x.due = r /\ r.amount \in Nat /\ pc[c] # "append" /\ journal' = journal
  BY <1>1 DEF Incurs
<1>3. SameBooks("accrual") /\ SameBooks("released")
  BY <1>2, BooksIncur
<1> QED
  BY <1>2, <1>3, ReserveFrame DEF Owes

\* ... of something else.
LEMMA ReserveElsewhere ==
    ASSUME SettleInv, RecordsInv, RecordsInv', ReserveInv, NEW c \in Caller,
           \/ (\E p \in Minted : Settle(c, p)) \/ Status(c) \/ LoadCommission(c)
           \/ HydrateCommission(c) \/ CheckSettled(c) \/ PayNode(c)
           \/ LoadReserve(c, "accrue", "accrued?") \/ LoadReserve(c, "child", "claim")
           \/ Tick(c) \/ Plain(c)
    PROVE  ReserveInv'
<1>1. ASSUME NEW p \in Minted, Settle(c, p) PROVE ReserveInv'
  <2>1. /\ Quietly(c) /\ pc'[c] = "settle"
        /\ UNCHANGED <<reserve, rehydrated, lost, cut>> /\ (~raced' => ~raced)
    BY <1>1, SettleMoves
  <2> QED
    BY <2>1, ReserveQuiet DEF Calm
<1>2. CASE Status(c)
  <2>1. Quietly(c) /\ pc'[c] = "velocity" /\ UNCHANGED <<reserve, raced, rehydrated, lost, cut>>
    BY <1>2, StatusMoves
  <2> QED
    BY <2>1, ReserveQuiet DEF Calm
<1>3. CASE LoadCommission(c)
  <2>1. /\ Quietly(c) /\ pc'[c] \in {"settled?", "cload"}
        /\ UNCHANGED <<reserve, raced, rehydrated, lost, cut>>
    BY <1>3, LoadCommissionMoves
  <2> QED
    BY <2>1, ReserveQuiet DEF Calm
<1>4. CASE HydrateCommission(c)
  <2>1. /\ Quietly(c) /\ pc'[c] = "settled?" /\ (~rehydrated' => ~rehydrated)
        /\ UNCHANGED <<reserve, raced, lost, cut>>
    BY <1>4, HydrateCommissionMoves
  <2> QED
    BY <2>1, ReserveQuiet DEF Calm
<1>5. CASE CheckSettled(c)
  <2>1. /\ UNCHANGED <<reserve, raced, rehydrated, lost, cut>>
        /\ \/ Quietly(c) /\ pc'[c] = "idle"
           \/ \E r : Incurs(c, r) /\ r.fact = "commission"
    BY <1>5, CheckSettledMoves
  <2>2. CASE \E r : Incurs(c, r) /\ r.fact = "commission"
    BY <2>1, <2>2, ReserveIncurs DEF Calm
  <2> QED
    BY <2>1, <2>2, ReserveQuiet DEF Calm
<1>6. CASE PayNode(c)
  <2>1. /\ UNCHANGED <<reserve, raced, rehydrated, lost, cut>>
        /\ \/ Quietly(c) /\ pc'[c] = "accrue"
           \/ \E r : Incurs(c, r) /\ r.fact = "paid"
    BY <1>6, PayNodeMoves
  <2>2. CASE \E r : Incurs(c, r) /\ r.fact = "paid"
    BY <2>1, <2>2, ReserveIncurs DEF Calm
  <2> QED
    BY <2>1, <2>2, ReserveQuiet DEF Calm
<1>7. ASSUME NEW at \in {"accrue", "child"}, NEW after \in {"accrued?", "claim"},
             LoadReserve(c, at, after)
      PROVE  ReserveInv'
  <2>1. /\ Quietly(c)
        /\ \/ reserve.hydrated /\ pc'[c] = after
           \/ pc'[c] = "rload" /\ call'[c].log = journal
        /\ UNCHANGED <<journal, reserve, raced, rehydrated, lost, cut>>
    BY <1>7, LoadReserveMoves
  <2> QED
    BY <2>1, ReserveQuiet DEF Calm
<1>8. CASE Tick(c)
  <2>1. /\ UNCHANGED <<reserve, raced, rehydrated, lost, cut>>
        /\ \/ Quietly(c) /\ pc'[c] = "idle"
           \/ \E r : Incurs(c, r) /\ r.fact = "activated"
    BY <1>8, TickMoves
  <2>2. CASE \E r : Incurs(c, r) /\ r.fact = "activated"
    BY <2>1, <2>2, ReserveIncurs DEF Calm
  <2> QED
    BY <2>1, <2>2, ReserveQuiet DEF Calm
<1>9. CASE Plain(c)
  <2>1. /\ Quietly(c) /\ pc'[c] \notin {"rload", "accrued?", "claim"}
        /\ UNCHANGED <<reserve, raced, rehydrated, lost, cut>>
    BY <1>9, PlainMoves
  <2> QED
    BY <2>1, ReserveQuiet DEF Calm
<1> QED
  BY <1>1, <1>2, <1>3, <1>4, <1>5, <1>6, <1>7, <1>8, <1>9

\* The reserve is hydrated.
LEMMA ReserveHydrates ==
    ASSUME SettleInv, RecordsInv, ReserveInv, NEW c \in Caller, HydrateReserve(c)
    PROVE  ReserveInv'
<1>1. PICK log : log = call[c].log
  OBVIOUS
<1>2. /\ Quietly(c) /\ pc[c] = "rload" /\ reserve' = ReserveFrom(log)
      /\ rehydrated' = (rehydrated \/ reserve.hydrated)
      /\ UNCHANGED <<journal, raced, lost, cut>>
  BY <1>1, HydrateReserveMoves
<1>3. /\ reserve'.hydrated = TRUE /\ reserve'.own = Total(log, "accrual") - Total(log, "released")
      /\ reserve'.accrued = Of(log, "accrual") /\ reserve'.volume = Volume * Count(log, "accrual")
  BY <1>2 DEF ReserveFrom
<1>4. SameBooks("accrual") /\ SameBooks("released")
  BY <1>2 DEF Quietly, MoneyFact
<1>5. ASSUME Calm' PROVE ReserveIsBooked'
  <2>1. Calm /\ ~reserve.hydrated
    BY <1>2, <1>5 DEF Calm
  <2>2. AgreesOnReserve(log)
    BY <1>1, <1>2, <2>1 DEF ReserveInv
  <2>3. \A d \in Caller : ~Owes(d, "accrual") /\ ~Owes(d, "released")
    BY <2>1 DEF ReserveInv
  <2>4. /\ Booked("accrual") = Total(journal, "accrual")
        /\ BookedCount("accrual") = Count(journal, "accrual")
        /\ Booked("released") = Total(journal, "released")
    BY <2>3, BooksAtRest
  <2>5. \A d \in Caller : ~Owes(d, "accrual")'
    BY <1>2, <2>3 DEF Quietly, Becomes, Owes, MoneyFact
  <2>6. \A p : ~Accrues(p)'
    BY <2>5 DEF Accrues
  <2> QED
    BY <1>2, <1>3, <1>4, <2>2, <2>4, <2>6 DEF ReserveIsBooked, AgreesOnReserve, SameBooks
<1>6. Calm' /\ ~cut' => Booked("released")' <= Booked("accrual")'
  BY <1>2, <1>4 DEF ReserveInv, SameBooks, Calm
<1> QED
  BY <1>3, <1>5, <1>6 DEF ReserveInv

\* The reserve accrues.
LEMMA ReserveAccrues ==
    ASSUME SettleInv, RecordsInv, ReserveInv, NEW c \in Caller, Accrue(c)
    PROVE  ReserveInv'
<1>1. PICK p, x : p = call[c].pid /\ x = call'[c]
  OBVIOUS
<1>2. /\ pc[c] = "accrued?" /\ p \in Minted
      /\ UNCHANGED <<journal, raced, rehydrated, lost, cut>>
      /\ \/ Quietly(c) /\ pc'[c] = "idle" /\ reserve' = reserve
         \/ /\ reserve' = [reserve EXCEPT !.own = @ + AstShare, !.volume = @ + Volume,
                                          !.accrued = @ \cup {p}]
            /\ \E r : Incurs(c, r) /\ r.fact = "accrual" /\ r.amount = AstShare /\ r.pid = p
  BY <1>1, AccrueMoves
<1>3. CASE Quietly(c) /\ pc'[c] = "idle" /\ reserve' = reserve
  BY <1>2, <1>3, ReserveQuiet DEF Calm
<1>4. ASSUME NEW r, Incurs(c, r), r.fact = "accrual", r.amount = AstShare,
             reserve' = [reserve EXCEPT !.own = @ + AstShare, !.volume = @ + Volume,
                                        !.accrued = @ \cup {p}]
      PROVE  ReserveInv'
  <2>1. /\ Becomes(c, "append", x) /\ x.due = r /\ r.amount \in Nat /\ pc[c] # "append"
        /\ pc'[c] = "append" /\ x.pid = p /\ journal' = journal
    BY <1>1, <1>4 DEF Incurs
  <2>2. /\ Booked("accrual")' = Booked("accrual") + AstShare
        /\ BookedCount("accrual")' = BookedCount("accrual") + 1
        /\ SameBooks("released")
    BY <1>4, <2>1, BooksIncur
  <2>3. PICK h, o, a, v : /\ reserve = [hydrated |-> h, own |-> o, accrued |-> a, volume |-> v]
                          /\ h = reserve.hydrated /\ o = reserve.own /\ a = reserve.accrued
                          /\ v = reserve.volume
    BY DEF SettleInv, IsReserve
  <2>4. reserve' = [hydrated |-> h, own |-> o + AstShare, accrued |-> a \cup {p}, volume |-> v + Volume]
    BY <1>4, <2>3
  <2>5. h = TRUE
    BY <1>2, <2>3 DEF ReserveInv
  <2>6. Calm' => Calm
    BY <1>2 DEF Calm
  <2>7. /\ Booked("accrual") \in Nat /\ Booked("released") \in Nat /\ BookedCount("accrual") \in Nat
        /\ AstShare \in Nat /\ Volume \in Nat
    <3>1. \A f : /\ Total(journal, f) \in Nat /\ Count(journal, f) \in Nat
                 /\ Owed(f) \in Nat /\ OwedCount(f) \in Nat
      BY BookedAmounts
    <3>2. \A f : Booked(f) \in Nat /\ BookedCount(f) \in Nat
      BY <3>1 DEF Booked, BookedCount
    <3> QED
      BY <3>2, AmountsAssumption
  <2>8. /\ pc'[c] = "append" /\ call'[c] = x
        /\ \A d \in Caller \ {c} : pc'[d] = pc[d] /\ call'[d] = call[d]
    BY <2>1 DEF Becomes
  <2>9. \A q : Accrues(q)' <=> Accrues(q) \/ q = p
    <3>1. Owes(c, "accrual")' /\ call'[c].pid = p
      BY <1>4, <2>1, <2>8 DEF Owes
    <3>2. ~Owes(c, "accrual")
      BY <2>1 DEF Owes
    <3>3. \A d \in Caller \ {c} : Owes(d, "accrual")' <=> Owes(d, "accrual")
      BY <2>8 DEF Owes
    <3> QED
      BY <2>8, <3>1, <3>2, <3>3 DEF Accrues
  <2>10. ASSUME Calm' PROVE ReserveIsBooked'
    <3>1. /\ o = Booked("accrual") - Booked("released")
          /\ v = Volume * BookedCount("accrual")
          /\ \A q : q \in a <=> q \in Of(journal, "accrual") \/ Accrues(q)
      BY <2>3, <2>5, <2>6, <2>10 DEF ReserveInv, ReserveIsBooked
    <3>2. o + AstShare = Booked("accrual")' - Booked("released")'
      BY <2>2, <2>7, <3>1 DEF SameBooks
    <3>3. v + Volume = Volume * BookedCount("accrual")'
      <4>1. PICK n \in Nat : n = BookedCount("accrual")
        BY <2>7
      <4>2. Volume * (n + 1) = Volume * n + Volume
        BY <2>7
      <4>3. BookedCount("accrual")' = n + 1 /\ v = Volume * n
        BY <2>2, <3>1, <4>1
      <4> QED
        BY <4>2, <4>3
    <3>4. \A q : q \in a \cup {p} <=> q \in Of(journal', "accrual") \/ Accrues(q)'
      BY <2>1, <2>9, <3>1
    <3> QED
      BY <2>4, <3>2, <3>3, <3>4 DEF ReserveIsBooked
  <2>11. Calm' /\ ~cut' => Booked("released")' <= Booked("accrual")'
    BY <1>2, <2>2, <2>6, <2>7 DEF ReserveInv, SameBooks
  <2>12. reserve'.hydrated = TRUE
    BY <2>4, <2>5
  <2> QED
    BY <2>10, <2>11, <2>12 DEF ReserveInv
<1> QED
  BY <1>2, <1>3, <1>4


\* Calls at rest owe nothing.
LEMMA NothingOwed ==
    ASSUME \A c \in Caller : pc'[c] = "idle"
    PROVE  \A f : Owed(f)' = 0 /\ OwedCount(f)' = 0
<1>1. IsFiniteSet(Caller)
  BY FiniteAssumption
<1>2. ASSUME NEW f PROVE Owed(f)' = 0 /\ OwedCount(f)' = 0
  <2>1. \A c \in Caller : ~Owes(c, f)'
    BY DEF Owes
  <2>2. PICK g, h : /\ g = [c \in Caller |-> Share(c, f)']
                    /\ h = [c \in Caller |-> IF Owes(c, f)' THEN 1 ELSE 0]
    OBVIOUS
  <2>3. /\ DOMAIN g = Caller /\ DOMAIN h = Caller
        /\ \A c \in Caller : g[c] = 0 /\ h[c] = 0
    BY <2>1, <2>2 DEF Share
  <2>4. SumFunction(g) = 0 /\ SumFunction(h) = 0
    BY <1>1, <2>3, SumOfNaturals
  <2>5. Owed(f)' = SumFunction(g)
    BY <2>2 DEF Owed
  <2>6. OwedCount(f)' = SumFunction(h)
    BY <2>2 DEF OwedCount
  <2> QED
    BY <2>4, <2>5, <2>6
<1> QED
  BY <1>2

\* A release claims on the reserve.
LEMMA ReserveClaims ==
    ASSUME SettleInv, RecordsInv, ReserveInv, NEW c \in Caller, Claim(c)
    PROVE  ReserveInv'
<1>1. PICK x : x = call'[c]
  OBVIOUS
<1>2. /\ pc[c] = "claim" /\ UNCHANGED <<journal, raced, rehydrated, lost, cut>>
      /\ \/ Quietly(c) /\ pc'[c] = "idle" /\ reserve' = reserve
         \/ \E r : /\ Incurs(c, r) /\ r.fact = "released" /\ ~(reserve.own < r.amount)
                   /\ reserve' = [reserve EXCEPT !.own = @ - r.amount]
  BY ClaimMoves
<1>3. CASE Quietly(c) /\ pc'[c] = "idle" /\ reserve' = reserve
  BY <1>2, <1>3, ReserveQuiet DEF Calm
<1>4. ASSUME NEW r, Incurs(c, r), r.fact = "released", ~(reserve.own < r.amount),
             reserve' = [reserve EXCEPT !.own = @ - r.amount]
      PROVE  ReserveInv'
  <2>1. /\ Becomes(c, "append", x) /\ x.due = r /\ r.amount \in Nat /\ pc[c] # "append"
        /\ journal' = journal
    BY <1>1, <1>4 DEF Incurs
  <2>2. /\ Booked("released")' = Booked("released") + r.amount
        /\ SameBooks("accrual")
    BY <1>4, <2>1, BooksIncur
  <2>3. PICK h, o, a, v : /\ reserve = [hydrated |-> h, own |-> o, accrued |-> a, volume |-> v]
                          /\ h = reserve.hydrated /\ o = reserve.own /\ a = reserve.accrued
                          /\ v = reserve.volume
    BY DEF SettleInv, IsReserve
  <2>4. reserve' = [hydrated |-> h, own |-> o - r.amount, accrued |-> a, volume |-> v]
    BY <1>4, <2>3
  <2>5. h = TRUE
    BY <1>2, <2>3 DEF ReserveInv
  <2>6. Calm' => Calm
    BY <1>2 DEF Calm
  <2>7. Booked("accrual") \in Nat /\ Booked("released") \in Nat
    <3>1. \A f : Total(journal, f) \in Nat /\ Owed(f) \in Nat
      BY BookedAmounts
    <3>2. \A f : Booked(f) \in Nat
      BY <3>1 DEF Booked
    <3> QED
      BY <3>2
  <2>8. /\ pc'[c] = "append" /\ call'[c] = x
        /\ \A d \in Caller \ {c} : pc'[d] = pc[d] /\ call'[d] = call[d]
    BY <2>1 DEF Becomes
  <2>9. \A d \in Caller : Owes(d, "accrual")' <=> Owes(d, "accrual")
    <3>1. ~Owes(c, "accrual")' /\ ~Owes(c, "accrual")
      BY <1>4, <2>1, <2>8 DEF Owes
    <3> QED
      BY <2>8, <3>1 DEF Owes
  <2>10. \A q : Accrues(q)' <=> Accrues(q)
    <3>1. ~Owes(c, "accrual")
      BY <2>1 DEF Owes
    <3> QED
      BY <2>8, <2>9, <3>1 DEF Accrues
  <2>11. Calm' => /\ o = Booked("accrual") - Booked("released")
                  /\ v = Volume * BookedCount("accrual")
                  /\ \A q : q \in a <=> q \in Of(journal, "accrual") \/ Accrues(q)
    BY <2>3, <2>5, <2>6 DEF ReserveInv, ReserveIsBooked
  <2>12. Calm' => o - r.amount = Booked("accrual")' - Booked("released")'
    BY <2>1, <2>2, <2>7, <2>11 DEF SameBooks
  <2>13. Calm' => ReserveIsBooked'
    BY <2>2, <2>4, <2>10, <2>11, <2>12 DEF ReserveIsBooked, SameBooks
  <2>14. Calm' /\ ~cut' => Booked("released")' <= Booked("accrual")'
    <3>1. ~(o < r.amount)
      BY <1>4, <2>3
    <3> QED
      BY <2>1, <2>2, <2>7, <2>11, <3>1 DEF SameBooks
  <2>15. reserve'.hydrated = TRUE
    BY <2>4, <2>5
  <2> QED
    BY <2>13, <2>14, <2>15 DEF ReserveInv
<1> QED
  BY <1>2, <1>3, <1>4

\* A record is appended.
LEMMA ReserveAppend ==
    ASSUME SettleInv, RecordsInv, FreshInv, ReserveInv, NEW c \in Caller, AppendDue(c)
    PROVE  ReserveInv'
<1>1. PICK r, p, l, x : r = call[c].due /\ p = call[c].pid /\ l = pc'[c] /\ x = call'[c]
  OBVIOUS
<1>2. /\ Becomes(c, l, x) /\ pc[c] = "append" /\ l \in {"idle", "pay", "remint"}
      /\ UNCHANGED <<reserve, raced, rehydrated, lost, cut>>
      /\ \/ journal' = journal /\ (raced \/ r.fact \notin SettlementFact \cup {"released"})
         \/ journal' = Append(journal, r)
      /\ r.fact \in SettlementFact => r.pid = p
      /\ \A f : f # r.fact => SameBooks(f)
      /\ ~raced => \A f \in {"accrual", "released"} :
            Booked(f)' = Booked(f) /\ BookedCount(f)' = BookedCount(f)
  BY <1>1, AppendDueMoves DEF MoneyFact
<1>3. PICK k : k = reserve.hydrated /\ k = reserve'.hydrated /\ k \in BOOLEAN
  BY <1>2 DEF ReserveInv
<1>4. /\ pc'[c] = l /\ call'[c] = x
      /\ \A d \in Caller \ {c} : pc'[d] = pc[d] /\ call'[d] = call[d]
  BY <1>2 DEF Becomes
<1>5. \A f : ~Owes(c, f)'
  BY <1>2, <1>4 DEF Owes
<1>6. \A d \in Caller \ {c} : \A f : Owes(d, f)' <=> Owes(d, f)
  BY <1>4 DEF Owes
<1>7. ~k => /\ reserve'.own = 0
            /\ \A d \in Caller : /\ pc'[d] \notin {"accrued?", "claim"}
                                 /\ ~Owes(d, "accrual")' /\ ~Owes(d, "released")'
  BY <1>2, <1>3, <1>4, <1>5, <1>6 DEF ReserveInv
<1>8. Calm' => Calm /\ ~raced
  BY <1>2 DEF Calm
<1>9. ASSUME Calm', ~k, NEW d \in Caller, pc'[d] = "rload" PROVE AgreesOnReserve(call[d].log)'
  <2>1. d # c
    BY <1>2, <1>4, <1>9
  <2>2. AgreesOnReserve(call[d].log) /\ call'[d] = call[d]
    BY <1>3, <1>4, <1>8, <1>9, <2>1 DEF ReserveInv
  <2>3. r.fact \notin {"accrual", "released"}
    BY <1>1, <1>2, <1>3, <1>9 DEF ReserveInv, Owes
  <2>4. SameBooks("accrual") /\ SameBooks("released")
    BY <1>2, <2>3
  <2>5. PICK log : log = call[d].log /\ log = call'[d].log
    BY <2>2
  <2>6. /\ Total(log, "accrual") = Total(journal', "accrual")
        /\ Total(log, "released") = Total(journal', "released")
        /\ Count(log, "accrual") = Count(journal', "accrual")
        /\ Of(log, "accrual") = Of(journal', "accrual")
    BY <2>2, <2>4, <2>5 DEF AgreesOnReserve, SameBooks
  <2> QED
    BY <2>5, <2>6 DEF AgreesOnReserve
<1>10. ASSUME Calm', k PROVE ReserveIsBooked'
  <2>1. ReserveIsBooked
    BY <1>3, <1>8, <1>10 DEF ReserveInv
  <2>2. ASSUME NEW q
        PROVE  q \in Of(journal', "accrual") \/ Accrues(q)' <=> q \in Of(journal, "accrual") \/ Accrues(q)
    <3>1. CASE r.fact = "accrual"
      <4>1. journal' = Append(journal, r) /\ r.pid = p
        BY <1>2, <1>8, <1>10, <3>1 DEF SettlementFact
      <4>2. Of(journal', "accrual") = Of(journal, "accrual") \cup {p}
        BY <3>1, <4>1, OfOthers
      <4>3. Accrues(p)
        BY <1>1, <1>2, <3>1 DEF Accrues, Owes
      <4>4. Accrues(q)' => Accrues(q)
        BY <1>4, <1>5, <1>6 DEF Accrues
      <4>5. Accrues(q) /\ q # p => Accrues(q)'
        BY <1>1, <1>4, <1>6 DEF Accrues
      <4> QED
        BY <4>2, <4>3, <4>4, <4>5
    <3>2. CASE r.fact # "accrual"
      <4>1. Of(journal', "accrual") = Of(journal, "accrual")
        BY <1>2, <3>2 DEF SameBooks
      <4>2. ~Owes(c, "accrual")
        BY <1>1, <3>2 DEF Owes
      <4>3. Accrues(q)' <=> Accrues(q)
        BY <1>4, <1>5, <1>6, <4>2 DEF Accrues
      <4> QED
        BY <4>1, <4>3
    <3> QED
      BY <3>1, <3>2
  <2> QED
    BY <1>2, <1>8, <1>10, <2>1, <2>2 DEF ReserveIsBooked
<1>11. Calm' /\ ~cut' => Booked("released")' <= Booked("accrual")'
  BY <1>2, <1>8 DEF ReserveInv
<1> QED
  BY <1>3, <1>7, <1>9, <1>10, <1>11 DEF ReserveInv

\* A restart.
LEMMA ReserveRestart ==
    ASSUME SettleInv, RecordsInv, ReserveInv, Restart
    PROVE  ReserveInv'
<1>1. /\ reserve' = ColdReserve /\ journal' = journal
      /\ pc' = [c \in Caller |-> "idle"]
      /\ cut' = (cut \/ \E c \in Caller : pc[c] = "append")
      /\ UNCHANGED <<raced, rehydrated, lost>>
  BY DEF Restart, SettlementRestart
<1>2. \A c \in Caller : pc'[c] = "idle"
  BY <1>1
<1>3. reserve'.hydrated = FALSE /\ reserve'.own = 0
  BY <1>1, ColdIs
<1>4. \A c \in Caller : ~Owes(c, "accrual")' /\ ~Owes(c, "released")'
  BY <1>2 DEF Owes
<1>5. ASSUME Calm', ~cut' PROVE Booked("released")' <= Booked("accrual")'
  <2>1. Booked("released") <= Booked("accrual")
    BY <1>1, <1>5 DEF ReserveInv, Calm
  <2>2. \A c \in Caller : \A f : ~Owes(c, f)
    BY <1>1, <1>5 DEF Owes
  <2>3. /\ Booked("released") = Total(journal, "released")
        /\ Booked("accrual") = Total(journal, "accrual")
    BY <2>2, BooksAtRest
  <2>4. Owed("released")' = 0 /\ Owed("accrual")' = 0
    BY <1>2, NothingOwed
  <2>5. Total(journal, "released") \in Nat /\ Total(journal, "accrual") \in Nat
    BY BookedAmounts
  <2>6. /\ Booked("released")' = Total(journal, "released")
        /\ Booked("accrual")' = Total(journal, "accrual")
    BY <1>1, <2>4, <2>5 DEF Booked
  <2> QED
    BY <2>1, <2>3, <2>6
<1> QED
  BY <1>2, <1>3, <1>4, <1>5 DEF ReserveInv

\* ReserveInv is kept by every step ...
LEMMA NextReserve ==
    ASSUME SettleInv, RecordsInv, RecordsInv', FreshInv, ReserveInv, Next
    PROVE  ReserveInv'
<1>1. ASSUME NEW c \in Caller, AppendFails(c) PROVE ReserveInv'
  <2>1. /\ Becomes(c, "idle", call'[c]) /\ pc'[c] = "idle" /\ lost' /\ reserve' = reserve
    BY <1>1, AppendFailsMoves
  <2>2. PICK k : k = reserve.hydrated /\ k = reserve'.hydrated /\ k \in BOOLEAN
    BY <2>1 DEF ReserveInv
  <2>3. \A d \in Caller \ {c} : pc'[d] = pc[d] /\ call'[d] = call[d]
    BY <2>1 DEF Becomes
  <2>4. ~k => /\ reserve'.own = 0
              /\ \A d \in Caller : /\ pc'[d] \notin {"accrued?", "claim"}
                                   /\ ~Owes(d, "accrual")' /\ ~Owes(d, "released")'
    BY <2>1, <2>2, <2>3 DEF ReserveInv, Owes
  <2>5. ~Calm'
    BY <2>1 DEF Calm
  <2> QED
    BY <2>2, <2>4, <2>5 DEF ReserveInv
<1> QED
  BY <1>1, Steps, ReserveRestart, ReserveElsewhere, ReserveHydrates, ReserveAccrues, ReserveClaims,
     ReserveAppend

\* ... and holds at first.
LEMMA InitReserve == Init => ReserveInv
<1> SUFFICES ASSUME Init PROVE ReserveInv
  OBVIOUS
<1>1. /\ reserve = ColdReserve /\ journal = <<>> /\ pc = [c \in Caller |-> "idle"]
  BY DEF Init, SettlementInit
<1>2. \A c \in Caller : pc[c] = "idle"
  BY <1>1
<1>3. reserve.hydrated = FALSE /\ reserve.own = 0
  BY <1>1, ColdIs
<1>4. \A c \in Caller : \A f : ~Owes(c, f)
  BY <1>2 DEF Owes
<1>5. SettleInv /\ RecordsInv
  BY InitRecords, InitSettles
<1>6. Booked("released") = 0 /\ Booked("accrual") = 0
  BY <1>1, <1>4, <1>5, BooksAtRest, EmptyLog
<1>7. Booked("released") <= Booked("accrual")
  BY <1>6
<1>8. \A c \in Caller : /\ pc[c] \notin {"accrued?", "claim", "rload"}
                         /\ ~Owes(c, "accrual") /\ ~Owes(c, "released")
  BY <1>2, <1>4
<1> QED
  BY <1>3, <1>7, <1>8 DEF ReserveInv

\* It does not depend on anything else.
LEMMA StutterReserve ==
    ASSUME ReserveInv, UNCHANGED <<journal, pc, call, reserve, raced, rehydrated, lost, cut>>
    PROVE  ReserveInv'
<1>1. /\ \A f : Booked(f)' = Booked(f) /\ BookedCount(f)' = BookedCount(f)
      /\ \A c \in Caller : \A f : Owes(c, f)' <=> Owes(c, f)
  BY BooksStutter
<1>2. \A p : Accrues(p)' <=> Accrues(p)
  BY <1>1 DEF Accrues
<1>3. (Calm' <=> Calm) /\ \A c \in Caller : AgreesOnReserve(call[c].log)' <=> AgreesOnReserve(call[c].log)
  BY DEF Calm, AgreesOnReserve
<1>4. ReserveIsBooked' <=> ReserveIsBooked
  BY <1>1, <1>2 DEF ReserveIsBooked
<1> QED
  BY <1>1, <1>3, <1>4 DEF ReserveInv


MoneyInv == SettleInv /\ RecordsInv /\ FreshInv /\ CommissionInv /\ ReserveInv

\* The memory of the commission and of the reserve agrees with the books, whatever happens.
LEMMA MoneyInvariance == Spec => [](MoneyInv /\ RecordsInv)
<1>1. Init => CommissionInv /\ ReserveInv
  BY InitCommission, InitReserve
<1>2. SettleInv /\ RecordsInv /\ RecordsInv' /\ FreshInv /\ CommissionInv /\ ReserveInv /\ [Next]_vars
      => CommissionInv' /\ ReserveInv'
  <2>1. UNCHANGED vars => UNCHANGED <<journal, pc, call, commission, reserve, raced, rehydrated, lost, cut>>
    BY DEF vars, settlementVars, services, running, history
  <2> QED
    BY <2>1, NextCommission, NextReserve, StutterCommission, StutterReserve
<1>3. MoneyInv <=> SettleInv /\ RecordsInv /\ FreshInv /\ CommissionInv /\ ReserveInv
  BY DEF MoneyInv
<1> QED
  BY <1>1, <1>2, <1>3, FreshInvariance, PTL DEF Spec

\* At rest the books are the journal.
LEMMA RestingOwesNothing ==
    ASSUME AtRest
    PROVE  \A c \in Caller : \A f : ~Owes(c, f)
BY DEF AtRest, Owes

\* What the services remember at rest is what a restart would rebuild from the journal.
THEOREM ReplayRebuildsMemory == Spec => []MemoryIsReplay
<1>1. MoneyInv => MemoryIsReplay
  <2> SUFFICES ASSUME MoneyInv, AtRest, Calm
               PROVE  /\ commission.hydrated => commission = CommissionFrom(journal)
                      /\ reserve.hydrated => reserve = ReserveFrom(journal)
    BY DEF MemoryIsReplay, Calm
  <2>1. SettleInv /\ RecordsInv /\ CommissionInv /\ ReserveInv
    BY DEF MoneyInv
  <2>2. \A f : /\ Booked(f) = Total(journal, f) /\ BookedCount(f) = Count(journal, f)
               /\ \A n : BookedTo(f, n) = TotalTo(journal, f, n)
    BY <2>1, RestingOwesNothing, BooksAtRest
  <2>3. ASSUME commission.hydrated PROVE commission = CommissionFrom(journal)
    <3>1. /\ \A n \in Node : commission.credits[n] = TotalTo(journal, "paid", n)
          /\ commission.settled \subseteq Of(journal, "commission")
          /\ \A p \in Of(journal, "commission") \ commission.settled : \E c \in Caller : Paying(c, p)
      BY <2>1, <2>2, <2>3 DEF CommissionInv
    <3>2. \A c \in Caller : \A p : ~Paying(c, p)
      BY RestingOwesNothing DEF Paying, AtRest
    <3>3. PICK h, s, k : /\ commission = [hydrated |-> h, settled |-> s, credits |-> k]
                         /\ h = commission.hydrated /\ s = commission.settled /\ k = commission.credits
      BY <2>1 DEF RecordsInv, Remembered, IsCommission
    <3>4. k \in [Node -> Nat] /\ h = TRUE
      BY <2>1, <2>3, <3>3 DEF RecordsInv, Remembered, IsCommission, CommissionInv
    <3>5. s = Of(journal, "commission")
      BY <3>1, <3>2, <3>3
    <3>6. k = [n \in Node |-> TotalTo(journal, "paid", n)]
      BY <3>1, <3>3, <3>4
    <3> QED
      BY <3>3, <3>4, <3>5, <3>6 DEF CommissionFrom
  <2>4. ASSUME reserve.hydrated PROVE reserve = ReserveFrom(journal)
    <3>1. ReserveIsBooked /\ \A p : ~Accrues(p)
      BY <2>1, <2>4, RestingOwesNothing DEF ReserveInv, Accrues
    <3>2. PICK h, o, a, v : /\ reserve = [hydrated |-> h, own |-> o, accrued |-> a, volume |-> v]
                            /\ h = reserve.hydrated /\ o = reserve.own /\ a = reserve.accrued
                            /\ v = reserve.volume
      BY <2>1 DEF SettleInv, IsReserve
    <3>3. h = TRUE
      BY <2>1, <2>4, <3>2 DEF ReserveInv
    <3>4. /\ o = Total(journal, "accrual") - Total(journal, "released")
          /\ v = Volume * Count(journal, "accrual")
      BY <2>2, <3>1, <3>2 DEF ReserveIsBooked
    <3>5. \A p : p \in a <=> p \in Of(journal, "accrual")
      BY <3>1, <3>2 DEF ReserveIsBooked
    <3> QED
      BY <3>2, <3>3, <3>4, <3>5 DEF ReserveFrom
  <2> QED
    BY <2>3, <2>4
<1> QED
  BY <1>1, MoneyInvariance, PTL

\* ReserveInv covers what was released.
LEMMA ReserveStaysCovered == MoneyInv => ReserveCoversReleases
<1> SUFFICES ASSUME MoneyInv, Calm, ~cut
             PROVE  /\ reserve.own >= 0
                    /\ AtRest => Total(journal, "released") <= Total(journal, "accrual")
  BY DEF ReserveCoversReleases, Calm
<1>1. SettleInv /\ RecordsInv /\ ReserveInv
  BY DEF MoneyInv
<1>2. Booked("released") <= Booked("accrual")
  BY <1>1 DEF ReserveInv
<1>3. Booked("released") \in Nat /\ Booked("accrual") \in Nat
  <2>1. \A f : Total(journal, f) \in Nat /\ Owed(f) \in Nat
    BY <1>1, BookedAmounts
  <2> QED
    BY <2>1 DEF Booked
<1>4. reserve.hydrated => reserve.own = Booked("accrual") - Booked("released")
  BY <1>1 DEF ReserveInv, ReserveIsBooked
<1>5. ~reserve.hydrated => reserve.own = 0
  BY <1>1 DEF ReserveInv
<1>6. reserve.own >= 0
  <2>1. PICK o, a, b : o = reserve.own /\ a = Booked("accrual") /\ b = Booked("released")
    OBVIOUS
  <2>2. o = a - b \/ o = 0
    BY <1>4, <1>5, <2>1
  <2>3. o >= 0
    BY <1>2, <1>3, <2>1, <2>2
  <2> QED
    BY <2>1, <2>3
<1>7. ASSUME AtRest PROVE Total(journal, "released") <= Total(journal, "accrual")
  BY <1>1, <1>2, <1>7, RestingOwesNothing, BooksAtRest
<1> QED
  BY <1>6, <1>7

\* The reserve is not overdrawn, in memory nor in the journal, however many releases and
\* accruals overlap.
THEOREM ReserveIsCovered == Spec => []ReserveCoversReleases
BY ReserveStaysCovered, MoneyInvariance, PTL


(***************************************************************************)
(* DaemonInv: what the daemon sees is backed by accruals, and what it      *)
(* activates it activates once.                                            *)
(***************************************************************************)
Backing == Volume * BookedCount("accrual")

VolumeInv ==
    ~raced /\ ~lost =>
        /\ reserve.volume <= Backing
        /\ \A c \in Caller : pc[c] = "velocity" => call[c].amount <= Backing
        /\ active => Backing > Threshold

ActivityInv ==
    /\ active \in BOOLEAN
    /\ Number("activated") = Count(journal, "activated")
    /\ BookedCount("activated") <= faults + (IF active THEN 1 ELSE 0)

DaemonInv == VolumeInv /\ ActivityInv

\* The volume in memory is a multiple.
LEMMA VolumeIs == Volume \in Nat /\ Threshold \in Nat
BY AmountsAssumption

\* More accruals back more.
LEMMA TimesGrows ==
    ASSUME NEW v \in Nat, NEW n \in Nat, NEW m \in Nat, n <= m
    PROVE  /\ v * n \in Nat /\ v * m \in Nat /\ v * n <= v * m
           /\ v * (n + 1) = v * n + v
<1>1. PICK k \in Nat : m = n + k
  <2>1. m - n \in Nat /\ m = n + (m - n)
    OBVIOUS
  <2> QED
    BY <2>1
<1>2. v * k \in Nat /\ v * n \in Nat
  OBVIOUS
<1>3. v * m = v * n + v * k
  BY <1>1
<1> QED
  BY <1>2, <1>3

\* What backs the volume are amounts.
LEMMA BackingIs ==
    ASSUME SettleInv, RecordsInv
    PROVE  /\ BookedCount("accrual") \in Nat /\ Backing \in Nat
           /\ Volume * Count(journal, "accrual") <= Backing
           /\ reserve.volume \in Nat /\ \A c \in Caller : call[c].amount \in Nat
<1>1. Count(journal, "accrual") \in Nat /\ OwedCount("accrual") \in Nat
  BY BookedAmounts
<1>2. /\ BookedCount("accrual") \in Nat /\ Count(journal, "accrual") <= BookedCount("accrual")
  BY <1>1 DEF BookedCount
<1>3. Backing \in Nat /\ Volume * Count(journal, "accrual") <= Backing
  BY <1>1, <1>2, VolumeIs, TimesGrows DEF Backing
<1> QED
  BY <1>2, <1>3 DEF RecordsInv, CallRecords, Remembered

\* DaemonInv, part by part, of a step.
LEMMA VolumeFrame ==
    ASSUME SettleInv, RecordsInv, VolumeInv, NEW c \in Caller, NEW l, NEW x, Becomes(c, l, x),
           ~raced' /\ ~lost' =>
             /\ ~raced /\ ~lost
             /\ BookedCount("accrual")' \in Nat /\ BookedCount("accrual") <= BookedCount("accrual")'
             /\ reserve'.volume <= Volume * BookedCount("accrual")'
             /\ l = "velocity" => x.amount \in Nat /\ x.amount <= Volume * BookedCount("accrual")
             /\ active' => active \/ Volume * BookedCount("accrual") > Threshold
    PROVE  VolumeInv'
<1> SUFFICES ASSUME ~raced', ~lost'
             PROVE  /\ reserve'.volume <= Backing'
                    /\ \A d \in Caller : pc'[d] = "velocity" => call'[d].amount <= Backing'
                    /\ active' => Backing' > Threshold
  BY DEF VolumeInv
<1>1. /\ pc'[c] = l /\ call'[c] = x
      /\ \A d \in Caller \ {c} : pc'[d] = pc[d] /\ call'[d] = call[d]
  BY DEF Becomes
<1>2. PICK n, m : n = BookedCount("accrual") /\ m = BookedCount("accrual")'
  OBVIOUS
<1>3. PICK v : v = Volume /\ v \in Nat
  BY VolumeIs
<1>4. n \in Nat /\ m \in Nat /\ n <= m
  BY <1>2, BackingIs
<1>5. v * n \in Nat /\ v * m \in Nat /\ v * n <= v * m
  BY <1>3, <1>4, TimesGrows
<1>6. Backing = v * n /\ Backing' = v * m
  BY <1>2, <1>3 DEF Backing
<1>7. /\ \A d \in Caller : pc[d] = "velocity" => call[d].amount <= v * n
      /\ active => v * n > Threshold
  BY <1>6 DEF VolumeInv
<1>8. reserve'.volume <= v * m
  BY <1>2, <1>3
<1>9. ASSUME NEW d \in Caller, pc'[d] = "velocity" PROVE call'[d].amount <= v * m
  <2>1. PICK a : a = call'[d].amount
    OBVIOUS
  <2>2. a <= v * n
    BY <1>1, <1>2, <1>3, <1>7, <1>9, <2>1
  <2>3. a \in Nat
    BY <1>1, <1>9, <2>1, BackingIs
  <2> QED
    BY <1>5, <2>1, <2>2, <2>3
<1>10. ASSUME active' PROVE v * m > Threshold
  <2>1. v * n > Threshold
    BY <1>2, <1>3, <1>7, <1>10
  <2> QED
    BY <1>5, <2>1, VolumeIs
<1> QED
  BY <1>6, <1>8, <1>9, <1>10

\* The activations a step may state.
LEMMA ActivityFrame ==
    ASSUME SettleInv, ActivityInv, SameBooks("activated"), active' = active, faults' = faults
    PROVE  ActivityInv'
BY DEF ActivityInv, SameBooks


\* The steps that leave the accruals and the activations as they are.
LEMMA DaemonElsewhere ==
    ASSUME SettleInv, RecordsInv, RecordsInv', DaemonInv, NEW c \in Caller,
           \/ LoadCommission(c) \/ HydrateCommission(c) \/ CheckSettled(c) \/ PayNode(c)
           \/ LoadReserve(c, "accrue", "accrued?") \/ LoadReserve(c, "child", "claim")
           \/ (\E p \in Minted : Settle(c, p)) \/ Claim(c) \/ Plain(c)
    PROVE  DaemonInv'
<1>1. /\ SameBooks("accrual") /\ SameBooks("activated")
      /\ Becomes(c, pc'[c], call'[c]) /\ pc'[c] # "velocity"
      /\ (~raced' => ~raced) /\ UNCHANGED <<active, faults, lost>> /\ reserve'.volume = reserve.volume
  <2>1. ASSUME NEW r, Incurs(c, r), r.fact \in {"commission", "paid", "released"}
        PROVE  /\ SameBooks("accrual") /\ SameBooks("activated")
               /\ Becomes(c, pc'[c], call'[c]) /\ pc'[c] # "velocity"
    <3>1. PICK x : x = call'[c] /\ x.due = r
      BY <2>1 DEF Incurs
    <3>2. Becomes(c, "append", x) /\ r.amount \in Nat /\ pc[c] # "append" /\ journal' = journal
          /\ pc'[c] = "append"
      BY <2>1, <3>1 DEF Incurs
    <3> QED
      BY <2>1, <3>1, <3>2, BooksIncur
  <2>2. ASSUME Quietly(c)
        PROVE  SameBooks("accrual") /\ SameBooks("activated") /\ Becomes(c, pc'[c], call'[c])
    BY <2>2 DEF Quietly, MoneyFact
  <2>3. CASE LoadCommission(c) \/ HydrateCommission(c) \/ Plain(c)
    BY <2>2, <2>3, LoadCommissionMoves, HydrateCommissionMoves, PlainMoves
  <2>4. CASE LoadReserve(c, "accrue", "accrued?") \/ LoadReserve(c, "child", "claim")
    BY <2>2, <2>4, LoadReserveMoves
  <2>5. ASSUME NEW p \in Minted, Settle(c, p)
        PROVE  /\ SameBooks("accrual") /\ SameBooks("activated")
               /\ Becomes(c, pc'[c], call'[c]) /\ pc'[c] # "velocity"
               /\ (~raced' => ~raced) /\ UNCHANGED <<active, faults, lost>> /\ reserve'.volume = reserve.volume
    BY <2>2, <2>5, SettleMoves
  <2>6. CASE CheckSettled(c)
    BY <2>1, <2>2, <2>6, CheckSettledMoves
  <2>7. CASE PayNode(c)
    BY <2>1, <2>2, <2>7, PayNodeMoves
  <2>8. CASE Claim(c)
    <3>1. UNCHANGED <<active, faults, lost, raced>>
      BY <2>8, ClaimMoves
    <3>2. PICK h, o, a, v : reserve = [hydrated |-> h, own |-> o, accrued |-> a, volume |-> v]
      BY DEF SettleInv, IsReserve
    <3>3. \A r : reserve' = [reserve EXCEPT !.own = @ - r.amount] => reserve'.volume = v
      BY <3>2
    <3>4. reserve'.volume = reserve.volume
      BY <2>8, <3>2, <3>3, ClaimMoves
    <3>5. /\ SameBooks("accrual") /\ SameBooks("activated")
          /\ Becomes(c, pc'[c], call'[c]) /\ pc'[c] # "velocity"
      BY <2>1, <2>2, <2>8, ClaimMoves
    <3> QED
      BY <3>1, <3>4, <3>5
  <2> QED
    BY <2>3, <2>4, <2>5, <2>6, <2>7, <2>8
<1>2. PICK l, x : l = pc'[c] /\ x = call'[c]
  OBVIOUS
<1>3. BookedCount("accrual")' = BookedCount("accrual") /\ BookedCount("accrual") \in Nat
  BY <1>1, BackingIs DEF SameBooks
<1>4. ASSUME ~raced', ~lost'
      PROVE  /\ ~raced /\ ~lost
             /\ BookedCount("accrual")' \in Nat /\ BookedCount("accrual") <= BookedCount("accrual")'
             /\ reserve'.volume <= Volume * BookedCount("accrual")'
             /\ active' => active
  <2>1. ~raced /\ ~lost /\ (active' => active)
    BY <1>1, <1>4
  <2>2. reserve.volume <= Volume * BookedCount("accrual")
    BY <2>1 DEF DaemonInv, VolumeInv, Backing
  <2>3. reserve'.volume <= Volume * BookedCount("accrual")'
    BY <1>1, <1>3, <2>2
  <2> QED
    BY <1>3, <2>1, <2>3
<1>5. Becomes(c, l, x) /\ l # "velocity" /\ VolumeInv /\ ActivityInv
  BY <1>1, <1>2 DEF DaemonInv
<1>6. VolumeInv'
  BY <1>4, <1>5, VolumeFrame
<1>7. ActivityInv'
  BY <1>1, <1>5, ActivityFrame
<1> QED
  BY <1>6, <1>7 DEF DaemonInv

\* status reads a volume that is backed.
LEMMA DaemonLooks ==
    ASSUME SettleInv, RecordsInv, DaemonInv, NEW c \in Caller, Status(c)
    PROVE  DaemonInv'
<1>1. /\ SameBooks("accrual") /\ SameBooks("activated")
      /\ Becomes(c, pc'[c], call'[c]) /\ call'[c].amount = reserve.volume
      /\ UNCHANGED <<active, faults, lost, raced, reserve>>
  BY StatusMoves DEF Quietly, MoneyFact
<1>2. PICK l, x : l = pc'[c] /\ x = call'[c]
  OBVIOUS
<1>3. BookedCount("accrual")' = BookedCount("accrual") /\ BookedCount("accrual") \in Nat
      /\ reserve.volume \in Nat
  BY <1>1, BackingIs DEF SameBooks
<1>4. ASSUME ~raced', ~lost'
      PROVE  /\ ~raced /\ ~lost
             /\ BookedCount("accrual")' \in Nat /\ BookedCount("accrual") <= BookedCount("accrual")'
             /\ reserve'.volume <= Volume * BookedCount("accrual")'
             /\ x.amount \in Nat /\ x.amount <= Volume * BookedCount("accrual")
             /\ active' => active
  <2>1. ~raced /\ ~lost /\ (active' => active)
    BY <1>1, <1>4
  <2>2. reserve.volume <= Volume * BookedCount("accrual")
    BY <2>1 DEF DaemonInv, VolumeInv, Backing
  <2> QED
    BY <1>1, <1>2, <1>3, <2>1, <2>2
<1>5. Becomes(c, l, x) /\ VolumeInv /\ ActivityInv
  BY <1>1, <1>2 DEF DaemonInv
<1>6. VolumeInv'
  BY <1>4, <1>5, VolumeFrame
<1>7. ActivityInv'
  BY <1>1, <1>5, ActivityFrame
<1> QED
  BY <1>6, <1>7 DEF DaemonInv

\* tick activates over the volume it was shown, and only when the phase has not begun.
LEMMA DaemonTicks ==
    ASSUME SettleInv, RecordsInv, DaemonInv, NEW c \in Caller, Tick(c)
    PROVE  DaemonInv'
<1>1. /\ pc[c] = "velocity" /\ UNCHANGED <<journal, reserve, faults, raced, lost>>
      /\ \/ Quietly(c) /\ pc'[c] = "idle" /\ active' = active
         \/ /\ ~active /\ active' = TRUE /\ call[c].amount > Threshold
            /\ \E r : Incurs(c, r) /\ r.fact = "activated"
  BY TickMoves
<1>2. VolumeInv /\ ActivityInv
  BY DEF DaemonInv
<1>3. PICK l, x : l = pc'[c] /\ x = call'[c]
  OBVIOUS
<1>4. /\ SameBooks("accrual") /\ Becomes(c, l, x) /\ l # "velocity"
      /\ \/ SameBooks("activated") /\ active' = active
         \/ /\ ~active /\ active' = TRUE
            /\ BookedCount("activated")' = BookedCount("activated") + 1
            /\ Number("activated")' = Number("activated")
  <2>1. CASE Quietly(c) /\ pc'[c] = "idle" /\ active' = active
    BY <1>3, <2>1 DEF Quietly, MoneyFact
  <2>2. ASSUME NEW r, Incurs(c, r), r.fact = "activated", ~active, active' = TRUE
        PROVE  /\ SameBooks("accrual") /\ Becomes(c, l, x) /\ l # "velocity"
               /\ BookedCount("activated")' = BookedCount("activated") + 1
               /\ Number("activated")' = Number("activated")
    <3>1. x.due = r /\ Becomes(c, "append", x) /\ r.amount \in Nat /\ pc[c] # "append"
          /\ journal' = journal /\ l = "append"
      BY <1>3, <2>2 DEF Incurs
    <3>2. SameBooks("accrual") /\ BookedCount("activated")' = BookedCount("activated") + 1
      BY <2>2, <3>1, BooksIncur
    <3>3. Number("activated")' = Number("activated")
      BY <3>1 DEF Number
    <3> QED
      BY <3>1, <3>2, <3>3
  <2> QED
    BY <1>1, <2>1, <2>2
<1>5. BookedCount("accrual")' = BookedCount("accrual") /\ BookedCount("accrual") \in Nat
  BY <1>4, BackingIs DEF SameBooks
<1>6. ASSUME ~raced', ~lost'
      PROVE  /\ ~raced /\ ~lost
             /\ BookedCount("accrual")' \in Nat /\ BookedCount("accrual") <= BookedCount("accrual")'
             /\ reserve'.volume <= Volume * BookedCount("accrual")'
             /\ active' => active \/ Volume * BookedCount("accrual") > Threshold
  <2>1. ~raced /\ ~lost
    BY <1>1, <1>6
  <2>2. /\ reserve.volume <= Volume * BookedCount("accrual")
        /\ call[c].amount <= Volume * BookedCount("accrual")
    BY <1>1, <1>2, <2>1 DEF VolumeInv, Backing
  <2>3. call[c].amount \in Nat /\ Volume * BookedCount("accrual") \in Nat /\ Threshold \in Nat
    BY BackingIs, VolumeIs DEF Backing
  <2>4. call[c].amount > Threshold => Volume * BookedCount("accrual") > Threshold
    BY <2>2, <2>3
  <2> QED
    BY <1>1, <1>5, <2>1, <2>2, <2>4
<1>7. VolumeInv'
  BY <1>2, <1>4, <1>6, VolumeFrame
<1>8. ActivityInv'
  <2>1. CASE SameBooks("activated") /\ active' = active
    BY <1>1, <1>2, <2>1, ActivityFrame
  <2>2. CASE /\ ~active /\ active' = TRUE
             /\ BookedCount("activated")' = BookedCount("activated") + 1
             /\ Number("activated")' = Number("activated")
    <3>1. BookedCount("activated") <= faults
      BY <1>2, <2>2 DEF ActivityInv, SettleInv
    <3>2. BookedCount("activated") \in Nat /\ faults \in Nat
      <4>1. Count(journal, "activated") \in Nat /\ OwedCount("activated") \in Nat
        BY BookedAmounts
      <4> QED
        BY <4>1 DEF BookedCount, SettleInv
    <3>3. BookedCount("activated")' <= faults' + 1
      BY <1>1, <2>2, <3>1, <3>2
    <3>4. Number("activated")' = Count(journal, "activated")'
      BY <1>1, <1>2, <2>2 DEF ActivityInv
    <3> QED
      BY <2>2, <3>3, <3>4 DEF ActivityInv
  <2> QED
    BY <1>4, <2>1, <2>2
<1> QED
  BY <1>7, <1>8 DEF DaemonInv


\* A hydration counts the accruals of an earlier journal.
LEMMA DaemonHydrates ==
    ASSUME SettleInv, RecordsInv, DaemonInv, NEW c \in Caller, HydrateReserve(c)
    PROVE  DaemonInv'
<1>1. /\ SameBooks("accrual") /\ SameBooks("activated")
      /\ Becomes(c, pc'[c], call'[c]) /\ pc'[c] # "velocity"
      /\ reserve' = ReserveFrom(call[c].log) /\ UNCHANGED <<active, faults, lost, raced>>
  BY HydrateReserveMoves DEF Quietly, MoneyFact
<1>2. PICK l, x, log : l = pc'[c] /\ x = call'[c] /\ log = call[c].log
  OBVIOUS
<1>3. PICK n, m, b : /\ n = Count(log, "accrual") /\ m = Count(journal, "accrual")
                     /\ b = BookedCount("accrual")
  OBVIOUS
<1>4. n \in Nat /\ m \in Nat /\ n <= m
  <2>1. IsLog(log) /\ Count(log, "accrual") <= Count(journal, "accrual")
    BY <1>2 DEF RecordsInv, CallRecords
  <2>2. Count(log, "accrual") \in Nat
    BY <2>1, LogAmounts DEF IsLog
  <2> QED
    BY <1>3, <2>1, <2>2, BookedAmounts
<1>5. BookedCount("accrual")' = b /\ b \in Nat /\ Volume * m <= Volume * b /\ Volume * b \in Nat
  BY <1>1, <1>3, BackingIs DEF SameBooks, Backing
<1>6. reserve'.volume = Volume * n
  <2>1. PICK r : r = ReserveFrom(log)
    OBVIOUS
  <2>2. r.volume = Volume * Count(log, "accrual")
    BY <2>1 DEF ReserveFrom
  <2> QED
    BY <1>1, <1>2, <1>3, <2>1, <2>2
<1>7. reserve'.volume <= Volume * b
  <2>1. Volume * n \in Nat /\ Volume * m \in Nat /\ Volume * n <= Volume * m
    BY <1>4, VolumeIs, TimesGrows
  <2> QED
    BY <1>5, <1>6, <2>1
<1>8. VolumeInv /\ ActivityInv /\ Becomes(c, l, x)
  BY <1>1, <1>2 DEF DaemonInv
<1>9. ASSUME ~raced', ~lost'
      PROVE  /\ ~raced /\ ~lost
             /\ BookedCount("accrual")' \in Nat /\ BookedCount("accrual") <= BookedCount("accrual")'
             /\ reserve'.volume <= Volume * BookedCount("accrual")'
             /\ active' => active
  BY <1>1, <1>3, <1>5, <1>7, <1>9
<1>10. VolumeInv'
  BY <1>1, <1>2, <1>8, <1>9, VolumeFrame
<1>11. ActivityInv'
  BY <1>1, <1>8, ActivityFrame
<1> QED
  BY <1>10, <1>11 DEF DaemonInv

\* An accrual adds a volume and what backs it.
LEMMA DaemonAccrues ==
    ASSUME SettleInv, RecordsInv, RecordsInv', DaemonInv, NEW c \in Caller, Accrue(c)
    PROVE  DaemonInv'
<1>1. /\ UNCHANGED <<journal, active, faults, lost, raced>>
      /\ \/ Quietly(c) /\ pc'[c] = "idle" /\ reserve' = reserve
         \/ /\ reserve' = [reserve EXCEPT !.own = @ + AstShare, !.volume = @ + Volume,
                                          !.accrued = @ \cup {call[c].pid}]
            /\ \E r : Incurs(c, r) /\ r.fact = "accrual"
  BY AccrueMoves
<1>2. VolumeInv /\ ActivityInv
  BY DEF DaemonInv
<1>3. PICK l, x : l = pc'[c] /\ x = call'[c]
  OBVIOUS
<1>4. PICK b, v, w : b = BookedCount("accrual") /\ v = reserve.volume /\ w = Volume
  OBVIOUS
<1>5. b \in Nat /\ v \in Nat /\ w \in Nat /\ w * b \in Nat /\ w * (b + 1) = w * b + w
  BY <1>4, BackingIs, VolumeIs, TimesGrows DEF Backing
<1>6. /\ SameBooks("activated") /\ Becomes(c, l, x) /\ l # "velocity"
      /\ \/ BookedCount("accrual")' = b /\ reserve'.volume = v
         \/ BookedCount("accrual")' = b + 1 /\ reserve'.volume = v + w
  <2>1. CASE Quietly(c) /\ pc'[c] = "idle" /\ reserve' = reserve
    BY <1>3, <1>4, <2>1 DEF Quietly, MoneyFact, SameBooks
  <2>2. ASSUME NEW r, Incurs(c, r), r.fact = "accrual",
               reserve' = [reserve EXCEPT !.own = @ + AstShare, !.volume = @ + Volume,
                                          !.accrued = @ \cup {call[c].pid}]
        PROVE  /\ SameBooks("activated") /\ Becomes(c, l, x) /\ l # "velocity"
               /\ BookedCount("accrual")' = b + 1 /\ reserve'.volume = v + w
    <3>1. x.due = r /\ Becomes(c, "append", x) /\ r.amount \in Nat /\ pc[c] # "append"
          /\ journal' = journal /\ l = "append"
      BY <1>3, <2>2 DEF Incurs
    <3>2. SameBooks("activated") /\ BookedCount("accrual")' = BookedCount("accrual") + 1
      BY <2>2, <3>1, BooksIncur
    <3>3. PICK h, o, a, u : reserve = [hydrated |-> h, own |-> o, accrued |-> a, volume |-> u]
      BY DEF SettleInv, IsReserve
    <3>4. reserve'.volume = v + w
      BY <1>4, <2>2, <3>3
    <3> QED
      BY <1>4, <3>1, <3>2, <3>4
  <2> QED
    BY <1>1, <2>1, <2>2
<1>7. ASSUME ~raced', ~lost'
      PROVE  /\ ~raced /\ ~lost
             /\ BookedCount("accrual")' \in Nat /\ BookedCount("accrual") <= BookedCount("accrual")'
             /\ reserve'.volume <= Volume * BookedCount("accrual")'
             /\ active' => active
  <2>1. ~raced /\ ~lost
    BY <1>1, <1>7
  <2>2. v <= w * b
    BY <1>2, <1>4, <2>1 DEF VolumeInv, Backing
  <2>3. PICK d, u : d = BookedCount("accrual")' /\ u = reserve'.volume
    OBVIOUS
  <2>4. \/ d = b /\ u = v
        \/ d = b + 1 /\ u = v + w
    BY <1>6, <2>3
  <2>5. d \in Nat /\ b <= d /\ u <= w * d
    <3>1. CASE d = b /\ u = v
      BY <1>5, <2>2, <3>1
    <3>2. CASE d = b + 1 /\ u = v + w
      BY <1>5, <2>2, <3>2
    <3> QED
      BY <2>4, <3>1, <3>2
  <2> QED
    BY <1>1, <1>4, <2>1, <2>3, <2>5
<1>8. VolumeInv'
  BY <1>2, <1>6, <1>7, VolumeFrame
<1>9. ActivityInv'
  BY <1>1, <1>2, <1>6, ActivityFrame
<1> QED
  BY <1>8, <1>9 DEF DaemonInv

\* A record is appended.
LEMMA DaemonAppends ==
    ASSUME SettleInv, RecordsInv, RecordsInv', FreshInv, DaemonInv, NEW c \in Caller, AppendDue(c)
    PROVE  DaemonInv'
<1>1. PICK r, l, x : r = call[c].due /\ l = pc'[c] /\ x = call'[c]
  OBVIOUS
<1>2. /\ Becomes(c, l, x) /\ l # "velocity" /\ UNCHANGED <<reserve, active, faults, raced, lost>>
      /\ journal' = journal \/ journal' = Append(journal, r)
      /\ BookedCount("activated")' <= BookedCount("activated")
      /\ ~raced => BookedCount("accrual")' = BookedCount("accrual")
      /\ r.fact # "activated" => SameBooks("activated")
  <2>1. /\ Becomes(c, pc'[c], call'[c]) /\ pc'[c] # "velocity"
        /\ UNCHANGED <<reserve, active, faults, raced, lost>>
        /\ journal' = journal \/ journal' = Append(journal, r)
    BY <1>1, AppendDueMoves
  <2>2. \A f : BookedCount(f)' <= BookedCount(f)
    BY <1>1, AppendDueMoves
  <2>3. ~raced => \A f \in MoneyFact \ {"activated"} : BookedCount(f)' = BookedCount(f)
    BY <1>1, AppendDueMoves
  <2>4. \A f : f # r.fact => SameBooks(f)
    BY <1>1, AppendDueMoves
  <2> QED
    BY <1>1, <2>1, <2>2, <2>3, <2>4 DEF MoneyFact
<1>3. VolumeInv /\ ActivityInv
  BY DEF DaemonInv
<1>4. BookedCount("accrual") \in Nat
  BY BackingIs
<1>5. ASSUME ~raced', ~lost'
      PROVE  /\ ~raced /\ ~lost
             /\ BookedCount("accrual")' \in Nat /\ BookedCount("accrual") <= BookedCount("accrual")'
             /\ reserve'.volume <= Volume * BookedCount("accrual")'
             /\ active' => active
  BY <1>2, <1>3, <1>4, <1>5 DEF VolumeInv, Backing
<1>6. VolumeInv'
  BY <1>2, <1>3, <1>5, VolumeFrame
<1>7. Number("activated")' = Count(journal, "activated")'
  <2>1. CASE r.fact # "activated"
    BY <1>2, <1>3, <2>1 DEF ActivityInv, SameBooks
  <2>2. CASE journal' = journal
    BY <1>3, <2>2 DEF ActivityInv, Number
  <2>3. CASE r.fact = "activated" /\ journal' = Append(journal, r)
    <3>1. Number("activated")' = Number("activated") + 1
      BY <2>3, OfOthers
    <3>2. r.amount \in Nat
      BY <1>1 DEF RecordsInv, CallRecords, IsRecord
    <3>3. /\ journal \in Seq(ToSet(journal)) /\ HasAmounts(journal)
          /\ Count(journal, "activated") \in Nat
      BY BookedAmounts
    <3>4. Count(Append(journal, r), "activated") = Count(journal, "activated") + 1
      BY <2>3, <3>2, <3>3, LogGrows
    <3> QED
      BY <1>3, <2>3, <3>1, <3>4 DEF ActivityInv
  <2> QED
    BY <1>2, <2>1, <2>2, <2>3
<1>8. BookedCount("activated")' <= faults' + (IF active' THEN 1 ELSE 0)
  <2>1. PICK m, n, k, a : /\ m = BookedCount("activated")' /\ n = BookedCount("activated")
                          /\ k = faults /\ a = IF active THEN 1 ELSE 0
    OBVIOUS
  <2>2. /\ Count(journal, "activated") \in Nat /\ OwedCount("activated") \in Nat
        /\ Count(journal, "activated")' \in Nat /\ OwedCount("activated")' \in Nat
    <3>1. Count(journal, "activated") \in Nat /\ OwedCount("activated") \in Nat
      BY BookedAmounts
    <3>2. HasAmounts(journal)' /\ DueAmounts'
      BY DEF RecordsInv, CallRecords, IsRecord, HasAmounts, DueAmounts
    <3>3. journal' \in Seq(ToSet(journal'))
      <4>1. journal \in Seq(ToSet(journal))
        BY DEF SettleInv
      <4> QED
        BY <1>2, <4>1, JournalGrows
    <3>4. Count(journal, "activated")' \in Nat
      BY <3>2, <3>3, LogAmounts DEF HasAmounts
    <3>5. OwedCount("activated")' \in Nat
      <4>1. PICK h : h = [d \in Caller |-> IF Owes(d, "activated")' THEN 1 ELSE 0]
        OBVIOUS
      <4>2. /\ IsFiniteSet(DOMAIN h) /\ \A d \in DOMAIN h : h[d] \in Nat
            /\ OwedCount("activated")' = SumFunction(h)
        BY <4>1, FiniteAssumption DEF OwedCount
      <4> QED
        BY <4>2, SumOfNaturals
    <3> QED
      BY <3>1, <3>4, <3>5
  <2>3. m \in Nat /\ n \in Nat
    BY <2>1, <2>2 DEF BookedCount
  <2>4. k \in Nat /\ a \in Nat /\ n <= k + a /\ m <= n
    BY <1>2, <1>3, <2>1 DEF ActivityInv, SettleInv
  <2>5. m <= k + a
    BY <2>3, <2>4
  <2> QED
    BY <1>2, <2>1, <2>5
<1>9. active' \in BOOLEAN
  BY <1>2, <1>3 DEF ActivityInv
<1> QED
  BY <1>6, <1>7, <1>8, <1>9 DEF DaemonInv, ActivityInv


\* A failing append loses what was booked; a restart loses it and what was remembered.
LEMMA DaemonFails ==
    ASSUME SettleInv, RecordsInv, DaemonInv, NEW c \in Caller, AppendFails(c)
    PROVE  DaemonInv'
<1>1. /\ lost' /\ faults' = faults + 1 /\ UNCHANGED <<journal, active>>
      /\ BookedCount("activated")' <= BookedCount("activated")
  BY AppendFailsMoves
<1>2. VolumeInv'
  BY <1>1 DEF VolumeInv
<1>3. PICK x : x = call'[c]
  OBVIOUS
<1>4. Number("activated")' = Count(journal, "activated")' /\ active' \in BOOLEAN
  BY <1>1 DEF DaemonInv, ActivityInv, Number
<1>5. BookedCount("activated")' <= faults' + (IF active' THEN 1 ELSE 0)
  <2>1. PICK m, n, k, a : /\ m = BookedCount("activated")' /\ n = BookedCount("activated")
                          /\ k = faults /\ a = IF active THEN 1 ELSE 0
    OBVIOUS
  <2>2. n \in Nat
    <3>1. Count(journal, "activated") \in Nat /\ OwedCount("activated") \in Nat
      BY BookedAmounts
    <3> QED
      BY <2>1, <3>1 DEF BookedCount
  <2>3. m \in Nat
    <3>1. Count(journal, "activated")' \in Nat
      BY <1>1, BookedAmounts
    <3>2. OwedCount("activated")' \in Nat
      <4>1. PICK h : h = [d \in Caller |-> IF Owes(d, "activated")' THEN 1 ELSE 0]
        OBVIOUS
      <4>2. /\ IsFiniteSet(DOMAIN h) /\ \A d \in DOMAIN h : h[d] \in Nat
            /\ OwedCount("activated")' = SumFunction(h)
        BY <4>1, FiniteAssumption DEF OwedCount
      <4> QED
        BY <4>2, SumOfNaturals
    <3> QED
      BY <2>1, <3>1, <3>2 DEF BookedCount
  <2>4. k \in Nat /\ a \in Nat /\ n <= k + a /\ m <= n
    BY <1>1, <2>1 DEF DaemonInv, ActivityInv, SettleInv
  <2>5. m <= (k + 1) + a
    BY <2>2, <2>3, <2>4
  <2> QED
    BY <1>1, <2>1, <2>5
<1> QED
  BY <1>2, <1>4, <1>5 DEF DaemonInv, ActivityInv

\* A restart.
LEMMA DaemonRestarts ==
    ASSUME SettleInv, RecordsInv, DaemonInv, Restart
    PROVE  DaemonInv'
<1>1. /\ reserve' = ColdReserve /\ journal' = journal /\ active' = FALSE /\ faults' = faults + 1
      /\ pc' = [c \in Caller |-> "idle"]
  BY DEF Restart, SettlementRestart
<1>2. \A c \in Caller : pc'[c] = "idle"
  BY <1>1
<1>3. OwedCount("activated")' = 0 /\ OwedCount("accrual")' = 0
  BY <1>2, NothingOwed
<1>4. \A f : Count(journal, f) \in Nat /\ OwedCount(f) \in Nat
  BY BookedAmounts
<1>5. VolumeInv'
  <2>1. reserve'.volume = 0
    BY <1>1, ColdIs
  <2>2. BookedCount("accrual")' = Count(journal, "accrual") + 0
    BY <1>1, <1>3 DEF BookedCount
  <2>3. PICK b : b = BookedCount("accrual")' /\ b \in Nat
    BY <1>4, <2>2
  <2>4. Volume * b \in Nat
    BY <2>3, VolumeIs, TimesGrows
  <2>5. reserve'.volume <= Backing'
    BY <2>1, <2>3, <2>4 DEF Backing
  <2> QED
    BY <1>1, <1>2, <2>5 DEF VolumeInv
<1>6. BookedCount("activated")' <= faults' + 0
  <2>1. PICK n, k, o, a : /\ n = Count(journal, "activated") /\ o = OwedCount("activated")
                          /\ k = faults /\ a = IF active THEN 1 ELSE 0
    OBVIOUS
  <2>2. n \in Nat /\ o \in Nat /\ k \in Nat /\ a \in 0..1 /\ n + o <= k + a
    BY <1>4, <2>1 DEF DaemonInv, ActivityInv, SettleInv, BookedCount
  <2>3. n + 0 <= (k + 1) + 0
    BY <2>2
  <2> QED
    BY <1>1, <1>3, <2>1, <2>3 DEF BookedCount
<1>7. Number("activated")' = Count(journal, "activated")'
  BY <1>1 DEF DaemonInv, ActivityInv, Number
<1> QED
  BY <1>1, <1>5, <1>6, <1>7 DEF DaemonInv, ActivityInv

\* DaemonInv is kept by every step ...
LEMMA NextDaemon ==
    ASSUME SettleInv, RecordsInv, RecordsInv', FreshInv, DaemonInv, Next
    PROVE  DaemonInv'
BY Steps, DaemonElsewhere, DaemonLooks, DaemonTicks, DaemonHydrates, DaemonAccrues, DaemonAppends,
   DaemonFails, DaemonRestarts

\* ... and holds at first.
LEMMA InitDaemon == Init => DaemonInv
<1> SUFFICES ASSUME Init PROVE DaemonInv
  OBVIOUS
<1>1. /\ reserve = ColdReserve /\ journal = <<>> /\ pc = [c \in Caller |-> "idle"]
      /\ active = FALSE /\ faults = 0
  BY DEF Init, SettlementInit
<1>2. \A c \in Caller : pc[c] = "idle"
  BY <1>1
<1>3. \A c \in Caller : \A f : ~Owes(c, f)
  BY <1>2 DEF Owes
<1>4. SettleInv /\ RecordsInv
  BY InitRecords, InitSettles
<1>5. BookedCount("activated") = Count(journal, "activated") /\ BookedCount("accrual") \in Nat
      /\ Backing \in Nat
  BY <1>3, <1>4, BooksAtRest, BackingIs
<1>6. Count(journal, "activated") = 0
  BY <1>1, EmptyLog
<1>7. Number("activated") = 0
  <2>1. {i \in DOMAIN journal : journal[i].fact = "activated"} = {}
    BY <1>1
  <2> QED
    BY <2>1, FS_EmptySet DEF Number
<1>8. VolumeInv
  <2>1. reserve.volume = 0 /\ reserve.volume <= Backing
    BY <1>1, <1>5, ColdIs
  <2> QED
    BY <1>1, <1>2, <2>1 DEF VolumeInv
<1>9. PICK n, k, a : /\ n = BookedCount("activated") /\ k = faults /\ a = IF active THEN 1 ELSE 0
  OBVIOUS
<1>10. n = 0 /\ k = 0 /\ a = 0
  BY <1>1, <1>5, <1>6, <1>9
<1>11. n <= k + a
  BY <1>10
<1> QED
  BY <1>1, <1>5, <1>6, <1>7, <1>8, <1>9, <1>11 DEF DaemonInv, ActivityInv

\* It does not depend on anything else.
LEMMA StutterDaemon ==
    ASSUME DaemonInv, UNCHANGED <<journal, pc, call, reserve, active, faults, raced, lost>>
    PROVE  DaemonInv'
<1>1. /\ \A f : BookedCount(f)' = BookedCount(f)
      /\ \A f : Number(f)' = Number(f)
  BY BooksStutter
<1>2. Backing' = Backing
  BY <1>1 DEF Backing
<1>3. VolumeInv'
  BY <1>2 DEF DaemonInv, VolumeInv
<1>4. ActivityInv'
  BY <1>1 DEF DaemonInv, ActivityInv
<1> QED
  BY <1>3, <1>4 DEF DaemonInv

\* The reserve stands: the types hold, releases stay within what was accrued, the release
\* phase begins once for each start, and over a volume that the journal shows.
THEOREM TheReserveStands == Spec => []ReserveStands
<1>1. Init => DaemonInv
  BY InitDaemon
<1>2. MoneyInv /\ RecordsInv' /\ DaemonInv /\ [Next]_vars => DaemonInv'
  <2>1. UNCHANGED vars => UNCHANGED <<journal, pc, call, reserve, active, faults, raced, lost>>
    BY DEF vars, settlementVars, services, running, history
  <2> QED
    BY <2>1, NextDaemon, StutterDaemon DEF MoneyInv
<1>3. MoneyInv /\ DaemonInv /\ TypeOK => ReserveStands
  <2> SUFFICES ASSUME MoneyInv, DaemonInv, TypeOK PROVE ReserveStands
    OBVIOUS
  <2>1. SettleInv /\ RecordsInv
    BY DEF MoneyInv
  <2>2. ActivatedOnce
    <3>1. PICK m, n, o, k, a : /\ m = Number("activated") /\ n = Count(journal, "activated")
                               /\ o = OwedCount("activated") /\ k = faults
                               /\ a = IF active THEN 1 ELSE 0
      OBVIOUS
    <3>2. n \in Nat /\ o \in Nat /\ k \in Nat /\ a \in 0..1 /\ n + o <= k + a /\ m = n
      BY <2>1, <3>1, BookedAmounts DEF DaemonInv, ActivityInv, SettleInv, BookedCount
    <3>3. m <= 1 + k
      BY <3>2
    <3> QED
      BY <3>1, <3>3 DEF ActivatedOnce, Number
  <2>3. ActivationIsBacked
    <3> SUFFICES ASSUME AtRest, ~raced, ~lost, active PROVE ReserveFrom(journal).volume > Threshold
      BY DEF ActivationIsBacked
    <3>1. Volume * BookedCount("accrual") > Threshold
      BY DEF DaemonInv, VolumeInv, Backing
    <3>2. BookedCount("accrual") = Count(journal, "accrual")
      BY <2>1, RestingOwesNothing, BooksAtRest
    <3>3. ReserveFrom(journal).volume = Volume * Count(journal, "accrual")
      BY DEF ReserveFrom
    <3> QED
      BY <3>1, <3>2, <3>3
  <2> QED
    BY <2>2, <2>3, ReserveStaysCovered DEF ReserveStands
<1> QED
  BY <1>1, <1>2, <1>3, MoneyInvariance, TypesHold, PTL DEF Spec


(***************************************************************************)
(* ReleaseInv: how far each partial release has got in the journal.        *)
(***************************************************************************)
At(log, f, q) == {i \in DOMAIN log : log[i].fact = f /\ log[i].pid = q}
Never(log, f, q) == At(log, f, q) = {}
Once(log, f, q, m) == \E i \in DOMAIN log : At(log, f, q) = {i} /\ log[i].amount = m
InOrder(log, f, g, q) == \A i \in At(log, f, q), j \in At(log, g, q) : i < j

\* The process q burnt b, then claimed m, then reminted the rest.
Claimed(log, q, b, m) ==
    Once(log, "burn", q, b) /\ Once(log, "released", q, m) /\ InOrder(log, "burn", "released", q)
Reminted(log, q, b, m) ==
    /\ Claimed(log, q, b, m) /\ InOrder(log, "released", "remint", q)
    /\ m = b => Never(log, "remint", q)
    /\ m # b => Once(log, "remint", q, b - m)

ReleaseStage(l, x, log) ==
    LET q == x.pid
        b == x.args.before
        m == x.args.amount IN
    \/ l \in {"verdict", "burn"} /\ \A f \in ReleaseFact : Never(log, f, q)
    \/ /\ l \in {"child", "rload", "claim"} \/ (l = "append" /\ x.due = Fact("released", q, Nobody, m))
       /\ Once(log, "burn", q, b) /\ \A f \in ReleaseFact \ {"burn"} : Never(log, f, q)
    \/ l = "remint" /\ Claimed(log, q, b, m) /\ Never(log, "remint", q) /\ Never(log, "release", q)
    \/ /\ l = "append" /\ x.due = Fact("release", q, x.args.holder, m)
       /\ Reminted(log, q, b, m) /\ Never(log, "release", q)

\* What a release that the journal calls done rests on.
Released(log, q, m) == \E b \in Nat : m <= b /\ Reminted(log, q, b, m)

ReleaseInv ==
    /\ \A c \in Caller : call[c].args.then = "burn" => ReleaseStage(pc[c], call[c], journal)
    /\ \A i \in DOMAIN journal : journal[i].fact = "release" =>
            Released(journal, journal[i].pid, journal[i].amount)

\* The log log2 is log with the record r more.
Grown(log, r, log2) ==
    \E n : /\ n \notin DOMAIN log /\ DOMAIN log2 = DOMAIN log \cup {n} /\ log2[n] = r
          /\ \A i \in DOMAIN log : log2[i] = log[i] /\ i < n

\* An append is growth by one record.
LEMMA AppendGrows ==
    ASSUME NEW S, NEW log \in Seq(S), NEW r
    PROVE  Grown(log, r, Append(log, r))
<1>1. PICK log2, n : log2 = Append(log, r) /\ n = Len(log) + 1
  OBVIOUS
<1>2. /\ DOMAIN log = 1..Len(log) /\ Len(log) \in Nat
      /\ DOMAIN log2 = 1..(Len(log) + 1) /\ log2[Len(log) + 1] = r
      /\ \A i \in DOMAIN log : log2[i] = log[i]
  BY <1>1
<1>3. /\ n \notin DOMAIN log /\ DOMAIN log2 = DOMAIN log \cup {n} /\ log2[n] = r
      /\ \A i \in DOMAIN log : log2[i] = log[i] /\ i < n
  BY <1>1, <1>2
<1> QED
  BY <1>1, <1>3 DEF Grown

\* A fact that the new record does not state of q stays as it was.
LEMMA AtStays ==
    ASSUME NEW log, NEW r, NEW log2, Grown(log, r, log2), NEW q
    PROVE  /\ \A f : ~(r.fact = f /\ r.pid = q) =>
                /\ At(log2, f, q) = At(log, f, q)
                /\ Never(log, f, q) => Never(log2, f, q)
                /\ \A m : Once(log, f, q, m) => Once(log2, f, q, m)
           /\ \A f, g : ~(r.fact \in {f, g} /\ r.pid = q) /\ InOrder(log, f, g, q) => InOrder(log2, f, g, q)
<1>1. PICK n : /\ n \notin DOMAIN log /\ DOMAIN log2 = DOMAIN log \cup {n} /\ log2[n] = r
               /\ \A i \in DOMAIN log : log2[i] = log[i] /\ i < n
  BY DEF Grown
<1>2. ASSUME NEW f, ~(r.fact = f /\ r.pid = q) PROVE At(log2, f, q) = At(log, f, q)
  BY <1>1, <1>2 DEF At
<1>3. ASSUME NEW f, ~(r.fact = f /\ r.pid = q), NEW m, Once(log, f, q, m) PROVE Once(log2, f, q, m)
  <2>1. PICK i \in DOMAIN log : At(log, f, q) = {i} /\ log[i].amount = m
    BY <1>3 DEF Once
  <2>2. i \in DOMAIN log2 /\ log2[i] = log[i]
    BY <1>1
  <2> QED
    BY <1>2, <1>3, <2>1, <2>2 DEF Once
<1> QED
  BY <1>2, <1>3 DEF Never, InOrder

\* A fact stated for the first time comes once, and last.
LEMMA AtBegins ==
    ASSUME NEW log, NEW r, NEW log2, Grown(log, r, log2), NEW f, NEW q,
           r.fact = f, r.pid = q, Never(log, f, q)
    PROVE  /\ Once(log2, f, q, r.amount)
           /\ \A g : g # f => InOrder(log2, g, f, q)
<1>1. PICK n : /\ n \notin DOMAIN log /\ DOMAIN log2 = DOMAIN log \cup {n} /\ log2[n] = r
               /\ \A i \in DOMAIN log : log2[i] = log[i] /\ i < n
  BY DEF Grown
<1>2. At(log2, f, q) = {n}
  BY <1>1 DEF Never, At
<1>3. ASSUME NEW g, g # f PROVE InOrder(log2, g, f, q)
  <2>1. At(log2, g, q) = At(log, g, q)
    BY <1>3, AtStays
  <2>2. \A i \in At(log, g, q) : i < n
    BY <1>1 DEF At
  <2> QED
    BY <1>2, <2>1, <2>2 DEF InOrder
<1> QED
  BY <1>1, <1>2, <1>3 DEF Once

\* The records of other processes do not matter to a release.
LEMMA StageStays ==
    ASSUME NEW log, NEW r, NEW log2, Grown(log, r, log2), NEW q,
           r.fact \in ReleaseFact => r.pid # q
    PROVE  /\ \A b, m : Claimed(log, q, b, m) => Claimed(log2, q, b, m)
           /\ \A b, m : Reminted(log, q, b, m) => Reminted(log2, q, b, m)
           /\ \A m : Released(log, q, m) => Released(log2, q, m)
           /\ \A l, x : x.pid = q /\ ReleaseStage(l, x, log) => ReleaseStage(l, x, log2)
<1>1. \A f \in ReleaseFact : /\ Never(log, f, q) => Never(log2, f, q)
                             /\ \A m : Once(log, f, q, m) => Once(log2, f, q, m)
  BY AtStays
<1>2. \A f, g \in ReleaseFact : InOrder(log, f, g, q) => InOrder(log2, f, g, q)
  BY AtStays
<1>3. {"burn", "released", "remint", "release"} = ReleaseFact
  BY DEF ReleaseFact
<1>4. ASSUME NEW b, NEW m, Claimed(log, q, b, m) PROVE Claimed(log2, q, b, m)
  BY <1>1, <1>2, <1>3, <1>4 DEF Claimed
<1>5. ASSUME NEW b, NEW m, Reminted(log, q, b, m) PROVE Reminted(log2, q, b, m)
  BY <1>1, <1>2, <1>3, <1>4, <1>5 DEF Reminted
<1>6. ASSUME NEW m, Released(log, q, m) PROVE Released(log2, q, m)
  BY <1>5, <1>6 DEF Released
<1>7. ASSUME NEW l, NEW x, x.pid = q, ReleaseStage(l, x, log) PROVE ReleaseStage(l, x, log2)
  <2>1. PICK b, m : b = x.args.before /\ m = x.args.amount
    OBVIOUS
  <2>2. /\ Once(log, "burn", q, b) => Once(log2, "burn", q, b)
        /\ \A f \in ReleaseFact : Never(log, f, q) => Never(log2, f, q)
        /\ Never(log, "remint", q) => Never(log2, "remint", q)
        /\ Never(log, "release", q) => Never(log2, "release", q)
        /\ Claimed(log, q, b, m) => Claimed(log2, q, b, m)
        /\ Reminted(log, q, b, m) => Reminted(log2, q, b, m)
    BY <1>1, <1>3, <1>4, <1>5
  <2> QED
    BY <1>7, <2>1, <2>2 DEF ReleaseStage
<1> QED
  BY <1>4, <1>5, <1>6, <1>7

\* The stages of a release, one record after the other.
LEMMA StageBurns ==
    ASSUME NEW log, NEW r, NEW log2, Grown(log, r, log2), NEW q, r.pid = q,
           r.fact = "burn", \A f \in ReleaseFact : Never(log, f, q)
    PROVE  Once(log2, "burn", q, r.amount) /\ \A f \in ReleaseFact \ {"burn"} : Never(log2, f, q)
<1>1. "burn" \in ReleaseFact
  BY DEF ReleaseFact
<1> QED
  BY <1>1, AtBegins, AtStays

\* The claim follows the burn.
LEMMA StageClaims ==
    ASSUME NEW log, NEW r, NEW log2, Grown(log, r, log2), NEW q, r.pid = q,
           r.fact = "released", NEW b, Once(log, "burn", q, b),
           \A f \in ReleaseFact \ {"burn"} : Never(log, f, q)
    PROVE  Claimed(log2, q, b, r.amount) /\ Never(log2, "remint", q) /\ Never(log2, "release", q)
<1>1. Never(log, "released", q) /\ Never(log, "remint", q) /\ Never(log, "release", q)
  BY DEF ReleaseFact
<1>2. Once(log2, "burn", q, b) /\ Never(log2, "remint", q) /\ Never(log2, "release", q)
  BY <1>1, AtStays
<1>3. Once(log2, "released", q, r.amount) /\ InOrder(log2, "burn", "released", q)
  BY <1>1, AtBegins
<1> QED
  BY <1>2, <1>3 DEF Claimed

\* The remint follows the claim.
LEMMA StageRemints ==
    ASSUME NEW log, NEW r, NEW log2, Grown(log, r, log2), NEW q, r.pid = q,
           r.fact = "remint", NEW b \in Nat, NEW m \in Nat, m # b, r.amount = b - m,
           Claimed(log, q, b, m), Never(log, "remint", q), Never(log, "release", q)
    PROVE  Reminted(log2, q, b, m) /\ Never(log2, "release", q)
<1>1. Once(log2, "remint", q, b - m) /\ InOrder(log2, "released", "remint", q)
  BY AtBegins
<1>2. /\ Once(log2, "burn", q, b) /\ Once(log2, "released", q, m)
      /\ InOrder(log2, "burn", "released", q) /\ Never(log2, "release", q)
  <2>1. /\ Once(log, "burn", q, b) /\ Once(log, "released", q, m)
        /\ InOrder(log, "burn", "released", q)
    BY DEF Claimed
  <2> QED
    BY <2>1, AtStays
<1> QED
  BY <1>1, <1>2 DEF Claimed, Reminted

\* There may be nothing to remint.
LEMMA StageRemintsNothing ==
    ASSUME NEW log, NEW q, NEW b, Claimed(log, q, b, b), Never(log, "remint", q)
    PROVE  Reminted(log, q, b, b)
BY DEF Reminted, Never, InOrder

\* The release is stated last.
LEMMA StageReleases ==
    ASSUME NEW log, NEW r, NEW log2, Grown(log, r, log2), NEW q,
           r.fact = "release", NEW b, NEW m, Reminted(log, q, b, m)
    PROVE  Reminted(log2, q, b, m)
<1>1. /\ Once(log, "burn", q, b) => Once(log2, "burn", q, b)
      /\ Once(log, "released", q, m) => Once(log2, "released", q, m)
      /\ InOrder(log, "burn", "released", q) => InOrder(log2, "burn", "released", q)
      /\ InOrder(log, "released", "remint", q) => InOrder(log2, "released", "remint", q)
      /\ Never(log, "remint", q) => Never(log2, "remint", q)
      /\ Once(log, "remint", q, b - m) => Once(log2, "remint", q, b - m)
  BY AtStays
<1> QED
  BY <1>1 DEF Claimed, Reminted


\* A step that states nothing.
LEMMA ReleaseFrame ==
    ASSUME ReleaseInv, NEW c \in Caller, NEW l, NEW x, Becomes(c, l, x), journal' = journal,
           x.args.then = "burn" => ReleaseStage(l, x, journal)
    PROVE  ReleaseInv'
<1>1. /\ pc'[c] = l /\ call'[c] = x
      /\ \A d \in Caller \ {c} : pc'[d] = pc[d] /\ call'[d] = call[d]
  BY DEF Becomes
<1>2. ASSUME NEW d \in Caller, call'[d].args.then = "burn"
      PROVE  ReleaseStage(pc'[d], call'[d], journal')
  <2>1. CASE d = c
    BY <1>1, <1>2, <2>1
  <2>2. CASE d # c
    BY <1>1, <1>2, <2>2 DEF ReleaseInv
  <2> QED
    BY <2>1, <2>2
<1> QED
  BY <1>2 DEF ReleaseInv

\* A step that states a fact, and states of a release only what the release of its call does.
LEMMA ReleaseGrows ==
    ASSUME SettleInv, RecordsInv, ReleaseInv, NEW c \in Caller, NEW l, NEW x, Becomes(c, l, x),
           NEW r, journal' = Append(journal, r),
           r.fact \in ReleaseFact => /\ call[c].args.then = "burn" /\ r.pid = call[c].pid
                                     /\ Never(journal, "release", r.pid),
           r.fact = "release" => Released(journal, r.pid, r.amount),
           x.args.then = "burn" => ReleaseStage(l, x, journal')
    PROVE  ReleaseInv'
<1>1. /\ pc'[c] = l /\ call'[c] = x
      /\ \A d \in Caller \ {c} : pc'[d] = pc[d] /\ call'[d] = call[d]
  BY DEF Becomes
<1>2. PICK log : log = journal'
  OBVIOUS
<1>3. Grown(journal, r, log)
  BY <1>2, AppendGrows DEF SettleInv
<1>4. ASSUME NEW d \in Caller, call'[d].args.then = "burn"
      PROVE  ReleaseStage(pc'[d], call'[d], log)
  <2>1. CASE d = c
    BY <1>1, <1>2, <1>4, <2>1
  <2>2. CASE d # c
    <3>1. call[d].args.then = "burn" /\ ReleaseStage(pc[d], call[d], journal)
      BY <1>1, <1>4, <2>2 DEF ReleaseInv
    <3>2. PICK q : q = call[d].pid
      OBVIOUS
    <3>3. q = <<d, calls[d]>>
      BY <3>1, <3>2, ReleaseArgs
    <3>4. r.fact \in ReleaseFact => r.pid = <<c, calls[c]>>
      BY ReleaseArgs
    <3>5. r.fact \in ReleaseFact => r.pid # q
      BY <2>2, <3>3, <3>4
    <3>6. ReleaseStage(pc[d], call[d], log)
      BY <1>3, <3>1, <3>2, <3>5, StageStays
    <3> QED
      BY <1>1, <2>2, <3>6
  <2> QED
    BY <2>1, <2>2
<1>5. ASSUME NEW i \in DOMAIN log, log[i].fact = "release"
      PROVE  Released(log, log[i].pid, log[i].amount)
  <2>1. PICK n : /\ n \notin DOMAIN journal /\ DOMAIN log = DOMAIN journal \cup {n} /\ log[n] = r
                 /\ \A j \in DOMAIN journal : log[j] = journal[j] /\ j < n
    BY <1>3 DEF Grown
  <2>2. CASE i = n
    <3>1. PICK b \in Nat : r.amount <= b /\ Reminted(journal, r.pid, b, r.amount)
      BY <1>5, <2>1, <2>2 DEF Released
    <3>2. Reminted(log, r.pid, b, r.amount)
      BY <1>3, <1>5, <2>1, <2>2, <3>1, StageReleases
    <3> QED
      BY <2>1, <2>2, <3>1, <3>2 DEF Released
  <2>3. CASE i # n
    <3>1. PICK q, m : q = journal[i].pid /\ m = journal[i].amount
      OBVIOUS
    <3>2. i \in DOMAIN journal /\ log[i] = journal[i]
      BY <2>1, <2>3
    <3>3. Released(journal, q, m) /\ i \in At(journal, "release", q)
      BY <1>5, <3>1, <3>2 DEF ReleaseInv, At
    <3>4. r.fact \in ReleaseFact => r.pid # q
      BY <3>3 DEF Never
    <3>5. Released(log, q, m)
      BY <1>3, <3>3, <3>4, StageStays
    <3> QED
      BY <3>1, <3>2, <3>5
  <2> QED
    BY <2>2, <2>3
<1> QED
  BY <1>2, <1>4, <1>5 DEF ReleaseInv

\* A call that stops releases nothing.
LEMMA ReleaseEnds ==
    ASSUME ReleaseInv, NEW c \in Caller, journal' = journal,
           Becomes(c, "idle", Call(Nobody, NoFact, "idle", <<>>, 0, {}, NoArgs))
    PROVE  ReleaseInv'
<1>1. PICK x : x = Call(Nobody, NoFact, "idle", <<>>, 0, {}, NoArgs)
  OBVIOUS
<1>2. x.args.then # "burn"
  BY <1>1, CallShape, NothingDue
<1> QED
  BY <1>1, <1>2, ReleaseFrame

\* A call that goes on elsewhere than a release does.
LEMMA ReleaseElsewhere ==
    ASSUME ReleaseInv, NEW c \in Caller, NEW l, NEW x, Becomes(c, l, x), journal' = journal,
           x.args = call[c].args,
           pc[c] \notin {"verdict", "burn", "child", "rload", "claim", "remint", "append"}
    PROVE  ReleaseInv'
<1>1. call[c].args.then # "burn"
  BY DEF ReleaseInv, ReleaseStage
<1> QED
  BY <1>1, ReleaseFrame

\* A settlement or a tick states nothing of a release.
LEMMA SettlementReleases ==
    ASSUME SettleInv, RecordsInv, ReleaseInv, NEW c \in Caller,
           \/ LoadCommission(c) \/ HydrateCommission(c) \/ CheckSettled(c) \/ PayNode(c)
           \/ LoadReserve(c, "accrue", "accrued?") \/ Accrue(c) \/ Tick(c)
    PROVE  ReleaseInv'
<1>1. /\ journal' = journal
      /\ pc[c] \in {"settle", "cload", "settled?", "pay", "accrue", "accrued?", "velocity"}
  BY DEF LoadCommission, HydrateCommission, CheckSettled, PayNode, LoadReserve, Accrue, Tick
<1>2. PICK x : x = call[c]
  OBVIOUS
<1>3. ASSUME NEW l, NEW due, NEW next, NEW log, NEW left,
             Becomes(c, l, Call(x.pid, due, next, log, x.amount, left, x.args))
      PROVE  ReleaseInv'
  <2>1. PICK y : y = Call(x.pid, due, next, log, x.amount, left, x.args)
    OBVIOUS
  <2>2. y.args = call[c].args
    BY <1>2, <2>1, CallShape
  <2> QED
    BY <1>1, <1>3, <2>1, <2>2, ReleaseElsewhere
<1>4. ASSUME NEW l, Becomes(c, l, x) PROVE ReleaseInv'
  BY <1>1, <1>2, <1>4, ReleaseElsewhere
<1>5. CASE LoadCommission(c)
  BY <1>2, <1>3, <1>4, <1>5, LoadCommissionIs
<1>6. CASE HydrateCommission(c)
  BY <1>2, <1>3, <1>6, HydrateCommissionIs
<1>7. CASE CheckSettled(c)
  BY <1>1, <1>2, <1>3, <1>7, CheckSettledIs, ReleaseEnds
<1>8. CASE PayNode(c)
  BY <1>2, <1>3, <1>4, <1>8, PayNodeIs
<1>9. CASE LoadReserve(c, "accrue", "accrued?")
  BY <1>2, <1>3, <1>4, <1>9, LoadReserveIs
<1>10. CASE Accrue(c)
  BY <1>1, <1>2, <1>3, <1>10, AccrueIs, ReleaseEnds
<1>11. CASE Tick(c)
  BY <1>1, <1>2, <1>3, <1>11, TickIs, ReleaseEnds
<1> QED
  BY <1>5, <1>6, <1>7, <1>8, <1>9, <1>10, <1>11

\* A call that begins and is no release.
LEMMA OthersBegin ==
    ASSUME ReleaseInv, NEW c \in Caller, NEW l, NEW p, NEW m, NEW args, args.then # "burn",
           Becomes(c, l, Call(p, NoFact, "idle", <<>>, m, {}, args)), journal' = journal
    PROVE  ReleaseInv'
<1>1. PICK x : x = Call(p, NoFact, "idle", <<>>, m, {}, args)
  OBVIOUS
<1>2. x.args.then # "burn"
  BY <1>1, CallShape
<1> QED
  BY <1>1, <1>2, ReleaseFrame


\* The release hydrates the reserve before it claims.
LEMMA ReleaseHydrates ==
    ASSUME SettleInv, RecordsInv, ReleaseInv, NEW c \in Caller,
           LoadReserve(c, "child", "claim") \/ HydrateReserve(c)
    PROVE  ReleaseInv'
<1>1. PICK x : x = call[c]
  OBVIOUS
<1>2. journal' = journal /\ pc[c] \in {"child", "rload"}
  BY DEF LoadReserve, HydrateReserve
<1>3. x.args.then = "burn" =>
        /\ Once(journal, "burn", x.pid, x.args.before)
        /\ \A f \in ReleaseFact \ {"burn"} : Never(journal, f, x.pid)
  BY <1>1, <1>2 DEF ReleaseInv, ReleaseStage
<1>4. ASSUME NEW l \in {"claim", "rload"}, NEW y, Becomes(c, l, y), y.args = x.args, y.pid = x.pid
      PROVE  ReleaseInv'
  <2>1. y.args.then = "burn" => ReleaseStage(l, y, journal)
    BY <1>3, <1>4 DEF ReleaseStage
  <2> QED
    BY <1>2, <1>4, <2>1, ReleaseFrame
<1>5. CASE LoadReserve(c, "child", "claim")
  <2>1. PICK y : y = Call(x.pid, x.due, "claim", journal, x.amount, x.left, x.args)
    OBVIOUS
  <2>2. y.args = x.args /\ y.pid = x.pid
    BY <2>1, CallShape
  <2>3. Becomes(c, "claim", x) \/ Becomes(c, "rload", y)
    BY <1>1, <1>5, <2>1, LoadReserveIs
  <2> QED
    BY <1>4, <2>2, <2>3
<1>6. CASE HydrateReserve(c)
  <2>1. PICK y : y = Call(x.pid, x.due, "idle", <<>>, x.amount, x.left, x.args)
    OBVIOUS
  <2>2. y.args = x.args /\ y.pid = x.pid
    BY <2>1, CallShape
  <2>3. Becomes(c, x.next, y) /\ pc[c] = "rload"
    BY <1>1, <1>6, <2>1, HydrateReserveIs
  <2>4. CASE x.pid \notin Minted
    <3>1. x.next = "claim"
      BY <1>1, <2>3, <2>4, CallIsOk DEF CallOk
    <3> QED
      BY <1>4, <2>2, <2>3, <3>1
  <2>5. CASE x.pid \in Minted
    <3>1. x.args.then # "burn"
      BY <1>1, <2>5, MintedAsksNothing
    <3> QED
      BY <1>2, <2>2, <2>3, <3>1, ReleaseFrame
  <2> QED
    BY <2>4, <2>5
<1> QED
  BY <1>5, <1>6

\* The release claims what it was asked for.
LEMMA ReleaseClaims ==
    ASSUME SettleInv, RecordsInv, ReleaseInv, NEW c \in Caller, Claim(c)
    PROVE  ReleaseInv'
<1>1. PICK x, m : x = call[c] /\ m = x.args.amount
  OBVIOUS
<1>2. PICK f, y : /\ f = Fact("released", x.pid, Nobody, m)
                  /\ y = Call(x.pid, f, "remint", x.log, x.amount, x.left, x.args)
  OBVIOUS
<1>3. /\ pc[c] = "claim" /\ journal' = journal
      /\ \/ Becomes(c, "idle", Call(Nobody, NoFact, "idle", <<>>, 0, {}, NoArgs))
         \/ Becomes(c, "append", y)
  BY <1>1, <1>2, ClaimIs
<1>4. y.pid = x.pid /\ y.due = f /\ y.args = x.args
  BY <1>2, CallShape
<1>5. x.args.then = "burn" =>
        /\ Once(journal, "burn", x.pid, x.args.before)
        /\ \A g \in ReleaseFact \ {"burn"} : Never(journal, g, x.pid)
  BY <1>1, <1>3 DEF ReleaseInv, ReleaseStage
<1>6. y.args.then = "burn" => ReleaseStage("append", y, journal)
  BY <1>1, <1>2, <1>4, <1>5 DEF ReleaseStage
<1> QED
  BY <1>3, <1>6, ReleaseEnds, ReleaseFrame

\* The release burns the balance it read.
LEMMA ReleaseBurns ==
    ASSUME SettleInv, RecordsInv, ReleaseInv, NEW c \in Caller, Burn(c)
    PROVE  ReleaseInv'
<1>1. PICK x, h, m, f : /\ x = call[c] /\ h = x.args.holder /\ m = x.args.before
                        /\ f = Fact("burn", x.pid, h, m)
  OBVIOUS
<1>2. /\ pc[c] = "burn"
      /\ \/ /\ UNCHANGED journal
            /\ Becomes(c, "idle", Call(Nobody, NoFact, "idle", <<>>, 0, {}, NoArgs))
         \/ /\ journal' = Append(journal, f)
            /\ Becomes(c, "child", x)
  BY <1>1, BurnIs
<1>3. CASE journal' = Append(journal, f) /\ Becomes(c, "child", x)
  <2>1. x.args.then = "burn"
    BY <1>1, <1>2, CallIsOk DEF Asked, Releasing
  <2>2. \A g \in ReleaseFact : Never(journal, g, x.pid)
    BY <1>1, <1>2, <2>1 DEF ReleaseInv, ReleaseStage
  <2>3. f.fact = "burn" /\ f.pid = x.pid /\ f.amount = m
    BY <1>1, FactShape
  <2>4. PICK log : log = journal'
    OBVIOUS
  <2>5. Grown(journal, f, log)
    BY <1>3, <2>4, AppendGrows DEF SettleInv
  <2>6. Once(log, "burn", x.pid, m) /\ \A g \in ReleaseFact \ {"burn"} : Never(log, g, x.pid)
    BY <2>2, <2>3, <2>5, StageBurns
  <2>7. ReleaseStage("child", x, log)
    BY <1>1, <2>6 DEF ReleaseStage
  <2>8. Never(journal, "release", f.pid)
    BY <2>2, <2>3 DEF ReleaseFact
  <2> QED
    BY <1>1, <1>3, <2>1, <2>3, <2>4, <2>7, <2>8, ReleaseGrows
<1> QED
  BY <1>2, <1>3, ReleaseEnds

\* The release remints the rest, if there is any.
LEMMA ReleaseRemints ==
    ASSUME SettleInv, RecordsInv, ReleaseInv, NEW c \in Caller, Remint(c)
    PROVE  ReleaseInv'
<1>1. PICK x, h, b, m, rest, f, r, y :
        /\ x = call[c] /\ h = x.args.holder /\ b = x.args.before /\ m = x.args.amount
        /\ rest = b - m
        /\ f = Fact("release", x.pid, h, m) /\ r = Fact("remint", x.pid, h, rest)
        /\ y = Call(x.pid, f, "idle", x.log, x.amount, x.left, x.args)
  OBVIOUS
<1>2. /\ pc[c] = "remint" /\ Becomes(c, "append", y)
      /\ \/ rest = 0 /\ journal' = journal
         \/ rest # 0 /\ journal' = Append(journal, r)
  BY <1>1, RemintIs
<1>3. /\ y.pid = x.pid /\ y.due = f /\ y.args = x.args
      /\ r.fact = "remint" /\ r.pid = x.pid /\ r.amount = rest
  BY <1>1, CallShape, FactShape
<1>4. x.args.then = "burn"
  BY <1>1, <1>2, CallIsOk DEF Asked, Releasing
<1>5. b \in Nat /\ m \in Nat
  BY <1>1, <1>4, ReleaseArgs DEF IsRelease
<1>6. Claimed(journal, x.pid, b, m) /\ Never(journal, "remint", x.pid) /\ Never(journal, "release", x.pid)
  BY <1>1, <1>2, <1>4 DEF ReleaseInv, ReleaseStage
<1>7. ASSUME NEW log, Reminted(log, x.pid, b, m), Never(log, "release", x.pid)
      PROVE  ReleaseStage("append", y, log)
  BY <1>1, <1>3, <1>7 DEF ReleaseStage
<1>8. CASE rest = 0 /\ journal' = journal
  <2>1. m = b
    BY <1>1, <1>5, <1>8
  <2>2. Reminted(journal, x.pid, b, m)
    BY <1>6, <2>1, StageRemintsNothing
  <2> QED
    BY <1>2, <1>6, <1>7, <1>8, <2>2, ReleaseFrame
<1>9. CASE rest # 0 /\ journal' = Append(journal, r)
  <2>1. m # b
    BY <1>1, <1>5, <1>9
  <2>2. PICK log : log = journal'
    OBVIOUS
  <2>3. Grown(journal, r, log)
    BY <1>9, <2>2, AppendGrows DEF SettleInv
  <2>4. Reminted(log, x.pid, b, m) /\ Never(log, "release", x.pid)
    BY <1>1, <1>3, <1>5, <1>6, <2>1, <2>3, StageRemints
  <2> QED
    BY <1>1, <1>2, <1>3, <1>4, <1>6, <1>7, <1>9, <2>2, <2>4, ReleaseGrows
<1> QED
  BY <1>2, <1>8, <1>9

\* The release's claim, and then the release itself, are journalled.
LEMMA ReleaseAppends ==
    ASSUME SettleInv, RecordsInv, ReleaseInv, NEW c \in Caller, AppendDue(c)
    PROVE  ReleaseInv'
<1>1. PICK x, r : x = call[c] /\ r = x.due
  OBVIOUS
<1>2. PICK y, z : /\ y = Call(x.pid, NoFact, "idle", x.log, x.amount, x.left, x.args)
                  /\ z = Call(Nobody, NoFact, "idle", <<>>, 0, {}, NoArgs)
  OBVIOUS
<1>3. /\ pc[c] = "append"
      /\ \/ journal' = journal /\ r \in ToSet(journal)
         \/ journal' = Append(journal, r)
      /\ \/ x.next = "idle" /\ Becomes(c, "idle", z)
         \/ x.next # "idle" /\ Becomes(c, x.next, y)
  BY <1>1, <1>2, AppendDueIs
<1>4. y.pid = x.pid /\ y.args = x.args /\ z.args.then # "burn"
  BY <1>2, CallShape, NothingDue
<1>5. CASE x.args.then # "burn"
  <2>1. r.fact \notin ReleaseFact
    <3>1. x.pid \in Minted => r.fact \in SettlementFact
      BY <1>1, <1>3, CallIsOk DEF Asked
    <3>2. x.pid \notin Minted => r.fact = "activated"
      BY <1>1, <1>3, <1>5, CallIsOk DEF Asked, Releasing, Owes
    <3> QED
      BY <3>1, <3>2 DEF SettlementFact, ReleaseFact
  <2>2. r.fact # "release"
    BY <2>1 DEF ReleaseFact
  <2>3. ASSUME NEW l, NEW w, w \in {y, z}, Becomes(c, l, w) PROVE ReleaseInv'
    <3>1. w.args.then # "burn"
      BY <1>4, <1>5, <2>3
    <3> QED
      BY <1>3, <2>1, <2>2, <2>3, <3>1, ReleaseFrame, ReleaseGrows
  <2> QED
    BY <1>3, <2>3
<1>6. CASE x.args.then = "burn"
  <2>1. PICK q, b, m : q = x.pid /\ b = x.args.before /\ m = x.args.amount
    OBVIOUS
  <2>2. b \in Nat /\ m \in Nat /\ m <= b /\ q \notin Minted
    BY <1>1, <1>6, <2>1, ReleaseArgs, MintedAsksNothing DEF IsRelease
  <2>3. \/ /\ r = Fact("released", q, Nobody, m) /\ Once(journal, "burn", q, b)
           /\ \A f \in ReleaseFact \ {"burn"} : Never(journal, f, q)
        \/ /\ r = Fact("release", q, x.args.holder, m)
           /\ Reminted(journal, q, b, m) /\ Never(journal, "release", q)
    BY <1>1, <1>3, <1>6, <2>1 DEF ReleaseInv, ReleaseStage
  <2>4. /\ r.fact \in {"released", "release"} /\ r.pid = q /\ r.amount = m
        /\ Never(journal, r.fact, q) /\ Never(journal, "release", q)
    BY <2>3, FactShape DEF ReleaseFact
  <2>5. journal' = Append(journal, r)
    <3>1. ASSUME r \in ToSet(journal) PROVE FALSE
      <4>1. PICK i \in DOMAIN journal : journal[i] = r
        BY <3>1 DEF ToSet
      <4>2. i \in At(journal, r.fact, q)
        BY <2>4, <4>1 DEF At
      <4> QED
        BY <2>4, <4>2 DEF Never
    <3> QED
      BY <1>3, <3>1
  <2>6. PICK log : log = journal'
    OBVIOUS
  <2>7. Grown(journal, r, log)
    BY <2>5, <2>6, AppendGrows DEF SettleInv
  <2>8. /\ r.fact \in ReleaseFact
        /\ r.fact = "released" => x.next = "remint"
        /\ r.fact = "release" => x.next = "idle"
    <3>1. r.fact = "released" <=> x.next = "remint"
      BY <1>1, <1>3, <2>1, <2>2, CallIsOk DEF Asked
    <3>2. x.next \in {"idle", "remint"}
      BY <1>1, <1>3, <2>1, <2>2, CallIsOk DEF CallOk
    <3> QED
      BY <2>4, <3>1, <3>2 DEF ReleaseFact
  <2>9. CASE r.fact = "released"
    <3>1. Once(journal, "burn", q, b) /\ \A f \in ReleaseFact \ {"burn"} : Never(journal, f, q)
      BY <2>3, <2>9, FactShape
    <3>2. Claimed(log, q, b, m) /\ Never(log, "remint", q) /\ Never(log, "release", q)
      BY <2>4, <2>7, <2>9, <3>1, StageClaims
    <3>3. ReleaseStage("remint", y, log)
      BY <1>4, <2>1, <3>2 DEF ReleaseStage
    <3>4. Becomes(c, "remint", y)
      BY <1>3, <2>8, <2>9
    <3> QED
      BY <1>1, <1>6, <2>1, <2>4, <2>5, <2>6, <2>9, <3>3, <3>4, ReleaseGrows
  <2>10. CASE r.fact = "release"
    <3>1. Reminted(journal, q, b, m)
      BY <2>3, <2>10, FactShape
    <3>2. Released(journal, r.pid, r.amount)
      BY <2>2, <2>4, <3>1 DEF Released
    <3>3. Becomes(c, "idle", z)
      BY <1>3, <2>8, <2>10
    <3> QED
      BY <1>1, <1>4, <1>6, <2>1, <2>4, <2>5, <3>2, <3>3, ReleaseGrows
  <2> QED
    BY <2>4, <2>9, <2>10
<1> QED
  BY <1>5, <1>6


\* A verdict, a revaluation and a transfer.
LEMMA ReleaseOthers ==
    ASSUME SettleInv, RecordsInv, ReleaseInv, NEW c \in Caller,
           Verdict(c) \/ Revalue(c) \/ SetValue(c) \/ Transfer(c) \/ SetHolders(c)
    PROVE  ReleaseInv'
<1>1. PICK x : x = call[c]
  OBVIOUS
<1>2. /\ journal' = journal /\ pc[c] \in {"verdict", "reval", "value", "transfer", "holders"}
      /\ \/ Becomes(c, "idle", Call(Nobody, NoFact, "idle", <<>>, 0, {}, NoArgs))
         \/ pc[c] = "verdict" /\ Becomes(c, x.args.then, x)
         \/ pc[c] = "reval" /\ Becomes(c, "value", x)
         \/ pc[c] = "transfer" /\ Becomes(c, "holders", x)
  BY <1>1, OthersAre
<1>3. ASSUME NEW l, Becomes(c, l, x), x.args.then = "burn" => l = "burn" PROVE ReleaseInv'
  <2>1. ASSUME x.args.then = "burn" PROVE ReleaseStage(l, x, journal)
    <3>1. l = "burn" /\ \A f \in ReleaseFact : Never(journal, f, x.pid)
      BY <1>1, <1>2, <1>3, <2>1 DEF ReleaseInv, ReleaseStage
    <3> QED
      BY <3>1 DEF ReleaseStage
  <2> QED
    BY <1>2, <1>3, <2>1, ReleaseFrame
<1>4. pc[c] \in {"reval", "value", "transfer", "holders"} => x.args.then # "burn"
  BY <1>1 DEF ReleaseInv, ReleaseStage
<1> QED
  BY <1>2, <1>3, <1>4, ReleaseEnds

\* A release begins under the id of a fresh process, of which nothing is journalled.
LEMMA ReleaseBegins ==
    ASSUME SettleInv, RecordsInv, ReleaseInv, NEW c \in Caller, NEW args, Ask(c, args)
    PROVE  ReleaseInv'
<1>1. PICK x, q : q = Own(c) /\ x = Call(q, NoFact, "idle", <<>>, 0, {}, args)
  OBVIOUS
<1>2. Becomes(c, "verdict", x) /\ journal' = journal
  BY <1>1, AskIs
<1>3. x.pid = q
  BY <1>1, CallShape
<1>4. ASSUME NEW f \in ReleaseFact PROVE Never(journal, f, q)
  <2>1. ASSUME NEW i \in DOMAIN journal, journal[i].fact = f, journal[i].pid = q PROVE FALSE
    <3>1. PICK d \in Caller : \E n \in 1..calls[d] : q = <<d, n>>
      BY <2>1 DEF RecordsInv, IsRecord
    <3>2. PICK n \in 1..calls[d] : q = <<d, n>>
      BY <3>1
    <3>3. d = c /\ n = calls[c] + 1
      BY <1>1, <3>2 DEF Own
    <3>4. calls[c] \in Nat
      BY AmountsAssumption DEF SettleInv, CallOk
    <3> QED
      BY <3>2, <3>3, <3>4
  <2> QED
    BY <2>1 DEF Never, At
<1>5. ReleaseStage("verdict", x, journal)
  BY <1>3, <1>4 DEF ReleaseStage
<1> QED
  BY <1>2, <1>5, ReleaseFrame

\* ReleaseInv is kept by every step ...
LEMMA NextRelease ==
    ASSUME SettleInv, RecordsInv, ReleaseInv, Next
    PROVE  ReleaseInv'
<1>1. NoArgs.then # "burn"
  BY NothingDue
<1>2. ASSUME NEW c \in Caller, NEW p \in Minted, Settle(c, p) PROVE ReleaseInv'
  <2>1. /\ journal' = journal
        /\ Becomes(c, "settle", Call(p, NoFact, "idle", <<>>, 0, {}, NoArgs))
    BY <1>2, BeginIs DEF Settle
  <2> QED
    BY <1>1, <2>1, OthersBegin
<1>3. ASSUME NEW c \in Caller, Status(c) PROVE ReleaseInv'
  <2>1. PICK v : v = reserve.volume
    OBVIOUS
  <2>2. /\ journal' = journal
        /\ Becomes(c, "velocity", Call(Nobody, NoFact, "idle", <<>>, v, {}, NoArgs))
    BY <1>3, <2>1, StatusIs
  <2> QED
    BY <1>1, <2>2, OthersBegin
<1>4. ASSUME NEW c \in Caller, AppendFails(c) PROVE ReleaseInv'
  <2>1. journal' = journal /\ Stop(c)
    BY <1>4 DEF AppendFails
  <2> QED
    BY <2>1, StopIs, ReleaseEnds
<1>5. ASSUME NEW c \in Caller,
             \/ \E h \in Holder, amount \in Amount : AskRelease(c, h, amount)
             \/ \E p \in Minted, new \in Value : AskRevaluation(c, p, new)
             \/ \E p \in Minted, from, to \in Holder, amount \in Amount :
                    AskTransfer(c, p, from, to, amount)
      PROVE  ReleaseInv'
  <2>1. PICK args : Ask(c, args)
    BY <1>5 DEF AskRelease, AskRevaluation, AskTransfer
  <2> QED
    BY <2>1, ReleaseBegins
<1>6. CASE Restart
  <2>1. /\ journal' = journal /\ call' = [c \in Caller |-> NoCall]
    BY <1>6 DEF Restart, SettlementRestart
  <2>2. \A c \in Caller : call'[c].args.then # "burn"
    BY <1>1, <2>1, NoCallIs
  <2> QED
    BY <2>1, <2>2 DEF ReleaseInv
<1> QED
  BY <1>2, <1>3, <1>4, <1>5, <1>6, SettlementReleases, ReleaseHydrates, ReleaseClaims, ReleaseBurns,
     ReleaseRemints, ReleaseAppends, ReleaseOthers DEF Next, SettlementStep

\* ... and holds at first.
LEMMA InitRelease == Init => ReleaseInv
<1> SUFFICES ASSUME Init PROVE ReleaseInv
  OBVIOUS
<1>1. journal = <<>> /\ call = [c \in Caller |-> NoCall]
  BY DEF Init, SettlementInit
<1>2. \A c \in Caller : call[c].args.then # "burn"
  BY <1>1, NoCallIs, NothingDue
<1>3. DOMAIN journal = {}
  BY <1>1
<1> QED
  BY <1>2, <1>3 DEF ReleaseInv

\* The sum over one record, and over none.
LEMMA SumOverOne ==
    ASSUME NEW log, NEW i, log[i].amount \in Nat
    PROVE  SumFunction([j \in {i} |-> log[j].amount]) = log[i].amount
<1>1. PICK f, g : f = [j \in {} |-> log[j].amount] /\ g = [j \in {i} |-> log[j].amount]
  OBVIOUS
<1>2. /\ DOMAIN f = {} /\ i \notin DOMAIN f /\ DOMAIN g = DOMAIN f \cup {i} /\ g[i] = log[i].amount
      /\ IsFiniteSet(DOMAIN f) /\ \A y \in DOMAIN f : f[y] \in Int /\ g[y] = f[y]
      /\ \A y \in DOMAIN f : f[y] \in Nat /\ f[y] = 0
  BY <1>1, FS_EmptySet
<1>3. SumFunction(f) = 0
  BY <1>2, SumOfNaturals
<1>4. SumFunction(g) = SumFunction(f) + g[i]
  BY <1>2, SumGrows
<1>5. SumFunction(g) = log[i].amount
  BY <1>2, <1>3, <1>4
<1> QED
  BY <1>1, <1>5

\* ... and over none.
LEMMA SumOverNone ==
    ASSUME NEW log
    PROVE  SumFunction([j \in {} |-> log[j].amount]) = 0
<1>1. PICK f : f = [j \in {} |-> log[j].amount]
  OBVIOUS
<1>2. DOMAIN f = {} /\ IsFiniteSet(DOMAIN f) /\ \A y \in DOMAIN f : f[y] \in Nat /\ f[y] = 0
  BY <1>1, FS_EmptySet
<1> QED
  BY <1>1, <1>2, SumOfNaturals

\* The inductive invariant of the releases.
LEMMA ReleaseInvariance == Spec => []ReleaseInv
<1>1. SettleInv /\ RecordsInv /\ ReleaseInv /\ [Next]_vars => ReleaseInv'
  <2>1. ReleaseInv /\ UNCHANGED vars => ReleaseInv'
    BY DEF ReleaseInv, vars, settlementVars, running
  <2> QED
    BY <2>1, NextRelease
<1> QED
  BY <1>1, InitRelease, RecordsInvariance, PTL DEF Spec

\* A release that the journal calls done took from the holder exactly what it claimed: the
\* burn, the claim and the remint balance, in this order.
THEOREM ReleasesBalance == Spec => []ReleaseBalances
<1>1. SettleInv /\ RecordsInv /\ ReleaseInv => ReleaseBalances
  <2> SUFFICES ASSUME SettleInv, RecordsInv, ReleaseInv, NEW i \in DOMAIN journal,
                      journal[i].fact = "release", NEW q, q = journal[i].pid
               PROVE  LET amount(f) == SumFunction([j \in Facts(f, q) |-> journal[j].amount])
                          before(f, g) == \A j, k \in DOMAIN journal :
                                journal[j].pid = q /\ journal[j].fact = f
                                /\ journal[k].pid = q /\ journal[k].fact = g => j < k
                      IN  /\ amount("burn") = amount("released") + amount("remint")
                          /\ amount("released") = journal[i].amount
                          /\ before("burn", "released") /\ before("released", "remint")
    BY DEF ReleaseBalances
  <2>1. PICK log, m : log = journal /\ m = journal[i].amount
    OBVIOUS
  <2>2. PICK b \in Nat : m <= b /\ Reminted(log, q, b, m)
    BY <2>1 DEF ReleaseInv, Released
  <2>3. \A j \in DOMAIN log : log[j].amount \in Nat
    BY <2>1 DEF RecordsInv, IsRecord
  <2>4. \A f : Facts(f, q) = At(log, f, q)
    BY <2>1 DEF Facts, At
  <2>5. ASSUME NEW f, NEW n, Once(log, f, q, n)
        PROVE  SumFunction([j \in At(log, f, q) |-> log[j].amount]) = n
    <3>1. PICK j \in DOMAIN log : At(log, f, q) = {j} /\ log[j].amount = n
      BY <2>5 DEF Once
    <3>2. SumFunction([k \in {j} |-> log[k].amount]) = log[j].amount
      BY <2>3, SumOverOne
    <3> QED
      BY <3>1, <3>2
  <2>6. ASSUME NEW f, Never(log, f, q)
        PROVE  SumFunction([j \in At(log, f, q) |-> log[j].amount]) = 0
    BY <2>6, SumOverNone DEF Never
  <2>7. m \in Nat
    BY <2>1, <2>3
  <2>8. PICK burnt, claimed, rest :
          /\ burnt = SumFunction([j \in At(log, "burn", q) |-> log[j].amount])
          /\ claimed = SumFunction([j \in At(log, "released", q) |-> log[j].amount])
          /\ rest = SumFunction([j \in At(log, "remint", q) |-> log[j].amount])
    OBVIOUS
  <2>9. burnt = b /\ claimed = m
    BY <2>2, <2>5, <2>8 DEF Reminted, Claimed
  <2>10. rest = b - m
    <3>1. CASE m = b
      <4>1. rest = 0
        BY <2>2, <2>6, <2>8, <3>1 DEF Reminted
      <4> QED
        BY <2>7, <3>1, <4>1
    <3>2. CASE m # b
      BY <2>2, <2>5, <2>8, <3>2 DEF Reminted
    <3> QED
      BY <3>1, <3>2
  <2>11. burnt = claimed + rest
    BY <2>2, <2>7, <2>9, <2>10
  <2>12. /\ SumFunction([j \in Facts("burn", q) |-> journal[j].amount]) = burnt
         /\ SumFunction([j \in Facts("released", q) |-> journal[j].amount]) = claimed
         /\ SumFunction([j \in Facts("remint", q) |-> journal[j].amount]) = rest
    BY <2>1, <2>4, <2>8
  <2>13. InOrder(log, "burn", "released", q) /\ InOrder(log, "released", "remint", q)
    BY <2>2 DEF Reminted, Claimed
  <2> QED
    BY <2>1, <2>9, <2>11, <2>12, <2>13 DEF InOrder, At
<1> QED
  BY <1>1, RecordsInvariance, ReleaseInvariance, PTL


(***************************************************************************)
(* What an operation of the token does to the supply.                      *)
(***************************************************************************)
LEMMA WholeQuotient == \A a, b \in Nat : b > 0 => (b * a) \div b = a
<1> SUFFICES ASSUME NEW a \in Nat, NEW b \in Nat, b > 0 PROVE (b * a) \div b = a
  OBVIOUS
<1>1. PICK q \in Int : q = (b * a) \div b
  OBVIOUS
<1>2. b * q <= b * a /\ b * a < b * (q + 1)
  BY <1>1
<1>3. q <= a
  <2>1. CASE q >= a + 1
    <3>1. b * q >= b * (a + 1)
      BY <2>1
    <3>2. b * (a + 1) = b * a + b
      OBVIOUS
    <3> QED
      BY <1>2, <3>1, <3>2
  <2> QED
    BY <2>1
<1>4. q >= a
  <2>1. CASE a >= q + 1
    <3>1. b * a >= b * (q + 1)
      BY <2>1
    <3> QED
      BY <1>2, <3>1
  <2> QED
    BY <2>1
<1> QED
  BY <1>1, <1>3, <1>4

\* The amounts of a sequence of entries.
Amounts(s) == [i \in DOMAIN s |-> s[i].amount]

\* The sum of one entry more.
LEMMA AmountsGrow ==
    ASSUME NEW s \in Seq(Entry), NEW e \in Entry
    PROVE  /\ SumFunction(Amounts(s)) \in Int
           /\ SumFunction(Amounts(Append(s, e))) = SumFunction(Amounts(s)) + e.amount
<1>1. PICK n, t : n = Len(s) + 1 /\ t = Append(s, e)
  OBVIOUS
<1>2. /\ DOMAIN s = 1..Len(s) /\ Len(s) \in Nat /\ DOMAIN t = DOMAIN s \cup {n} /\ t[n] = e
      /\ n \notin DOMAIN s /\ \A i \in DOMAIN s : t[i] = s[i] /\ s[i] \in Entry
  BY <1>1
<1>3. PICK f, g : f = Amounts(s) /\ g = Amounts(t)
  OBVIOUS
<1>4. /\ DOMAIN f = DOMAIN s /\ DOMAIN g = DOMAIN f \cup {n} /\ n \notin DOMAIN f
      /\ g[n] = e.amount
      /\ \A i \in DOMAIN f : f[i] = s[i].amount /\ g[i] = f[i]
  BY <1>2, <1>3 DEF Amounts
<1>5. IsFiniteSet(DOMAIN f)
  BY <1>2, <1>4, FS_Interval
<1>6. \A x \in Entry : x.amount \in Int
  BY DEF Entry
<1>7. g[n] \in Int /\ \A i \in DOMAIN f : f[i] \in Int
  BY <1>2, <1>4, <1>6
<1>8. SumFunction(f) \in Int /\ SumFunction(g) = SumFunction(f) + g[n]
  BY <1>4, <1>5, <1>7, SumOfIntegers, SumGrows
<1> QED
  BY <1>1, <1>3, <1>4, <1>8

\* One balance changes.
LEMMA SupplyChange ==
    ASSUME NEW b \in Balances, NEW h \in Holder, NEW n \in Int, b[h] + n \in Nat
    PROVE  /\ [b EXCEPT ![h] = @ + n] \in Balances
           /\ SumFunction(b) \in Nat
           /\ SumFunction([b EXCEPT ![h] = @ + n]) = SumFunction(b) + n
<1>1. PICK d : d = [b EXCEPT ![h] = @ + n]
  OBVIOUS
<1>2. /\ DOMAIN b = Holder /\ DOMAIN d = Holder /\ d[h] = b[h] + n /\ b[h] \in Nat
      /\ \A k \in Holder : b[k] \in Nat /\ d[k] \in Nat
      /\ \A k \in Holder \ {h} : b[k] = d[k]
      /\ d \in Balances
  BY <1>1 DEF Balances
<1>3. SumFunction(b) \in Nat
  BY <1>2, FiniteAssumption, SumOfNaturals
<1>4. SumFunction(d) = SumFunction(b) + (d[h] - b[h])
  BY <1>2, FiniteAssumption, SumChange
<1>5. PICK v \in Nat, u \in Nat, w \in Int : v = b[h] /\ u = SumFunction(b) /\ w = d[h]
  BY <1>2, <1>3
<1>6. u + (w - v) = u + n
  BY <1>2, <1>5
<1> QED
  BY <1>1, <1>2, <1>3, <1>4, <1>5, <1>6

\* Entries that were all applied change the supply by what they add up to.
LEMMA AppliedSupply ==
    ASSUME NEW b \in Balances, NEW s \in Seq(Entry), Apply(b, s).ok
    PROVE  /\ SumFunction(b) \in Nat
           /\ SumFunction(Apply(b, s).balances) = SumFunction(b) + SumFunction(Amounts(s))
<1>1. PICK v : v = SumFunction(b)
  OBVIOUS
<1>2. v \in Nat
  <2>1. DOMAIN b = Holder /\ \A h \in Holder : b[h] \in Nat
    BY DEF Balances
  <2> QED
    BY <1>1, <2>1, FiniteAssumption, SumOfNaturals
<1>3. PICK Q : Q = {t \in Seq(Entry) : Apply(b, t).ok =>
                        SumFunction(Apply(b, t).balances) = v + SumFunction(Amounts(t))}
  OBVIOUS
<1>4. <<>> \in Q
  <2>1. PICK t : t = <<>>
    OBVIOUS
  <2>2. t \in Seq(Entry) /\ DOMAIN t = {}
    BY <2>1
  <2>3. PICK f : f = Amounts(t)
    OBVIOUS
  <2>4. DOMAIN f = {}
    BY <2>2, <2>3 DEF Amounts
  <2>5. SumFunction(f) = 0
    BY <2>4, FS_EmptySet, SumOfNaturals
  <2>6. Apply(b, t) = [balances |-> b, ok |-> TRUE]
    BY <2>1, ApplyIsFold
  <2>7. SumFunction(Apply(b, t).balances) = v
    BY <1>1, <2>6
  <2>8. v = v + 0
    BY <1>2
  <2> QED
    BY <1>3, <2>1, <2>2, <2>3, <2>5, <2>7, <2>8
<1>5. ASSUME NEW t \in Seq(Entry), NEW e \in Entry, t \in Q PROVE Append(t, e) \in Q
  <2>1. PICK u, r, x : u = Append(t, e) /\ r = Apply(b, t) /\ x = Apply(b, u)
    OBVIOUS
  <2>2. u \in Seq(Entry)
    BY <2>1
  <2>3. r \in Result /\ x = ApplyEntry(r, e)
    <3>1. r \in Result
      BY <2>1, ApplyKeeps
    <3>2. \A S : \A w \in Seq(S) : \A k : Apply(b, Append(w, k)) = ApplyEntry(Apply(b, w), k)
      BY ApplyIsFold
    <3> QED
      BY <2>1, <3>1, <3>2
  <2>4. ASSUME x.ok PROVE SumFunction(x.balances) = v + SumFunction(Amounts(u))
    <3>1. r.ok /\ x.balances = [r.balances EXCEPT ![e.holder] = @ + e.amount] /\ x \in Result
      BY <2>3, <2>4, EntryApplied
    <3>2. PICK d, h, n : d = r.balances /\ h = e.holder /\ n = e.amount
      OBVIOUS
    <3>3. d \in Balances /\ h \in Holder /\ n \in Int /\ x.balances \in Balances
      BY <2>3, <3>1, <3>2 DEF Result, Entry
    <3>4. d[h] + n \in Nat
      <4>1. x.balances[h] = d[h] + n /\ x.balances[h] \in Nat
        BY <3>1, <3>2, <3>3 DEF Balances
      <4> QED
        BY <4>1
    <3>5. SumFunction([d EXCEPT ![h] = @ + n]) = SumFunction(d) + n
      BY <3>3, <3>4, SupplyChange
    <3>6. SumFunction(d) = v + SumFunction(Amounts(t))
      BY <1>3, <1>5, <2>1, <3>1, <3>2
    <3>7. SumFunction(Amounts(t)) \in Int /\ SumFunction(Amounts(u)) = SumFunction(Amounts(t)) + n
      BY <2>1, <3>2, AmountsGrow
    <3>8. PICK k \in Int : k = SumFunction(Amounts(t))
      BY <3>7
    <3>9. (v + k) + n = v + (k + n)
      BY <1>2, <3>3
    <3> QED
      BY <3>1, <3>2, <3>5, <3>6, <3>7, <3>8, <3>9
  <2> QED
    BY <1>3, <2>1, <2>2, <2>4
<1>6. s \in Q
  BY <1>4, <1>5, Applying!SequenceInduction
<1> QED
  BY <1>1, <1>2, <1>3, <1>6


\* The sum of the opposites.
Opposites(s) == [i \in DOMAIN s |-> -s[i]]

\* It is the opposite of the sum.
LEMMA SumOfOpposites ==
    ASSUME NEW s \in Seq(Int)
    PROVE  SumFunction(s) \in Int /\ SumFunction(Opposites(s)) = -SumFunction(s)
<1>1. PICK Q : Q = {t \in Seq(Int) : /\ SumFunction(t) \in Int
                                     /\ SumFunction(Opposites(t)) = -SumFunction(t)}
  OBVIOUS
<1>2. <<>> \in Q
  <2>1. PICK t : t = <<>>
    OBVIOUS
  <2>2. t \in Seq(Int) /\ DOMAIN t = {}
    BY <2>1
  <2>3. PICK o : o = Opposites(t)
    OBVIOUS
  <2>4. DOMAIN o = {}
    BY <2>2, <2>3 DEF Opposites
  <2>5. SumFunction(t) = 0 /\ SumFunction(o) = 0
    BY <2>2, <2>4, FS_EmptySet, SumOfNaturals
  <2> QED
    BY <1>1, <2>1, <2>2, <2>3, <2>5
<1>3. ASSUME NEW t \in Seq(Int), NEW e \in Int, t \in Q PROVE Append(t, e) \in Q
  <2>1. PICK n, u : n = Len(t) + 1 /\ u = Append(t, e)
    OBVIOUS
  <2>2. /\ DOMAIN t = 1..Len(t) /\ Len(t) \in Nat /\ DOMAIN u = DOMAIN t \cup {n} /\ u[n] = e
        /\ n \notin DOMAIN t /\ \A i \in DOMAIN t : u[i] = t[i] /\ t[i] \in Int
        /\ u \in Seq(Int)
    BY <2>1
  <2>3. PICK f, g : f = Opposites(t) /\ g = Opposites(u)
    OBVIOUS
  <2>4. /\ DOMAIN f = DOMAIN t /\ DOMAIN g = DOMAIN f \cup {n} /\ n \notin DOMAIN f /\ g[n] = -e
        /\ \A i \in DOMAIN f : f[i] = -t[i] /\ g[i] = f[i]
    BY <2>2, <2>3 DEF Opposites
  <2>5. \A i \in DOMAIN t : -t[i] \in Int
    BY <2>2
  <2>6. IsFiniteSet(DOMAIN t)
    BY <2>2, FS_Interval
  <2>7. SumFunction(u) = SumFunction(t) + u[n]
    BY <2>2, <2>6, SumGrows
  <2>8. SumFunction(g) = SumFunction(f) + g[n]
    <3>1. g[n] \in Int
      BY <2>4
    <3>2. \A i \in DOMAIN f : f[i] \in Int /\ g[i] = f[i]
      BY <2>4, <2>5
    <3>3. IsFiniteSet(DOMAIN f)
      BY <2>4, <2>6
    <3>4. DOMAIN g = DOMAIN f \cup {n} /\ n \notin DOMAIN f
      BY <2>4
    <3> QED
      BY <3>1, <3>2, <3>3, <3>4, SumGrows
  <2>9. PICK k \in Int : k = SumFunction(t)
    BY <1>1, <1>3
  <2>10. SumFunction(f) = -k
    BY <1>1, <1>3, <2>3, <2>9
  <2>11. k + e \in Int /\ (-k) + (-e) = -(k + e)
    BY <2>9
  <2> QED
    BY <1>1, <2>1, <2>2, <2>3, <2>4, <2>7, <2>8, <2>9, <2>10, <2>11
<1>4. s \in Q
  BY <1>2, <1>3, Applying!SequenceInduction
<1> QED
  BY <1>1, <1>4

\* Of a positive supply there is someone to allocate a change of it to.
LEMMA SomeoneHolds ==
    ASSUME NEW b \in Balances, NEW order \in Orders(b), SumFunction(b) # 0
    PROVE  Len(order) > 0
<1>1. PICK H : H = {h \in Holder : b[h] > 0}
  OBVIOUS
<1>2. DOMAIN b = Holder
  BY DEF Balances
<1>3. H # {}
  <2>1. 1 \in Nat \ {0} /\ 1 \in Nat
    OBVIOUS
  <2>2. \E h \in Holder : b[h] > 0
    BY <2>1, SupplyIs
  <2> QED
    BY <1>1, <2>2
<1>4. IsFiniteSet(H)
  <2>1. H \subseteq Holder /\ IsFiniteSet(Holder)
    BY <1>1, FiniteAssumption
  <2> QED
    BY <2>1, FS_Subset
<1>5. PICK n \in Nat : n = Cardinality(H)
  BY <1>4, FS_CardinalityType
<1>6. n # 0
  BY <1>3, <1>4, <1>5, FS_EmptySet
<1>7. order \in [1..n -> H]
  BY <1>1, <1>2, <1>5 DEF Orders, SetToSeqs
<1>8. Len(order) = n
  BY <1>7
<1> QED
  BY <1>6, <1>8

\* The allocations of a revaluation add up to the change of the supply.
LEMMA AllocationsAddUp ==
    ASSUME NEW b \in Balances, NEW order \in Orders(b), NEW previous \in Nat \ {0}, NEW new \in Nat,
           SumFunction(b) # 0
    PROVE  SumFunction(Amounts(Allocations(b, order, previous, new)))
                = RevaluedSupply(SumFunction(b), previous, new) - SumFunction(b)
<1>1. PICK supply, delta, d :
        /\ supply = SumFunction(b) /\ delta = RevaluedSupply(supply, previous, new) - supply
        /\ d = IF delta < 0 THEN -delta ELSE delta
  OBVIOUS
<1>2. supply \in Int /\ delta \in Int /\ d \in Int
  <2>1. supply \in Nat /\ RevaluedSupply(supply, previous, new) \in Int
    BY <1>1, SupplyIs
  <2>2. supply \in Int /\ delta \in Int
    BY <1>1, <2>1
  <2> QED
    BY <1>1, <2>2
<1>3. PICK share : share = ProRata(b, order, d)
  OBVIOUS
<1>4. Len(order) > 0
  BY SomeoneHolds
<1>5. /\ DOMAIN share = 1..Len(order) /\ \A i \in 1..Len(order) : share[i] \in Int
      /\ SumFunction(share) = d
  BY <1>2, <1>3, <1>4, SharesAre
<1>6. Len(order) \in Nat /\ DOMAIN order = 1..Len(order)
  BY OrderIs
<1>7. PICK e : e = [i \in DOMAIN order |->
                      [holder |-> order[i], amount |-> IF delta < 0 THEN -share[i] ELSE share[i]]]
  OBVIOUS
<1>8. e = Allocations(b, order, previous, new)
  BY <1>1, <1>3, <1>7 DEF Allocations
<1>9. PICK a : a = Amounts(e)
  OBVIOUS
<1>10. /\ DOMAIN a = DOMAIN share
       /\ \A i \in DOMAIN share : a[i] = IF delta < 0 THEN -share[i] ELSE share[i]
  BY <1>5, <1>6, <1>7, <1>9 DEF Amounts
<1>11. IsFiniteSet(DOMAIN share)
  BY <1>5, <1>6, FS_Interval
<1>12. CASE delta < 0
  <2>1. PICK t : t = [i \in 1..Len(order) |-> share[i]]
    OBVIOUS
  <2>2. t \in Seq(Int) /\ DOMAIN t = DOMAIN share /\ \A i \in DOMAIN share : t[i] = share[i]
    BY <1>5, <1>6, <2>1
  <2>3. PICK o : o = Opposites(t)
    OBVIOUS
  <2>4. DOMAIN o = DOMAIN share /\ \A i \in DOMAIN share : o[i] = a[i]
    BY <1>10, <1>12, <2>2, <2>3 DEF Opposites
  <2>5. SumFunction(a) = SumFunction(o)
    BY <1>10, <1>11, <2>4, SumSame
  <2>6. -d = delta
    BY <1>1, <1>2, <1>12
  <2>7. SumFunction(t) = d
    BY <1>5, <1>11, <2>2, SumSame
  <2>8. SumFunction(o) = -d
    BY <2>2, <2>3, <2>7, SumOfOpposites
  <2> QED
    BY <1>1, <1>8, <1>9, <2>5, <2>6, <2>8
<1>13. CASE ~(delta < 0)
  <2>1. SumFunction(a) = SumFunction(share)
    BY <1>10, <1>11, <1>13, SumSame
  <2> QED
    BY <1>1, <1>5, <1>8, <1>9, <1>13, <2>1
<1> QED
  BY <1>12, <1>13

\* So a revaluation from the whole supply makes the new value the supply.
LEMMA RevaluedTo ==
    ASSUME NEW b \in Balances, NEW order \in Orders(b), NEW v \in Nat \ {0}, NEW new \in Nat,
           SumFunction(b) = v, new # v, Apply(b, Allocations(b, order, v, new)).ok
    PROVE  SumFunction(Apply(b, Allocations(b, order, v, new)).balances) = new
<1>1. PICK s : s = Allocations(b, order, v, new)
  OBVIOUS
<1>2. s \in Seq(Entry)
  BY <1>1, AllocationsAre
<1>3. SumFunction(Apply(b, s).balances) = v + SumFunction(Amounts(s))
  BY <1>1, <1>2, AppliedSupply
<1>4. SumFunction(Amounts(s)) = RevaluedSupply(v, v, new) - v
  <2>1. SumFunction(b) # 0
    OBVIOUS
  <2> QED
    BY <1>1, <2>1, AllocationsAddUp
<1>5. RevaluedSupply(v, v, new) = new
  <2>1. (v * new) \div v = new
    BY WholeQuotient
  <2>2. v # 0
    OBVIOUS
  <2> QED
    BY <2>1, <2>2 DEF RevaluedSupply
<1>6. v + (new - v) = new
  OBVIOUS
<1> QED
  BY <1>1, <1>3, <1>4, <1>5, <1>6


(***************************************************************************)
(* RevaluationInv and SupplyInv: one revaluation at a time works on the    *)
(* value it has read, and the supply is the value the registry states or   *)
(* the one a revaluation is about to put there.                            *)
(***************************************************************************)
RevaluationInv ==
    /\ ~overlapped => \A c, d \in Caller : Revaluing(c) /\ Revaluing(d) => c = d
    /\ \A c \in Caller : Revaluing(c) =>
            /\ value[call[c].args.asset] > 0
            /\ ~overlapped => call[c].args.previous = value[call[c].args.asset]

Unburnt == \A i \in DOMAIN journal : journal[i].fact # "burn"
Supplied(supply) ==
    \A p \in Minted : Minted = {p} /\ value[p] > 0 =>
        /\ \A c \in Caller : pc[c] = "value" => supply = call[c].args.new
        /\ (\A c \in Caller : pc[c] # "value") => supply = value[p]
SupplyInv == ~overlapped /\ ~shortfall /\ Unburnt => Supplied(TokenSupply)

\* A step that leaves the value and the revaluations of it alone.
Aside(c) ==
    /\ Becomes(c, pc'[c], call'[c]) /\ pc[c] # "value" /\ pc'[c] # "value"
    /\ Revaluing(c)' => Revaluing(c) /\ call'[c].args = call[c].args
    /\ value' = value /\ overlapped' = overlapped /\ (shortfall => shortfall')
    /\ journal' = journal \/ \E r : journal' = Append(journal, r)

\* What was burnt stays journalled.
LEMMA BurntStays ==
    ASSUME SettleInv, journal' = journal \/ \E r : journal' = Append(journal, r), Unburnt'
    PROVE  Unburnt
<1>1. CASE journal' = journal
  BY <1>1 DEF Unburnt
<1>2. ASSUME NEW r, journal' = Append(journal, r) PROVE Unburnt
  <2>1. /\ DOMAIN journal \subseteq DOMAIN journal'
        /\ \A i \in DOMAIN journal : journal'[i] = journal[i]
    BY <1>2, JournalGrows DEF SettleInv
  <2> QED
    BY <2>1 DEF Unburnt
<1> QED
  BY <1>1, <1>2

\* Such a step keeps both, if the supply stays or no longer counts.
LEMMA AsideKeeps ==
    ASSUME SettleInv, RevaluationInv, SupplyInv, NEW c \in Caller, Aside(c),
           TokenSupply' = TokenSupply \/ shortfall' \/ ~Unburnt'
    PROVE  RevaluationInv' /\ SupplyInv'
<1>1. /\ \A d \in Caller \ {c} : pc'[d] = pc[d] /\ call'[d] = call[d]
      /\ value' = value /\ overlapped' = overlapped /\ (shortfall => shortfall')
  BY DEF Aside, Becomes
<1>2. ASSUME NEW d \in Caller, Revaluing(d)' PROVE Revaluing(d) /\ call'[d].args = call[d].args
  <2>1. CASE d = c
    BY <1>2, <2>1 DEF Aside
  <2>2. CASE d # c
    BY <1>1, <1>2, <2>2 DEF Revaluing
  <2> QED
    BY <2>1, <2>2
<1>3. RevaluationInv'
  <2>1. ASSUME NEW d \in Caller, Revaluing(d)'
        PROVE  /\ value'[call'[d].args.asset] > 0
               /\ ~overlapped' => call'[d].args.previous = value'[call'[d].args.asset]
    BY <1>1, <1>2, <2>1 DEF RevaluationInv
  <2> QED
    BY <1>1, <1>2, <2>1 DEF RevaluationInv
<1>4. ASSUME NEW d \in Caller
      PROVE  /\ pc'[d] = "value" <=> pc[d] = "value"
             /\ pc[d] = "value" => call'[d] = call[d]
  BY <1>1 DEF Aside
<1>5. SupplyInv'
  <2> SUFFICES ASSUME ~overlapped', ~shortfall', Unburnt'
               PROVE  Supplied(TokenSupply)'
    BY DEF SupplyInv
  <2>1. Supplied(TokenSupply) /\ TokenSupply' = TokenSupply
    BY <1>1, BurntStays DEF SupplyInv, Aside
  <2>2. PICK s : s = TokenSupply
    OBVIOUS
  <2>3. Supplied(s)
    BY <2>1, <2>2
  <2>4. \A p \in Minted : Minted = {p} /\ value'[p] > 0 =>
            /\ \A d \in Caller : pc'[d] = "value" => s = call'[d].args.new
            /\ (\A d \in Caller : pc'[d] # "value") => s = value'[p]
    BY <1>1, <1>4, <2>3 DEF Supplied
  <2> QED
    BY <2>1, <2>2, <2>4 DEF Supplied
<1> QED
  BY <1>3, <1>5

\* A call that goes on with what it was asked, or with nothing to revalue.
LEMMA GoesAside ==
    ASSUME NEW c \in Caller, NEW l, NEW x, Becomes(c, l, x), pc[c] # "value", l # "value",
           \/ l = "idle"
           \/ x.args.then # "reval"
           \/ pc[c] # "idle" /\ x.args = call[c].args,
           value' = value, overlapped' = overlapped, shortfall => shortfall',
           journal' = journal \/ \E r : journal' = Append(journal, r)
    PROVE  Aside(c)
<1>1. pc'[c] = l /\ call'[c] = x
  BY DEF Becomes
<1>2. Revaluing(c)' => Revaluing(c) /\ call'[c].args = call[c].args
  BY <1>1 DEF Revaluing
<1> QED
  BY <1>1, <1>2 DEF Aside

\* Settlements, claims and ticks are such steps.
LEMMA SettlementAside ==
    ASSUME SettleInv, RecordsInv, NEW c \in Caller,
           \/ LoadCommission(c) \/ HydrateCommission(c) \/ CheckSettled(c) \/ PayNode(c)
           \/ LoadReserve(c, "accrue", "accrued?") \/ LoadReserve(c, "child", "claim")
           \/ HydrateReserve(c) \/ Accrue(c) \/ Tick(c) \/ Claim(c),
           UNCHANGED <<token, ghosts>>
    PROVE  Aside(c)
<1>1. /\ journal' = journal /\ value' = value /\ overlapped' = overlapped /\ shortfall' = shortfall
      /\ pc[c] \in {"settle", "cload", "settled?", "pay", "accrue", "child", "rload", "accrued?",
                    "velocity", "claim"}
  BY DEF LoadCommission, HydrateCommission, CheckSettled, PayNode, LoadReserve, HydrateReserve,
         Accrue, Tick, Claim, ReleaseChild, token, registry, ghosts
<1>2. PICK x : x = call[c]
  OBVIOUS
<1>3. ASSUME NEW l, NEW due, NEW next, NEW log, NEW left, l # "value",
             Becomes(c, l, Call(x.pid, due, next, log, x.amount, left, x.args))
      PROVE  Aside(c)
  <2>1. PICK y : y = Call(x.pid, due, next, log, x.amount, left, x.args)
    OBVIOUS
  <2>2. y.args = call[c].args
    BY <1>2, <2>1, CallShape
  <2> QED
    BY <1>1, <1>3, <2>1, <2>2, GoesAside
<1>4. ASSUME NEW l, l # "value", Becomes(c, l, x) PROVE Aside(c)
  BY <1>1, <1>2, <1>4, GoesAside
<1>5. ASSUME NEW y, Becomes(c, "idle", y) PROVE Aside(c)
  BY <1>1, <1>5, GoesAside
<1>6. CASE LoadCommission(c)
  BY <1>2, <1>3, <1>4, <1>6, LoadCommissionIs
<1>7. CASE HydrateCommission(c)
  BY <1>2, <1>3, <1>7, HydrateCommissionIs
<1>8. CASE CheckSettled(c)
  BY <1>2, <1>3, <1>5, <1>8, CheckSettledIs
<1>9. CASE PayNode(c)
  BY <1>2, <1>3, <1>4, <1>9, PayNodeIs
<1>10. CASE LoadReserve(c, "accrue", "accrued?")
  BY <1>2, <1>3, <1>4, <1>10, LoadReserveIs
<1>11. CASE LoadReserve(c, "child", "claim")
  BY <1>2, <1>3, <1>4, <1>11, LoadReserveIs
<1>12. CASE HydrateReserve(c)
  <2>1. x.next # "value"
    BY <1>2, <1>12, CallIsOk DEF CallOk, HydrateReserve
  <2> QED
    BY <1>2, <1>3, <1>12, <2>1, HydrateReserveIs
<1>13. CASE Accrue(c)
  BY <1>2, <1>3, <1>5, <1>13, AccrueIs
<1>14. CASE Tick(c)
  BY <1>2, <1>3, <1>5, <1>14, TickIs
<1>15. CASE Claim(c)
  BY <1>2, <1>3, <1>5, <1>15, ClaimIs
<1> QED
  BY <1>6, <1>7, <1>8, <1>9, <1>10, <1>11, <1>12, <1>13, <1>14, <1>15

\* An append, one that fails, and the steps that begin something else.
LEMMA AppendAside ==
    ASSUME SettleInv, RecordsInv, NEW c \in Caller, AppendDue(c) \/ AppendFails(c),
           UNCHANGED <<token, ghosts>>
    PROVE  Aside(c)
<1>1. /\ value' = value /\ overlapped' = overlapped /\ shortfall' = shortfall /\ pc[c] = "append"
  BY DEF AppendDue, AppendFails, token, registry, ghosts
<1>2. PICK x : x = call[c]
  OBVIOUS
<1>3. ASSUME NEW y, Becomes(c, "idle", y), journal' = journal \/ \E r : journal' = Append(journal, r)
      PROVE  Aside(c)
  BY <1>1, <1>3, GoesAside
<1>4. CASE AppendFails(c)
  <2>1. journal' = journal /\ Stop(c)
    BY <1>4 DEF AppendFails
  <2> QED
    BY <1>3, <2>1, StopIs
<1>5. CASE AppendDue(c)
  <2>1. journal' = journal \/ \E r : journal' = Append(journal, r)
    BY <1>2, <1>5, AppendDueIs
  <2>2. x.next # "value"
    BY <1>1, <1>2, CallIsOk DEF CallOk
  <2>3. PICK y : y = Call(x.pid, NoFact, "idle", x.log, x.amount, x.left, x.args)
    OBVIOUS
  <2>4. y.args = call[c].args
    BY <1>2, <2>3, CallShape
  <2>5. \/ Becomes(c, "idle", Call(Nobody, NoFact, "idle", <<>>, 0, {}, NoArgs))
        \/ Becomes(c, x.next, y)
    BY <1>2, <1>5, <2>3, AppendDueIs
  <2>6. CASE Becomes(c, x.next, y)
    BY <1>1, <2>1, <2>2, <2>4, <2>6, GoesAside
  <2> QED
    BY <1>3, <2>1, <2>5, <2>6
<1> QED
  BY <1>4, <1>5


\* What begins something else than a revaluation.
LEMMA BeginAside ==
    ASSUME SettleInv, RecordsInv, NEW c \in Caller, UNCHANGED ghosts,
           \/ (\E p \in Minted : Settle(c, p)) /\ UNCHANGED token
           \/ Status(c) /\ UNCHANGED token
           \/ \E args : Ask(c, args) /\ args.then # "reval"
    PROVE  Aside(c) /\ balances' = balances
<1>1. overlapped' = overlapped /\ shortfall' = shortfall
  BY DEF ghosts
<1>2. NoArgs.then # "reval"
  BY NothingDue
<1>3. ASSUME NEW l, NEW p, NEW m, NEW args, args.then # "reval", l # "value", pc[c] = "idle",
             Becomes(c, l, Call(p, NoFact, "idle", <<>>, m, {}, args)),
             journal' = journal, UNCHANGED token
      PROVE  Aside(c) /\ balances' = balances
  <2>1. PICK y : y = Call(p, NoFact, "idle", <<>>, m, {}, args)
    OBVIOUS
  <2>2. y.args.then # "reval"
    BY <1>3, <2>1, CallShape
  <2>3. value' = value /\ balances' = balances
    BY <1>3 DEF token, registry
  <2> QED
    BY <1>1, <1>3, <2>1, <2>2, <2>3, GoesAside
<1>4. ASSUME NEW p \in Minted, Settle(c, p), UNCHANGED token PROVE Aside(c) /\ balances' = balances
  <2>1. /\ journal' = journal /\ pc[c] = "idle"
        /\ Becomes(c, "settle", Call(p, NoFact, "idle", <<>>, 0, {}, NoArgs))
    BY <1>4, BeginIs DEF Settle
  <2> QED
    BY <1>2, <1>3, <1>4, <2>1
<1>5. ASSUME Status(c), UNCHANGED token PROVE Aside(c) /\ balances' = balances
  <2>1. PICK v : v = reserve.volume
    OBVIOUS
  <2>2. /\ journal' = journal /\ pc[c] = "idle"
        /\ Becomes(c, "velocity", Call(Nobody, NoFact, "idle", <<>>, v, {}, NoArgs))
    BY <1>5, <2>1, StatusIs
  <2> QED
    BY <1>2, <1>3, <1>5, <2>2
<1>6. ASSUME NEW args, Ask(c, args), args.then # "reval" PROVE Aside(c) /\ balances' = balances
  <2>1. /\ journal' = journal /\ pc[c] = "idle" /\ UNCHANGED token
        /\ Becomes(c, "verdict", Call(Own(c), NoFact, "idle", <<>>, 0, {}, args))
    BY <1>6, AskIs
  <2> QED
    BY <1>3, <1>6, <2>1
<1> QED
  BY <1>4, <1>5, <1>6

\* A release burns and mints, and the journal says so.
LEMMA ReleaseAside ==
    ASSUME SettleInv, RecordsInv, ReleaseInv, NEW c \in Caller, Burn(c) \/ Remint(c)
    PROVE  Aside(c) /\ (balances' = balances \/ ~Unburnt')
<1>1. PICK x : x = call[c]
  OBVIOUS
<1>2. /\ value' = value /\ overlapped' = overlapped /\ shortfall' = shortfall
      /\ pc[c] \in {"burn", "remint"}
  BY BurnIs, RemintIs DEF registry, ghosts
<1>3. CASE Burn(c)
  <2>1. PICK h, m, f : h = x.args.holder /\ m = x.args.before /\ f = Fact("burn", x.pid, h, m)
    OBVIOUS
  <2>2. \/ /\ journal' = journal /\ balances' = balances
           /\ Becomes(c, "idle", Call(Nobody, NoFact, "idle", <<>>, 0, {}, NoArgs))
        \/ journal' = Append(journal, f) /\ Becomes(c, "child", x)
    BY <1>1, <1>3, <2>1, BurnIs
  <2>3. ASSUME journal' = Append(journal, f) PROVE ~Unburnt'
    <3>1. /\ Len(journal) + 1 \in DOMAIN journal' /\ journal'[Len(journal) + 1] = f
      <4>1. /\ DOMAIN journal' = 1..(Len(journal) + 1) /\ Len(journal) \in Nat
            /\ journal'[Len(journal) + 1] = f
        BY <2>3, JournalGrows DEF SettleInv
      <4> QED
        BY <4>1
    <3>2. f.fact = "burn"
      BY <2>1, FactShape
    <3> QED
      BY <3>1, <3>2 DEF Unburnt
  <2>4. ASSUME NEW y, Becomes(c, "idle", y), journal' = journal PROVE Aside(c)
    BY <1>2, <2>4, GoesAside
  <2>5. ASSUME Becomes(c, "child", x), journal' = Append(journal, f) PROVE Aside(c)
    BY <1>1, <1>2, <2>5, GoesAside
  <2> QED
    BY <2>2, <2>3, <2>4, <2>5
<1>4. CASE Remint(c)
  <2>1. PICK h, rest, f, y :
          /\ h = x.args.holder /\ rest = x.args.before - x.args.amount
          /\ f = Fact("release", x.pid, h, x.args.amount)
          /\ y = Call(x.pid, f, "idle", x.log, x.amount, x.left, x.args)
    OBVIOUS
  <2>2. /\ pc[c] = "remint" /\ Becomes(c, "append", y)
        /\ journal' = journal \/ \E r : journal' = Append(journal, r)
    BY <1>1, <1>4, <2>1, RemintIs
  <2>3. y.args = call[c].args
    BY <1>1, <2>1, CallShape
  <2>4. Aside(c)
    BY <1>2, <2>2, <2>3, GoesAside
  <2>5. ~Unburnt
    <3>1. x.args.then = "burn"
      BY <1>1, <2>2, CallIsOk DEF Asked, Releasing
    <3>2. Claimed(journal, x.pid, x.args.before, x.args.amount)
      BY <1>1, <2>2, <3>1 DEF ReleaseInv, ReleaseStage
    <3>3. \E i \in DOMAIN journal : At(journal, "burn", x.pid) = {i}
      BY <3>2 DEF Claimed, Once
    <3> QED
      BY <3>3 DEF At, Unburnt
  <2>6. ~Unburnt'
    BY <2>2, <2>5, BurntStays
  <2> QED
    BY <2>4, <2>6
<1> QED
  BY <1>3, <1>4

\* A transfer leaves the supply as it is.
LEMMA TransferAside ==
    ASSUME SettleInv, RecordsInv, NEW c \in Caller, Transfer(c)
    PROVE  Aside(c) /\ TokenSupply' = TokenSupply
<1>1. PICK x, a : x = call[c] /\ a = x.args
  OBVIOUS
<1>2. pc[c] = "transfer" /\ journal' = journal /\ value' = value /\ UNCHANGED ghosts
  BY DEF Transfer, registry
<1>3. overlapped' = overlapped /\ shortfall' = shortfall
  BY <1>2 DEF ghosts
<1>4. IsTransfer(a)
  BY <1>1, <1>2, CallIsOk, TransferArgs DEF Asked
<1>5. PICK from \in Holder, to \in Holder, m \in Nat : from = a.from /\ to = a.to /\ m = a.amount /\ from # to
  BY <1>4 DEF IsTransfer
<1>6. PICK b : b = balances /\ b \in Balances
  BY DEF RecordsInv, Remembered, Balances
<1>7. CASE b[from] < m
  <2>1. balances' = balances /\ Stop(c)
    BY <1>1, <1>5, <1>6, <1>7 DEF Transfer
  <2>2. Becomes(c, "idle", Call(Nobody, NoFact, "idle", <<>>, 0, {}, NoArgs))
    BY <2>1, StopIs
  <2>3. Aside(c)
    BY <1>2, <1>3, <2>2, GoesAside
  <2> QED
    BY <2>1, <2>3 DEF TokenSupply
<1>8. CASE ~(b[from] < m)
  <2>1. /\ balances' = [balances EXCEPT ![from] = @ - m, ![to] = @ + m]
        /\ Goto(c, "holders") /\ UNCHANGED call
    BY <1>1, <1>5, <1>6, <1>8 DEF Transfer
  <2>2. Becomes(c, "holders", x)
    BY <1>1, <2>1, GotoIs
  <2>3. Aside(c)
    BY <1>1, <1>2, <1>3, <2>2, GoesAside
  <2>4. PICK n : n = -m
    OBVIOUS
  <2>5. n \in Int /\ b[from] + n \in Nat /\ b[from] \in Nat /\ b[to] \in Nat
    BY <1>5, <1>6, <1>8, <2>4 DEF Balances
  <2>6. PICK d : d = [b EXCEPT ![from] = @ + n]
    OBVIOUS
  <2>7. d \in Balances /\ SumFunction(b) \in Nat /\ SumFunction(d) = SumFunction(b) + n
    BY <1>5, <1>6, <2>5, <2>6, SupplyChange
  <2>8. d[to] = b[to] /\ d[to] + m \in Nat /\ m \in Int
    BY <1>5, <1>6, <2>5, <2>6 DEF Balances
  <2>9. SumFunction([d EXCEPT ![to] = @ + m]) = SumFunction(d) + m
    BY <1>5, <2>7, <2>8, SupplyChange
  <2>10. balances' = [d EXCEPT ![to] = @ + m]
    <3>1. PICK e : e = balances'
      OBVIOUS
    <3>2. e = [b EXCEPT ![from] = @ - m, ![to] = @ + m]
      BY <1>6, <2>1, <3>1
    <3>3. b[from] - m = b[from] + n
      BY <1>5, <2>4, <2>5
    <3>4. e = [d EXCEPT ![to] = @ + m]
      BY <1>5, <1>6, <2>6, <3>2, <3>3 DEF Balances
    <3> QED
      BY <3>1, <3>4
  <2>11. PICK k \in Nat : k = SumFunction(b)
    BY <2>7
  <2>12. (k + n) + m = k
    BY <1>5, <2>4, <2>11
  <2>13. TokenSupply' = SumFunction(balances') /\ TokenSupply = SumFunction(b)
    BY <1>6 DEF TokenSupply
  <2> QED
    BY <2>3, <2>7, <2>9, <2>10, <2>11, <2>12, <2>13
<1> QED
  BY <1>7, <1>8

\* A verdict, and the holders a transfer leaves in the registry.
LEMMA VerdictAside ==
    ASSUME SettleInv, RecordsInv, NEW c \in Caller, Verdict(c) \/ SetHolders(c)
    PROVE  Aside(c) /\ balances' = balances
<1>1. PICK x, then : x = call[c] /\ then = x.args.then
  OBVIOUS
<1>2. /\ journal' = journal /\ value' = value /\ UNCHANGED ghosts /\ balances' = balances
      /\ pc[c] \in {"verdict", "holders"}
  BY DEF Verdict, SetHolders, token, registry
<1>3. overlapped' = overlapped /\ shortfall' = shortfall
  BY <1>2 DEF ghosts
<1>4. ASSUME Stop(c) PROVE Aside(c)
  <2>1. Becomes(c, "idle", Call(Nobody, NoFact, "idle", <<>>, 0, {}, NoArgs))
    BY <1>4, StopIs
  <2> QED
    BY <1>2, <1>3, <2>1, GoesAside
<1>5. ASSUME pc[c] = "verdict", Goto(c, then), UNCHANGED call PROVE Aside(c)
  <2>1. Becomes(c, then, x)
    BY <1>1, <1>5, GotoIs
  <2>2. then \in {"burn", "reval", "transfer"}
    <3>1. x.pid \notin Minted
      BY <1>1, <1>5, CallIsOk DEF CallOk, SettlementPc
    <3> QED
      BY <1>1, <1>5, <3>1, CallIsOk DEF CallOk
  <2> QED
    BY <1>1, <1>2, <1>3, <2>1, <2>2, GoesAside
<1> QED
  BY <1>1, <1>2, <1>4, <1>5 DEF Verdict, SetHolders


\* A revaluation begins: with the value the registry states, and alone or overlapped.
LEMMA RevaluationBegins ==
    ASSUME SettleInv, RecordsInv, RevaluationInv, SupplyInv, NEW c \in Caller, NEW p \in Minted,
           NEW new \in Value, AskRevaluation(c, p, new)
    PROVE  RevaluationInv' /\ SupplyInv'
<1>1. PICK v, args, x :
        /\ v = value[p]
        /\ args = [then |-> "reval", asset |-> p, previous |-> v, new |-> new]
        /\ x = Call(Own(c), NoFact, "idle", <<>>, 0, {}, args)
  OBVIOUS
<1>2. /\ Ask(c, args) /\ v > 0 /\ shortfall' = shortfall
      /\ overlapped' = (overlapped \/ \E d \in Caller : Revaluing(d))
  BY <1>1 DEF AskRevaluation
<1>3. Becomes(c, "verdict", x) /\ UNCHANGED <<journal, token>> /\ pc[c] = "idle"
  BY <1>1, <1>2, AskIs
<1>4. /\ pc'[c] = "verdict" /\ call'[c] = x
      /\ \A d \in Caller \ {c} : pc'[d] = pc[d] /\ call'[d] = call[d]
      /\ journal' = journal /\ value' = value /\ balances' = balances
  BY <1>3 DEF Becomes, token, registry
<1>5. x.args = args /\ args.asset = p /\ args.previous = v
  BY <1>1, CallShape
<1>6. \A d \in Caller \ {c} : Revaluing(d)' <=> Revaluing(d)
  BY <1>4 DEF Revaluing
<1>7. ~overlapped' => ~overlapped /\ \A d \in Caller : ~Revaluing(d)
  BY <1>2
<1>8. ASSUME NEW d \in Caller, Revaluing(d)'
      PROVE  /\ value'[call'[d].args.asset] > 0
             /\ ~overlapped' => call'[d].args.previous = value'[call'[d].args.asset]
  <2>1. CASE d = c
    BY <1>1, <1>2, <1>4, <1>5, <2>1
  <2>2. CASE d # c
    BY <1>4, <1>6, <1>7, <1>8, <2>2 DEF RevaluationInv
  <2> QED
    BY <2>1, <2>2
<1>9. RevaluationInv'
  BY <1>6, <1>7, <1>8 DEF RevaluationInv
<1>10. SupplyInv'
  <2> SUFFICES ASSUME ~overlapped', ~shortfall', Unburnt' PROVE Supplied(TokenSupply)'
    BY DEF SupplyInv
  <2>1. Supplied(TokenSupply) /\ TokenSupply' = TokenSupply
    BY <1>2, <1>4, <1>7 DEF SupplyInv, Unburnt, TokenSupply
  <2>2. PICK s : s = TokenSupply
    OBVIOUS
  <2>3. \A d \in Caller : (pc'[d] = "value" <=> pc[d] = "value") /\ (pc[d] = "value" => call'[d] = call[d])
    BY <1>3, <1>4
  <2>4. \A q \in Minted : Minted = {q} /\ value'[q] > 0 =>
            /\ \A d \in Caller : pc'[d] = "value" => s = call'[d].args.new
            /\ (\A d \in Caller : pc'[d] # "value") => s = value'[q]
    BY <1>4, <2>1, <2>2, <2>3 DEF Supplied
  <2> QED
    BY <2>1, <2>2, <2>4 DEF Supplied
<1> QED
  BY <1>9, <1>10

\* Who is about to put a value in the registry is revaluing.
LEMMA RevaluingAt ==
    ASSUME SettleInv, RecordsInv, NEW d \in Caller, pc[d] \in {"reval", "value"}
    PROVE  Revaluing(d) /\ IsRevaluation(call[d].args)
<1>1. call[d].args.then = "reval"
  BY CallIsOk DEF Asked
<1> QED
  BY <1>1, RevaluationArgs DEF Revaluing

\* The value of the revaluation reaches the registry.
LEMMA ValueSet ==
    ASSUME SettleInv, RecordsInv, RevaluationInv, SupplyInv, NEW c \in Caller, SetValue(c)
    PROVE  RevaluationInv' /\ SupplyInv'
<1>1. PICK a, q, new : a = call[c].args /\ q = a.asset /\ new = a.new
  OBVIOUS
<1>2. /\ pc[c] = "value" /\ value' = [value EXCEPT ![q] = new] /\ Stop(c)
      /\ journal' = journal /\ balances' = balances /\ UNCHANGED ghosts
  BY <1>1 DEF SetValue
<1>3. overlapped' = overlapped /\ shortfall' = shortfall
  BY <1>2 DEF ghosts
<1>4. /\ pc'[c] = "idle" /\ \A d \in Caller \ {c} : pc'[d] = pc[d] /\ call'[d] = call[d]
  BY <1>2, StopIs DEF Becomes
<1>5. Revaluing(c) /\ q \in Minted /\ new \in Nat \ {0}
  BY <1>1, <1>2, RevaluingAt, RequestsAssumption DEF IsRevaluation
<1>6. \A d \in Caller : Revaluing(d)' => d # c /\ Revaluing(d)
  BY <1>4 DEF Revaluing
<1>7. value \in [Minted -> Value \cup {0, Volume}]
  BY DEF RecordsInv, Remembered
<1>8. value'[q] = new /\ \A p \in Minted \ {q} : value'[p] = value[p]
  BY <1>2, <1>5, <1>7
<1>9. \A d \in Caller : Revaluing(d) => call[d].args.asset \in Minted
  <2>1. ASSUME NEW d \in Caller, Revaluing(d) PROVE call[d].args.asset \in Minted
    BY <2>1, RevaluationArgs DEF Revaluing, IsRevaluation
  <2> QED
    BY <2>1
<1>10. ~overlapped' => \A d \in Caller : ~Revaluing(d)'
  BY <1>3, <1>5, <1>6 DEF RevaluationInv
<1>11. \A d \in Caller : Revaluing(d)' => value'[call'[d].args.asset] > 0
  <2>1. ASSUME NEW d \in Caller, Revaluing(d)' PROVE value'[call'[d].args.asset] > 0
    <3>1. d # c /\ Revaluing(d) /\ call'[d] = call[d]
      BY <1>4, <1>6, <2>1
    <3>2. PICK p \in Minted : p = call[d].args.asset
      BY <1>9, <3>1
    <3>3. value[p] > 0
      BY <3>1, <3>2 DEF RevaluationInv
    <3>4. value'[p] > 0
      BY <1>5, <1>8, <3>3
    <3> QED
      BY <3>1, <3>2, <3>4
  <2> QED
    BY <2>1
<1>12. RevaluationInv'
  BY <1>10, <1>11 DEF RevaluationInv
<1>13. SupplyInv'
  <2> SUFFICES ASSUME ~overlapped', ~shortfall', Unburnt', NEW p \in Minted, Minted = {p}, value'[p] > 0
               PROVE  /\ \A d \in Caller : pc'[d] = "value" => TokenSupply' = call'[d].args.new
                      /\ (\A d \in Caller : pc'[d] # "value") => TokenSupply' = value'[p]
    BY DEF SupplyInv, Supplied
  <2>1. Supplied(TokenSupply)
    BY <1>2, <1>3 DEF SupplyInv, Unburnt
  <2>2. p = q /\ value[p] > 0
    BY <1>1, <1>5 DEF RevaluationInv
  <2>3. TokenSupply = new
    BY <1>1, <1>2, <2>1, <2>2 DEF Supplied
  <2>4. TokenSupply' = new /\ value'[p] = new
    BY <1>2, <1>8, <2>2, <2>3 DEF TokenSupply
  <2>5. \A d \in Caller : pc'[d] # "value"
    <3>1. ASSUME NEW d \in Caller, pc'[d] = "value" PROVE FALSE
      <4>1. d # c /\ pc[d] = "value"
        BY <1>4, <3>1
      <4>2. Revaluing(d)
        BY <4>1, RevaluingAt
      <4> QED
        BY <1>3, <1>5, <4>1, <4>2 DEF RevaluationInv
    <3> QED
      BY <3>1
  <2> QED
    BY <2>4, <2>5
<1> QED
  BY <1>12, <1>13

\* The supply follows the value; nothing else does, when the entries were not all applied.
LEMMA SupplyRevalued ==
    ASSUME SettleInv, RecordsInv, RevaluationInv, SupplyInv, NEW c \in Caller, Revalue(c)
    PROVE  RevaluationInv' /\ SupplyInv'
<1>1. PICK x, a : x = call[c] /\ a = x.args
  OBVIOUS
<1>2. /\ pc[c] = "reval" /\ journal' = journal /\ value' = value /\ overlapped' = overlapped
  BY DEF Revalue, registry
<1>3. /\ Revaluing(c) /\ a.asset \in Minted /\ a.previous \in Nat \ {0} /\ a.new \in Nat
  BY <1>1, <1>2, RevaluingAt, RequestsAssumption DEF IsRevaluation
<1>4. PICK b : b = balances /\ b \in Balances
  BY DEF RecordsInv, Remembered, Balances
<1>5. ASSUME Stop(c), shortfall => shortfall', balances' = balances \/ shortfall'
      PROVE  RevaluationInv' /\ SupplyInv'
  <2>1. Becomes(c, "idle", Call(Nobody, NoFact, "idle", <<>>, 0, {}, NoArgs))
    BY <1>5, StopIs
  <2>2. Aside(c)
    BY <1>2, <1>5, <2>1, GoesAside
  <2>3. TokenSupply' = TokenSupply \/ shortfall'
    BY <1>5 DEF TokenSupply
  <2> QED
    BY <2>2, <2>3, AsideKeeps
<1>6. CASE a.new = a.previous \/ TokenSupply = 0
  <2>1. Stop(c) /\ balances' = balances /\ shortfall' = shortfall
    BY <1>1, <1>6 DEF Revalue
  <2> QED
    BY <1>5, <2>1
<1>7. CASE ~(a.new = a.previous \/ TokenSupply = 0)
  <2>1. PICK order \in Orders(b) :
          LET result == Apply(b, Allocations(b, order, a.previous, a.new)) IN
          /\ balances' = result.balances
          /\ shortfall' = (shortfall \/ (~result.ok /\ result.balances # b))
          /\ IF result.ok THEN Goto(c, "value") /\ UNCHANGED call ELSE Stop(c)
    BY <1>1, <1>4, <1>7 DEF Revalue
  <2>2. PICK result : result = Apply(b, Allocations(b, order, a.previous, a.new))
    OBVIOUS
  <2>3. CASE ~result.ok
    <3>1. Stop(c) /\ balances' = result.balances /\ shortfall' = (shortfall \/ result.balances # b)
      BY <2>1, <2>2, <2>3
    <3> QED
      BY <1>4, <1>5, <3>1
  <2>4. CASE result.ok
    <3>1. /\ Becomes(c, "value", x) /\ balances' = result.balances
          /\ shortfall' <=> shortfall
      <4>1. Goto(c, "value") /\ UNCHANGED call
        BY <2>1, <2>2, <2>4
      <4>2. Becomes(c, "value", x)
        BY <1>1, <4>1, GotoIs
      <4> QED
        BY <2>1, <2>2, <2>4, <4>2
    <3>2. /\ pc'[c] = "value" /\ call'[c] = x
          /\ \A d \in Caller \ {c} : pc'[d] = pc[d] /\ call'[d] = call[d]
      BY <3>1 DEF Becomes
    <3>3. \A d \in Caller : (Revaluing(d)' <=> Revaluing(d)) /\ call'[d] = call[d]
      BY <1>1, <1>3, <3>2 DEF Revaluing
    <3>4. RevaluationInv'
      BY <1>2, <3>3 DEF RevaluationInv
    <3>5. SupplyInv'
      <4> SUFFICES ASSUME ~overlapped', ~shortfall', Unburnt', NEW p \in Minted, Minted = {p},
                          value'[p] > 0
                   PROVE  /\ \A d \in Caller : pc'[d] = "value" => TokenSupply' = call'[d].args.new
                          /\ (\A d \in Caller : pc'[d] # "value") => TokenSupply' = value'[p]
        BY DEF SupplyInv, Supplied
      <4>1. Supplied(TokenSupply)
        BY <1>2, <3>1 DEF SupplyInv, Unburnt
      <4>2. \A d \in Caller : d # c => ~Revaluing(d)
        BY <1>2, <1>3 DEF RevaluationInv
      <4>3. \A d \in Caller : pc[d] # "value"
        BY <1>2, <4>2, RevaluingAt
      <4>4. TokenSupply = value[p]
        BY <1>2, <4>1, <4>3 DEF Supplied
      <4>5. a.previous = value[p]
        BY <1>1, <1>2, <1>3 DEF RevaluationInv
      <4>6. PICK v, new \in Nat : v = a.previous /\ new = a.new /\ v \in Nat \ {0}
        BY <1>3
      <4>7. SumFunction(b) = v /\ new # v /\ result = Apply(b, Allocations(b, order, v, new))
        BY <1>4, <1>7, <2>2, <4>4, <4>5, <4>6 DEF TokenSupply
      <4>8. SumFunction(result.balances) = new
        BY <1>4, <2>4, <4>6, <4>7, RevaluedTo
      <4>9. TokenSupply' = new
        BY <3>1, <4>8 DEF TokenSupply
      <4>10. \A d \in Caller : pc'[d] = "value" => d = c
        BY <3>2, <4>3
      <4> QED
        BY <1>1, <3>2, <4>6, <4>9, <4>10
    <3> QED
      BY <3>4, <3>5
  <2> QED
    BY <2>3, <2>4
<1> QED
  BY <1>6, <1>7


\* A restart forgets every value, and every revaluation.
LEMMA RestartSupplies ==
    ASSUME SettleInv, RecordsInv, Restart
    PROVE  RevaluationInv' /\ SupplyInv'
<1>1. /\ pc' = [c \in Caller |-> "idle"] /\ value' = [p \in Minted |-> 0]
  BY DEF Restart, SettlementRestart
<1>2. \A c \in Caller : ~Revaluing(c)'
  BY <1>1 DEF Revaluing
<1>3. \A p \in Minted : ~(value'[p] > 0)
  BY <1>1
<1> QED
  BY <1>2, <1>3 DEF RevaluationInv, SupplyInv, Supplied

\* Every step keeps RevaluationInv and SupplyInv.
LEMMA NextSupply ==
    ASSUME SettleInv, RecordsInv, ReleaseInv, RevaluationInv, SupplyInv, Next
    PROVE  RevaluationInv' /\ SupplyInv'
<1>1. ASSUME NEW c \in Caller, Aside(c), balances' = balances PROVE RevaluationInv' /\ SupplyInv'
  <2>1. TokenSupply' = TokenSupply
    BY <1>1 DEF TokenSupply
  <2> QED
    BY <1>1, <2>1, AsideKeeps
<1>2. ASSUME NEW c \in Caller, UNCHANGED <<token, ghosts>>,
             \/ SettlementStep(c) \/ AppendFails(c) \/ LoadReserve(c, "child", "claim")
             \/ Claim(c)
      PROVE  RevaluationInv' /\ SupplyInv'
  <2>1. balances' = balances
    BY <1>2 DEF token
  <2>2. Aside(c)
    BY <1>2, SettlementAside, AppendAside DEF SettlementStep
  <2> QED
    BY <1>1, <2>1, <2>2
<1>3. ASSUME NEW c \in Caller, NEW p \in Minted, Settle(c, p), UNCHANGED <<token, ghosts>>
      PROVE  RevaluationInv' /\ SupplyInv'
  BY <1>1, <1>3, BeginAside
<1>4. ASSUME NEW c \in Caller, Status(c), UNCHANGED <<token, ghosts>>
      PROVE  RevaluationInv' /\ SupplyInv'
  BY <1>1, <1>4, BeginAside
<1>5. ASSUME NEW c \in Caller,
             \/ \E h \in Holder, amount \in Amount : AskRelease(c, h, amount)
             \/ \E p \in Minted, from, to \in Holder, amount \in Amount :
                    AskTransfer(c, p, from, to, amount)
      PROVE  RevaluationInv' /\ SupplyInv'
  <2>1. \E args : Ask(c, args) /\ args.then # "reval"
    <3>1. ASSUME NEW h, NEW amount, AskRelease(c, h, amount)
          PROVE  \E args : Ask(c, args) /\ args.then # "reval"
      <4>1. PICK args : args = [then |-> "burn", holder |-> h, amount |-> amount,
                                before |-> balances[h]]
        OBVIOUS
      <4>2. Ask(c, args)
        BY <3>1, <4>1 DEF AskRelease
      <4>3. args.then # "reval"
        BY <4>1
      <4> QED
        BY <4>2, <4>3
    <3>2. ASSUME NEW p, NEW from, NEW to, NEW amount, AskTransfer(c, p, from, to, amount)
          PROVE  \E args : Ask(c, args) /\ args.then # "reval"
      <4>1. PICK args : args = [then |-> "transfer", asset |-> p, from |-> from, to |-> to,
                                amount |-> amount]
        OBVIOUS
      <4>2. Ask(c, args)
        BY <3>2, <4>1 DEF AskTransfer
      <4>3. args.then # "reval"
        BY <4>1
      <4> QED
        BY <4>2, <4>3
    <3> QED
      BY <1>5, <3>1, <3>2
  <2>2. UNCHANGED ghosts
    BY <1>5 DEF AskRelease, AskTransfer
  <2> QED
    BY <1>1, <2>1, <2>2, BeginAside
<1>6. ASSUME NEW c \in Caller, Verdict(c) \/ SetHolders(c) PROVE RevaluationInv' /\ SupplyInv'
  BY <1>1, <1>6, VerdictAside
<1>7. ASSUME NEW c \in Caller, Burn(c) \/ Remint(c) PROVE RevaluationInv' /\ SupplyInv'
  <2>1. Aside(c) /\ (balances' = balances \/ ~Unburnt')
    BY <1>7, ReleaseAside
  <2>2. CASE ~Unburnt'
    BY <2>1, <2>2, AsideKeeps
  <2> QED
    BY <1>1, <2>1, <2>2
<1>8. ASSUME NEW c \in Caller, Transfer(c) PROVE RevaluationInv' /\ SupplyInv'
  BY <1>8, TransferAside, AsideKeeps
<1>9. ASSUME NEW c \in Caller, Claim(c) PROVE UNCHANGED <<token, ghosts>>
  BY <1>9 DEF Claim
<1> QED
  BY <1>2, <1>3, <1>4, <1>5, <1>6, <1>7, <1>8, <1>9, RevaluationBegins, SupplyRevalued, ValueSet,
     RestartSupplies DEF Next

\* At first the one asset of the token is worth what was minted for it.
LEMMA InitSupply == Init => RevaluationInv /\ SupplyInv
<1> SUFFICES ASSUME Init PROVE RevaluationInv /\ SupplyInv
  OBVIOUS
<1>1. /\ pc = [c \in Caller |-> "idle"] /\ value = [p \in Minted |-> Volume]
      /\ balances = [h \in Holder |-> Volume * Cardinality({p \in Minted : Owner[p] = h})]
  BY DEF Init, SettlementInit
<1>2. \A c \in Caller : ~Revaluing(c) /\ pc[c] # "value"
  BY <1>1 DEF Revaluing
<1>3. ASSUME NEW p \in Minted, Minted = {p} PROVE TokenSupply = Volume
  <2>1. Volume \in Nat /\ Owner[p] \in Holder
    BY AmountsAssumption, OwnerAssumption
  <2>2. PICK o \in Holder : o = Owner[p]
    BY <2>1
  <2>3. ASSUME NEW h \in Holder PROVE balances[h] = IF h = o THEN Volume ELSE 0
    <3>1. CASE h = o
      <4>1. {q \in Minted : Owner[q] = h} = {p}
        BY <1>3, <2>2, <3>1
      <4>2. Cardinality({p}) = 1
        BY FS_Singleton
      <4>3. balances[h] = Volume * 1
        BY <1>1, <4>1, <4>2
      <4> QED
        BY <2>1, <3>1, <4>3
    <3>2. CASE h # o
      <4>1. {q \in Minted : Owner[q] = h} = {}
        BY <1>3, <2>2, <3>2
      <4>2. Cardinality({}) = 0
        BY FS_EmptySet
      <4>3. balances[h] = Volume * 0
        BY <1>1, <4>1, <4>2
      <4> QED
        BY <2>1, <3>2, <4>3
    <3> QED
      BY <3>1, <3>2
  <2>4. PICK none : none = [h \in Holder |-> 0]
    OBVIOUS
  <2>5. /\ DOMAIN none = Holder /\ \A h \in Holder : none[h] \in Nat /\ none[h] = 0
        /\ none \in Balances
    BY <2>4 DEF Balances
  <2>6. SumFunction(none) = 0
    BY <2>5, FiniteAssumption, SumOfNaturals
  <2>7. PICK b : b = [none EXCEPT ![o] = @ + Volume]
    OBVIOUS
  <2>8. SumFunction(b) = 0 + Volume
    <3>1. none \in Balances /\ Volume \in Int /\ none[o] + Volume \in Nat
      BY <2>1, <2>5
    <3>2. SumFunction(b) = SumFunction(none) + Volume
      BY <2>7, <3>1, SupplyChange
    <3> QED
      BY <2>6, <3>2
  <2>9. balances = b
    <3>1. b = [h \in Holder |-> IF h = o THEN none[o] + Volume ELSE none[h]]
      BY <2>4, <2>7
    <3>2. b = [h \in Holder |-> IF h = o THEN Volume ELSE 0]
      BY <2>1, <2>5, <3>1
    <3>3. balances = [h \in Holder |-> balances[h]]
      BY <1>1
    <3> QED
      BY <2>3, <3>2, <3>3
  <2> QED
    BY <2>1, <2>8, <2>9 DEF TokenSupply
<1>4. SupplyInv
  BY <1>1, <1>2, <1>3 DEF SupplyInv, Supplied
<1> QED
  BY <1>2, <1>4 DEF RevaluationInv

\* They do not depend on anything else.
LEMMA StutterSupply ==
    ASSUME RevaluationInv, SupplyInv, UNCHANGED vars
    PROVE  RevaluationInv' /\ SupplyInv'
BY DEF RevaluationInv, SupplyInv, Supplied, Unburnt, TokenSupply, Revaluing, vars, settlementVars,
       running, token, registry, ghosts

\* I7: at rest the supply of a token with one asset is the value of the asset, as long as nothing
\* was burnt for a release, no two revaluations overlapped and none was refused half-way.
THEOREM SupplyFollowsValue == Spec => []SupplyIsValue
<1>1. /\ SettleInv /\ RecordsInv /\ ReleaseInv
      /\ RevaluationInv /\ SupplyInv /\ [Next]_vars
      => RevaluationInv' /\ SupplyInv'
  BY NextSupply, StutterSupply
<1>2. SupplyInv => SupplyIsValue
  BY DEF SupplyInv, Supplied, Unburnt, SupplyIsValue, AtRest
<1> QED
  BY <1>1, <1>2, InitSupply, RecordsInvariance, ReleaseInvariance, PTL DEF Spec

\* A release takes what it claims, and the supply of an asset is its value.
THEOREM AssetsStayInBalance == Spec => []AssetStaysInBalance
<1>1. ReleaseBalances /\ SupplyIsValue <=> AssetStaysInBalance
  BY DEF AssetStaysInBalance
<1> QED
  BY <1>1, ReleasesBalance, SupplyFollowsValue, PTL
=============================================================================
