-------------------------- MODULE TokenLedgerProofs --------------------------
(***************************************************************************)
(* TokenLedger's invariants and RefusedMintIsJournalled for any callers,   *)
(* holders, requests and bounds.                                           *)
(*                                                                         *)
(* AppendInv (module TokenLedger) is inductive.  Only Write changes the    *)
(* journal.  Of the other steps, TakeEffect alone begins an append; the    *)
(* rest move one call on, or end it: Unhurried says what they leave alone, *)
(* and one lemma shows that such a step keeps AppendInv.                   *)
(*                                                                         *)
(* LedgerInv is inductive beside it, and relates the balances to the       *)
(* journal: what is in memory is what the journal adds up to and what the  *)
(* appends under way will add.  Its first part is about amounts and the    *)
(* folds that add them up; its steps are of four kinds: quiet ones, an     *)
(* effect, the write of a fact, and a call dropped with its effect.        *)
(***************************************************************************)
EXTENDS TokenLedger, FiniteSetTheorems, TLAPS

\* A step of c that neither begins an append nor writes: the others' calls and
\* the journal stay as they are, and what is reported done is journalled.
Unhurried(c) ==
    /\ UNCHANGED <<journal, raced>>
    /\ \A d \in Caller \ {c} :
         pc'[d] = pc[d] /\ found'[d] = found[d] /\ fact'[d] = fact[d]
    /\ pc' \in [Caller -> Await] /\ found' \in [Caller -> BOOLEAN]
    /\ DOMAIN fact' = Caller
    /\ \/ pc'[c] \notin {"lookup", "tip", "written"}
       \/ /\ pc[c] = "lookup" /\ ~found[c] /\ pc'[c] = "tip"
          /\ found'[c] = found[c] /\ fact'[c] = fact[c]
    /\ \A f \in told' : f \in told \/ Journalled(f)

LEMMA UnhurriedKeeps ==
    ASSUME AppendInv, NEW c \in Caller, Unhurried(c)
    PROVE  AppendInv'
<1> USE DEF AppendInv, Unhurried
<1>1. \A f : Journalled(f)' <=> Journalled(f)
  BY DEF Journalled
<1>2. \A f : KeyRaced(f)' <=> KeyRaced(f)
  BY DEF KeyRaced
<1>3. \A d \in Caller : Unjournalled(d)' => Unjournalled(d) /\ fact'[d] = fact[d]
  BY DEF Unjournalled
<1>4. ASSUME NEW d \in Caller PROVE CallInv(d)'
  <2>1. CASE d # c
    BY <1>1, <1>2, <2>1 DEF CallInv, Unjournalled, KeyRaced
  <2>2. CASE d = c
    BY <1>1, <1>2, <2>2 DEF CallInv, Unjournalled, KeyRaced
  <2> QED BY <2>1, <2>2
<1>5. ToldIsJournalled'
  BY <1>1 DEF ToldIsJournalled
<1>6. \A d, e \in Caller :
         d # e /\ Unjournalled(d)' /\ Unjournalled(e)' /\ SameKey(fact[d], fact[e])'
         => KeyRaced(fact[d])'
  BY <1>2, <1>3 DEF SameKey, KeyRaced
<1> QED
  BY <1>2, <1>4, <1>5, <1>6

\* Ending a call is such a step, unless it reports an unjournalled fact done.
LEMMA FinishKeeps ==
    ASSUME AppendInv, NEW c \in Caller, NEW result, Finish(c, result),
           UNCHANGED <<journal, raced>>,
           \A f \in told' : f \in told \/ Journalled(f)
    PROVE  AppendInv'
<1>1. /\ pc' \in [Caller -> Await] /\ found' \in [Caller -> BOOLEAN]
      /\ DOMAIN fact' = Caller /\ pc'[c] = "idle"
      /\ \A d \in Caller \ {c} :
           pc'[d] = pc[d] /\ found'[d] = found[d] /\ fact'[d] = fact[d]
  BY DEF AppendInv, Finish, Suspend, Await
<1> QED
  BY <1>1, UnhurriedKeeps DEF Unhurried

\* So is going to an await before the effect.
LEMMA SuspendKeeps ==
    ASSUME AppendInv, NEW c \in Caller, NEW where, Suspend(c, where),
           where \in {"gate", "hydrate", "ready", "check"},
           UNCHANGED <<journal, raced, told, found, fact>>
    PROVE  AppendInv'
<1>1. pc' \in [Caller -> Await] /\ pc'[c] = where /\ \A d \in Caller \ {c} : pc'[d] = pc[d]
  BY DEF AppendInv, Suspend, Await
<1>2. Unhurried(c)
  BY <1>1 DEF AppendInv, Unhurried
<1> QED
  BY <1>2, UnhurriedKeeps
-----------------------------------------------------------------------------
(***************************************************************************)
(* The steps of an operation up to its effect.                             *)
(***************************************************************************)
LEMMA HydrationKeeps ==
    ASSUME AppendInv, NEW c \in Caller, AwaitHydration(c),
           UNCHANGED <<journal, raced, told, found, fact>>
    PROVE  AppendInv'
  BY SuspendKeeps DEF AwaitHydration

LEMMA CallKeeps ==
    ASSUME AppendInv, NEW c \in Caller, Call(c)
    PROVE  AppendInv'
<1>1. PICK r \in Request : CallMint(c, r) \/ CallDirect(c, r)
  BY DEF Call
<1>2. CASE CallMint(c, r)
  BY <1>2, SuspendKeeps DEF CallMint, ghosts
<1>3. CASE CallDirect(c, r)
  BY <1>3, HydrationKeeps DEF CallDirect
<1> QED
  BY <1>1, <1>2, <1>3

LEMMA PassGateKeeps ==
    ASSUME AppendInv, NEW c \in Caller, PassGate(c)
    PROVE  AppendInv'
<1>1. CASE AwaitHydration(c) /\ UNCHANGED <<found, fact>>
  BY <1>1, HydrationKeeps DEF PassGate, ghosts
<1>2. CASE Finish(c, "MINT_WITHOUT_POT")
  BY <1>2, FinishKeeps DEF PassGate, ghosts
<1> QED
  BY <1>1, <1>2 DEF PassGate

LEMMA HydrateKeeps ==
    ASSUME AppendInv, NEW c \in Caller, Hydrate(c)
    PROVE  AppendInv'
<1>1. CASE Suspend(c, "ready") /\ UNCHANGED <<found, fact>>
  BY <1>1, SuspendKeeps DEF Hydrate
<1>2. CASE Finish(c, "INSUFFICIENT")
  BY <1>2, FinishKeeps DEF Hydrate
<1> QED
  BY <1>1, <1>2 DEF Hydrate

LEMMA ChecksKeep ==
    ASSUME AppendInv, NEW c \in Caller,
           \/ MintCheck(c) \/ MintRefused(c)
           \/ RemintCheck(c) \/ RemintRefused(c) \/ RevalueRefused(c)
    PROVE  AppendInv'
<1>1. UNCHANGED <<journal, raced, told>>
  BY DEF MintCheck, MintRefused, RemintCheck, RemintRefused, RevalueRefused, ghosts
<1>2. CASE Suspend(c, "check") /\ UNCHANGED <<found, fact>>
  BY <1>1, <1>2, SuspendKeeps
<1>3. CASE \E result : Finish(c, result)
  BY <1>1, <1>3, FinishKeeps
<1> QED
  BY <1>2, <1>3 DEF MintCheck, MintRefused, RemintCheck, RemintRefused, RevalueRefused
-----------------------------------------------------------------------------
(***************************************************************************)
(* The effect.  Its lookup finds the key in the journal as it is now; if   *)
(* another append is under way with the same key, the key becomes raced.   *)
(***************************************************************************)
LEMMA TakeEffectKeeps ==
    ASSUME AppendInv, NEW c \in Caller, NEW entries, TakeEffect(c, entries),
           pc[c] \in {"ready", "check"}
    PROVE  AppendInv'
<1> DEFINE applied == Apply(balances, entries)
<1>1. CASE ~applied.ok
  <2>1. Finish(c, "INSUFFICIENT") /\ UNCHANGED <<journal, raced, told>>
    BY <1>1 DEF TakeEffect
  <2> QED
    BY <2>1, FinishKeeps
<1>2. CASE applied.ok
  <2>0. PICK g : g = [op |-> req[c].op, pid |-> req[c].pid, entries |-> entries,
                      claim |-> IF req[c].op = "burn" THEN <<c, calls[c]>> ELSE <<>>]
    OBVIOUS
  <2>1. /\ Suspend(c, "lookup") /\ fact' = [fact EXCEPT ![c] = g]
        /\ found' = [found EXCEPT ![c] = Journalled(g)]
        /\ raced' = IF \E d \in Caller : Unjournalled(d) /\ SameKey(fact[d], g)
                    THEN raced \cup {<<g.op, g.pid>>} ELSE raced
        /\ UNCHANGED <<journal, told>>
    BY <1>2, <2>0 DEF TakeEffect
  <2>2. PlainKey(g)
    BY <2>0 DEF PlainKey
  <2>3. /\ pc' \in [Caller -> Await] /\ pc'[c] = "lookup"
        /\ DOMAIN fact' = Caller /\ fact'[c] = g
        /\ found' \in [Caller -> BOOLEAN] /\ (found'[c] <=> Journalled(g))
        /\ \A d \in Caller \ {c} :
             pc'[d] = pc[d] /\ fact'[d] = fact[d] /\ found'[d] = found[d]
    <3>1. Journalled(g) \in BOOLEAN
      BY DEF Journalled
    <3> QED
      BY <2>1, <3>1 DEF AppendInv, Suspend, Await
  <2>4. raced \subseteq raced'
    BY <2>1
  <2>5. \A x : (Journalled(x)' <=> Journalled(x)) /\ (KeyRaced(x) => KeyRaced(x)')
    BY <2>1, <2>4 DEF Journalled, KeyRaced
  <2>6. ~Unjournalled(c)
    BY DEF Unjournalled
  <2>7. \A d \in Caller : Unjournalled(d) /\ SameKey(fact[d], g) => KeyRaced(g)'
    BY <2>1 DEF KeyRaced
  <2>8. ASSUME NEW d \in Caller PROVE CallInv(d)'
    <3>1. CASE d # c
      <4>1. CallInv(d)
        BY DEF AppendInv
      <4> QED
        BY <2>3, <2>5, <3>1, <4>1 DEF CallInv, Unjournalled, KeyRaced, Journalled
    <3>2. CASE d = c
      <4>1. found'[c] => Journalled(g)'
        BY <2>3, <2>5
      <4>2. ~found'[c] => ~Journalled(g)'
        BY <2>3, <2>5
      <4> QED
        BY <2>3, <2>2, <3>2, <4>1, <4>2 DEF CallInv, Unjournalled, Journalled, PlainKey
    <3> QED
      BY <3>1, <3>2
  <2>9. ASSUME NEW d \in Caller, NEW e \in Caller, d # e,
               Unjournalled(d)', Unjournalled(e)', SameKey(fact[d], fact[e])'
        PROVE  KeyRaced(fact[d])'
    <3>1. CASE d # c /\ e # c
      <4>1. Unjournalled(d) /\ Unjournalled(e) /\ SameKey(fact[d], fact[e])
        BY <2>3, <2>9, <3>1 DEF Unjournalled, SameKey
      <4>2. KeyRaced(fact[d])
        BY <2>9, <4>1 DEF AppendInv
      <4> QED
        BY <2>3, <2>5, <3>1, <4>2 DEF KeyRaced
    <3>2. CASE d = c
      <4>1. Unjournalled(e) /\ SameKey(fact[e], g)
        BY <2>3, <2>9, <3>2 DEF Unjournalled, SameKey
      <4> QED
        BY <2>3, <2>7, <3>2, <4>1 DEF KeyRaced
    <3>3. CASE e = c
      <4>1. Unjournalled(d) /\ SameKey(fact[d], g) /\ fact'[d] = fact[d]
        BY <2>3, <2>9, <3>3 DEF Unjournalled, SameKey
      <4> QED
        BY <2>7, <4>1 DEF KeyRaced, SameKey
    <3> QED
      BY <3>1, <3>2, <3>3
  <2>10. ToldIsJournalled'
    BY <2>1, <2>5 DEF AppendInv, ToldIsJournalled
  <2> QED
    BY <2>1, <2>3, <2>5, <2>8, <2>9, <2>10 DEF AppendInv, KeyRaced
<1> QED
  BY <1>1, <1>2

LEMMA EffectsKeep ==
    ASSUME AppendInv, NEW c \in Caller,
           Mint(c) \/ Remint(c) \/ Burn(c) \/ Transfer(c) \/ Revalue(c)
    PROVE  AppendInv'
<1>1. pc[c] \in {"ready", "check"}
  BY DEF Mint, Remint, Burn, Transfer, Revalue
<1>2. CASE Revalue(c)
  <2>1. PICK order \in Orders(balances) :
          TakeEffect(c, Allocations(balances, order, req[c].previous, req[c].new))
    BY <1>2 DEF Revalue
  <2> QED
    BY <1>1, <2>1, TakeEffectKeeps
<1>3. CASE Mint(c) \/ Remint(c)
  BY <1>1, <1>3, TakeEffectKeeps DEF Mint, Remint
<1>4. CASE Burn(c)
  BY <1>1, <1>4, TakeEffectKeeps DEF Burn
<1>5. CASE Transfer(c)
  BY <1>1, <1>5, TakeEffectKeeps DEF Transfer
<1> QED
  BY <1>2, <1>3, <1>4, <1>5
-----------------------------------------------------------------------------
(***************************************************************************)
(* The append.                                                             *)
(***************************************************************************)
LEMMA AnswersKeep ==
    ASSUME AppendInv, NEW c \in Caller, AnswerExisting(c) \/ Answer(c)
    PROVE  AppendInv'
<1>1. UNCHANGED <<journal, raced>> /\ told' = told \cup {fact[c]} /\ Finish(c, "ok")
  BY DEF AnswerExisting, Answer
<1>2. Journalled(fact[c])
  BY DEF AnswerExisting, Answer, AppendInv, CallInv
<1> QED
  BY <1>1, <1>2, FinishKeeps

LEMMA ThrowsKeep ==
    ASSUME AppendInv, NEW c \in Caller, WriteRefused(c) \/ AppendFails(c)
    PROVE  AppendInv'
  BY FinishKeeps DEF WriteRefused, AppendFails, AppendThrows

LEMMA ReadTipKeeps ==
    ASSUME AppendInv, NEW c \in Caller, ReadTip(c)
    PROVE  AppendInv'
<1>1. Unhurried(c)
  BY DEF AppendInv, Unhurried, ReadTip, Suspend, Await, ghosts
<1> QED
  BY <1>1, UnhurriedKeeps

\* The write: if its key is journalled already, or another append of its key is
\* under way, the key has raced.
LEMMA WriteKeeps ==
    ASSUME AppendInv, NEW c \in Caller, Write(c)
    PROVE  AppendInv'
<1>0. PICK f : f = fact[c]
  OBVIOUS
<1>1. /\ journal' = Append(journal, f) /\ Suspend(c, "written")
      /\ UNCHANGED <<found, fact, raced, told>> /\ pc[c] = "tip" /\ Unjournalled(c)
  BY <1>0 DEF Write, ghosts, Unjournalled
<1>2. PICK S : S = ToSet(journal) /\ journal \in Seq(S)
  BY DEF AppendInv
<1>3. /\ Len(journal) \in Nat /\ DOMAIN journal = 1..Len(journal)
      /\ DOMAIN journal' = 1..(Len(journal) + 1)
      /\ \A i \in DOMAIN journal : journal'[i] = journal[i]
      /\ journal'[Len(journal) + 1] = f
      /\ journal' \in Seq(S \cup {f})
  BY <1>1, <1>2
<1>4. journal' \in Seq(ToSet(journal'))
  <2>1. \A i \in 1..Len(journal') : journal'[i] \in ToSet(journal')
    BY <1>3 DEF ToSet
  <2> QED
    BY <1>3, <2>1
<1>5. \A g : Journalled(g)' <=> Journalled(g) \/ SameKey(f, g)
  BY <1>3 DEF Journalled
<1>6. \A g : KeyRaced(g)' <=> KeyRaced(g)
  BY <1>1 DEF KeyRaced
<1>7. /\ pc' \in [Caller -> Await] /\ pc'[c] = "written"
      /\ \A d \in Caller \ {c} : pc'[d] = pc[d]
  BY <1>1 DEF AppendInv, Suspend, Await
<1>8. PlainKey(f) /\ (KeyRaced(f) \/ ~Journalled(f))
  BY <1>0, <1>1 DEF AppendInv, CallInv, Unjournalled
<1>9. ASSUME NEW d \in Caller PROVE CallInv(d)'
  <2>1. CASE d = c
    BY <1>0, <1>1, <1>5, <1>7, <1>8, <2>1
    DEF CallInv, Unjournalled, Journalled, PlainKey, SameKey
  <2>2. CASE d # c
    <3>1. Unjournalled(d) /\ SameKey(f, fact[d]) => KeyRaced(fact[d])
      BY <1>0, <1>1, <2>2 DEF AppendInv, SameKey, KeyRaced
    <3>2. CallInv(d)
      BY DEF AppendInv
    <3>3. pc'[d] = pc[d] /\ fact'[d] = fact[d] /\ found'[d] = found[d]
      BY <1>1, <1>7, <2>2
    <3>4. Journalled(fact[d])' <=> Journalled(fact[d]) \/ SameKey(f, fact[d])
      BY <1>1, <1>5 DEF Journalled
    <3> QED
      BY <1>1, <3>1, <3>2, <3>3, <3>4 DEF CallInv, Unjournalled, PlainKey, KeyRaced
  <2> QED
    BY <2>1, <2>2
<1>10. \A d, e \in Caller :
          d # e /\ Unjournalled(d)' /\ Unjournalled(e)' /\ SameKey(fact[d], fact[e])'
          => KeyRaced(fact[d])'
  BY <1>1, <1>7 DEF AppendInv, Unjournalled, SameKey, KeyRaced
<1>11. \A i \in DOMAIN journal' : PlainKey(journal'[i])
  BY <1>3, <1>8 DEF AppendInv
<1>12. ASSUME NEW i \in DOMAIN journal', NEW j \in DOMAIN journal', i # j,
              SameKey(journal'[i], journal'[j])
       PROVE  <<journal'[i].op, journal'[i].pid>> \in raced'
  <2>1. CASE i \in DOMAIN journal /\ j \in DOMAIN journal
    BY <1>1, <1>3, <1>12, <2>1 DEF AppendInv, KeyRaced
  <2>2. CASE j = Len(journal) + 1
    BY <1>1, <1>3, <1>8, <1>12, <2>2 DEF Journalled, KeyRaced, SameKey
  <2>3. CASE i = Len(journal) + 1
    BY <1>1, <1>3, <1>8, <1>12, <2>3 DEF Journalled, KeyRaced, SameKey
  <2> QED
    BY <1>3, <2>1, <2>2, <2>3
<1>13. ToldIsJournalled'
  BY <1>1, <1>5 DEF AppendInv, ToldIsJournalled
<1> QED
  BY <1>1, <1>4, <1>7, <1>9, <1>10, <1>11, <1>12, <1>13 DEF AppendInv, KeyRaced, PlainKey

\* A restart leaves no call suspended.
LEMMA CrashKeeps ==
    ASSUME AppendInv, Crash
    PROVE  AppendInv'
<1>1. /\ pc' = [c \in Caller |-> "idle"] /\ found' = [c \in Caller |-> FALSE]
      /\ fact' = [c \in Caller |-> NoFact] /\ UNCHANGED <<journal, told, raced>>
  BY DEF Crash
<1>2. \A c \in Caller : CallInv(c)' /\ ~Unjournalled(c)'
  BY <1>1 DEF CallInv, Unjournalled
<1>3. ToldIsJournalled'
  BY <1>1 DEF AppendInv, ToldIsJournalled, Journalled
<1> QED
  BY <1>1, <1>2, <1>3 DEF AppendInv, Await, KeyRaced
-----------------------------------------------------------------------------
\* AppendInv is an invariant of the token ledger: no interleaving of
\* operations, failing append or restart breaks it.
THEOREM AppendInvariance == Spec => []AppendInv
<1>1. Init => AppendInv
  BY DEF Init, AppendInv, Await, CallInv, Unjournalled, ToldIsJournalled, ToSet
<1>2. AppendInv /\ [Next]_vars => AppendInv'
  <2> SUFFICES ASSUME AppendInv, [Next]_vars
               PROVE  AppendInv'
    OBVIOUS
  <2>1. CASE UNCHANGED vars
    BY <2>1 DEF vars, locals, ghosts, AppendInv, CallInv, Unjournalled, Journalled,
                SameKey, KeyRaced, PlainKey, ToldIsJournalled
  <2>2. CASE Crash
    BY <2>2, CrashKeeps
  <2>3. ASSUME NEW c \in Caller,
               \/ Call(c) \/ PassGate(c) \/ Hydrate(c)
               \/ MintCheck(c) \/ Mint(c) \/ MintRefused(c)
               \/ RemintCheck(c) \/ Remint(c) \/ RemintRefused(c)
               \/ Burn(c) \/ Transfer(c) \/ Revalue(c) \/ RevalueRefused(c)
               \/ AnswerExisting(c) \/ ReadTip(c) \/ Write(c) \/ WriteRefused(c)
               \/ AppendFails(c) \/ Answer(c)
        PROVE  AppendInv'
    BY <2>3, CallKeeps, PassGateKeeps, HydrateKeeps, ChecksKeep, EffectsKeep,
       AnswersKeep, ThrowsKeep, ReadTipKeeps, WriteKeeps
  <2> QED
    BY <2>1, <2>2, <2>3 DEF Next, Step
<1> QED
  BY <1>1, <1>2, PTL DEF Spec

\* A process is minted once, and reminted once, unless two appends of its fact
\* overlapped: the lookup of the append is what keeps the second one out
\* (nodechain.service.ts 208), whatever the checks before it have read.
THEOREM MintedOnce == Spec => []MintedOnceUnlessRaced
<1>1. AppendInv => MintedOnceUnlessRaced
  BY DEF AppendInv, MintedOnceUnlessRaced, PlainKey, SameKey, KeyRaced
<1> QED
  BY <1>1, AppendInvariance, PTL

\* What token.service reported done is in the journal, through every
\* interleaving, failed append and restart.
THEOREM ToldStaysJournalled == Spec => []ToldIsJournalled
<1>1. AppendInv => ToldIsJournalled
  BY DEF AppendInv
<1> QED
  BY <1>1, AppendInvariance, PTL
-----------------------------------------------------------------------------
(***************************************************************************)
(* Amounts. Applying entries, adding them up and replaying facts are       *)
(* folds, and a sum over a finite set is one: SequenceFolds says what each *)
(* round of a fold does.                                                   *)
(***************************************************************************)
Entry == [holder : Holder, amount : Int]

Applying == INSTANCE SequenceFolds WITH op <- ApplyEntry
Adding == INSTANCE SequenceFolds WITH op <- AddEntry
Netting == INSTANCE SequenceFolds WITH op <- AddFact
Replaying == INSTANCE SequenceFolds WITH op <- ReplayFact

\* What entries add up to, per holder.
Added(sum, entries) == FoldLeft(AddEntry, sum, entries)
Delta(entries) == Added(Nothing, entries)

\* A fact as an operation makes it: its entries are a sequence.
WholeFact(f) == IsFact(f) /\ f.entries \in Seq(Entry)

LEMMA ApplyRounds ==
    ASSUME NEW b
    PROVE  /\ Apply(b, <<>>) = [balances |-> b, ok |-> TRUE]
           /\ \A e \in Seq(Entry), x \in Entry :
                Apply(b, Append(e, x)) = ApplyEntry(Apply(b, e), x)
<1>1. PICK base : base = [balances |-> b, ok |-> TRUE]
  OBVIOUS
<1>2. \A e : Apply(b, e) = Applying!Fold(base, e)
  BY <1>1 DEF Apply, Applying!Fold, FoldLeft, Applying!FoldLeft, MapThenFoldSet,
              Applying!MapThenFoldSet, Max, Applying!Max
<1> QED
  BY <1>1, <1>2, Applying!FoldEmpty, Applying!FoldAppend

LEMMA AddingRounds ==
    ASSUME NEW b
    PROVE  /\ Added(b, <<>>) = b
           /\ \A e \in Seq(Entry), x \in Entry :
                Added(b, Append(e, x)) = AddEntry(Added(b, e), x)
<1>1. \A e : Added(b, e) = Adding!Fold(b, e)
  BY DEF Added, Adding!Fold, FoldLeft, Adding!FoldLeft, MapThenFoldSet,
         Adding!MapThenFoldSet, Max, Adding!Max
<1> QED
  BY <1>1, Adding!FoldEmpty, Adding!FoldAppend

LEMMA NetRounds ==
    /\ Net(<<>>) = Nothing
    /\ \A S : \A s \in Seq(S) : \A f : Net(Append(s, f)) = AddFact(Net(s), f)
<1>1. \A s : Net(s) = Netting!Fold(Nothing, s)
  BY DEF Net, Netting!Fold, FoldLeft, Netting!FoldLeft, MapThenFoldSet,
         Netting!MapThenFoldSet, Max, Netting!Max
<1> QED
  BY <1>1, Netting!FoldEmpty, Netting!FoldAppend

Fresh == [balances |-> Nothing, ok |-> TRUE, minted |-> {}]

LEMMA ReplayRounds ==
    /\ Replay(<<>>) = Fresh
    /\ \A S : \A s \in Seq(S) : \A f : Replay(Append(s, f)) = ReplayFact(Replay(s), f)
<1>1. \A s : Replay(s) = Replaying!Fold(Fresh, s)
  BY DEF Replay, Fresh, Replaying!Fold, FoldLeft, Replaying!FoldLeft, MapThenFoldSet,
         Replaying!MapThenFoldSet, Max, Replaying!Max
<1> QED
  BY <1>1, Replaying!FoldEmpty, Replaying!FoldAppend

LEMMA SumIs ==
    /\ \A f, S : SumFunctionOnSet(f, S) = Adding!Sum(f, S)
    /\ \A S : IsFiniteSet(S) <=> Adding!IsFiniteSet(S)
<1>1. \A f, S : SumFunctionOnSet(f, S) = Adding!Sum(f, S)
  BY DEF Adding!Sum, SumFunctionOnSet, Adding!SumFunctionOnSet, FoldFunctionOnSet,
         Adding!FoldFunctionOnSet, MapThenFoldSet, Adding!MapThenFoldSet
<1>2. \A S : IsFiniteSet(S) <=> Adding!IsFiniteSet(S)
  BY DEF IsFiniteSet, Adding!IsFiniteSet
<1> QED
  BY <1>1, <1>2

\* The lemmas of SequenceFolds about sums that are needed here.
LEMMA SumOfIntegers ==
    ASSUME NEW S, IsFiniteSet(S), NEW f, \A x \in S : f[x] \in Int
    PROVE  SumFunctionOnSet(f, S) \in Int
  BY SumIs, Adding!SumAny

LEMMA SumOfNaturals ==
    ASSUME NEW S, IsFiniteSet(S), NEW f, \A x \in S : f[x] \in Nat
    PROVE  /\ SumFunctionOnSet(f, S) \in Nat
           /\ \A x \in S : f[x] <= SumFunctionOnSet(f, S)
           /\ (\A x \in S : f[x] = 0) => SumFunctionOnSet(f, S) = 0
<1>1. /\ Adding!Sum(f, S) \in Nat
      /\ (\A x \in S : f[x] = 0) => Adding!Sum(f, S) = 0
  BY SumIs, Adding!SumOfNaturals
<1>2. \A x \in S : f[x] <= Adding!Sum(f, S)
  BY SumIs, Adding!SumBounds
<1> QED
  BY <1>1, <1>2, SumIs

LEMMA SumChange ==
    ASSUME NEW S, IsFiniteSet(S), NEW x \in S, NEW f, NEW g,
           \A y \in S : f[y] \in Int /\ g[y] \in Int,
           \A y \in S \ {x} : f[y] = g[y]
    PROVE  SumFunctionOnSet(g, S) = SumFunctionOnSet(f, S) + (g[x] - f[x])
<1>1. Adding!Sum(g, S) = Adding!Sum(f, S) + (g[x] - f[x])
  BY SumIs, Adding!SumChange
<1> QED
  BY <1>1, SumIs

LEMMA SumSame ==
    ASSUME NEW S, IsFiniteSet(S), NEW f, NEW g, \A y \in S : f[y] = g[y]
    PROVE  SumFunctionOnSet(g, S) = SumFunctionOnSet(f, S)
<1>1. Adding!Sum(g, S) = Adding!Sum(f, S)
  BY SumIs, Adding!SumSame
<1> QED
  BY <1>1, SumIs
-----------------------------------------------------------------------------
\* What one entry adds.
Part(x) == [h \in Holder |-> IF h = x.holder THEN x.amount ELSE 0]

LEMMA AddEntryAdds ==
    ASSUME NEW x \in Entry
    PROVE  /\ Part(x) \in [Holder -> Int]
           /\ \A b \in [Holder -> Int] :
                /\ AddEntry(b, x) \in [Holder -> Int]
                /\ \A h \in Holder : AddEntry(b, x)[h] = b[h] + Part(x)[h]
<1>1. x.holder \in Holder /\ x.amount \in Int
  BY DEF Entry
<1>2. PICK k, m : k = x.holder /\ m = x.amount
  OBVIOUS
<1>3. \A b : AddEntry(b, x) = [b EXCEPT ![k] = b[k] + m]
  BY <1>2 DEF AddEntry
<1>4. PICK p : p = Part(x)
  OBVIOUS
<1>5. p = [h \in Holder |-> IF h = k THEN m ELSE 0]
  BY <1>2, <1>4 DEF Part
<1>6. p \in [Holder -> Int]
  BY <1>1, <1>2, <1>5
<1>7. ASSUME NEW b \in [Holder -> Int], NEW h \in Holder
      PROVE  [b EXCEPT ![k] = b[k] + m][h] = b[h] + p[h]
  <2>1. CASE h = k
    BY <1>1, <1>2, <1>5, <2>1
  <2>2. CASE h # k
    BY <1>1, <1>2, <1>5, <2>2
  <2> QED
    BY <2>1, <2>2
<1>8. ASSUME NEW b \in [Holder -> Int]
      PROVE  [b EXCEPT ![k] = b[k] + m] \in [Holder -> Int]
  BY <1>1, <1>2
<1> QED
  BY <1>3, <1>4, <1>6, <1>7, <1>8

\* The entries of a fact add up, whatever they are added to.
LEMMA AddingIsDelta ==
    ASSUME NEW b \in [Holder -> Int], NEW e \in Seq(Entry)
    PROVE  /\ Delta(e) \in [Holder -> Int]
           /\ Added(b, e) \in [Holder -> Int]
           /\ \A h \in Holder : Added(b, e)[h] = b[h] + Delta(e)[h]
<1>1. PICK Q : Q = {t \in Seq(Entry) :
                      /\ Delta(t) \in [Holder -> Int]
                      /\ Added(b, t) \in [Holder -> Int]
                      /\ \A h \in Holder : Added(b, t)[h] = b[h] + Delta(t)[h]}
  OBVIOUS
<1>2. <<>> \in Q
  <2>1. Delta(<<>>) = Nothing /\ Added(b, <<>>) = b
    BY AddingRounds DEF Delta
  <2> QED
    BY <1>1, <2>1 DEF Nothing
<1>3. ASSUME NEW t \in Seq(Entry), NEW x \in Entry, t \in Q
      PROVE  Append(t, x) \in Q
  <2>1. PICK d, f : d = Delta(t) /\ f = Added(b, t)
    OBVIOUS
  <2>2. /\ Delta(Append(t, x)) = AddEntry(d, x)
        /\ Added(b, Append(t, x)) = AddEntry(f, x)
    BY <2>1, AddingRounds DEF Delta
  <2>3. /\ d \in [Holder -> Int] /\ f \in [Holder -> Int]
        /\ \A h \in Holder : f[h] = b[h] + d[h]
    BY <1>1, <1>3, <2>1
  <2>4. x.holder \in Holder /\ x.amount \in Int
    BY DEF Entry
  <2>5. /\ AddEntry(d, x) \in [Holder -> Int] /\ AddEntry(f, x) \in [Holder -> Int]
        /\ \A h \in Holder : AddEntry(f, x)[h] = b[h] + AddEntry(d, x)[h]
    <3>1. PICK d2, f2, p : d2 = AddEntry(d, x) /\ f2 = AddEntry(f, x) /\ p = Part(x)
      OBVIOUS
    <3>2. /\ p \in [Holder -> Int] /\ d2 \in [Holder -> Int] /\ f2 \in [Holder -> Int]
          /\ \A h \in Holder : d2[h] = d[h] + p[h] /\ f2[h] = f[h] + p[h]
      BY <2>3, <3>1, AddEntryAdds
    <3>3. \A h \in Holder : f2[h] = b[h] + d2[h]
      BY <2>3, <3>2
    <3> QED
      BY <3>1, <3>2, <3>3
  <2>6. Append(t, x) \in Seq(Entry)
    OBVIOUS
  <2> QED
    BY <1>1, <2>2, <2>5, <2>6
<1>4. Seq(Entry) \subseteq Q
  BY <1>2, <1>3, Adding!SequenceInduction
<1> QED
  BY <1>1, <1>4

\* Credits and debits that all succeed add the entries to the balances.
LEMMA ApplyAdds ==
    ASSUME NEW b \in [Holder -> Nat], NEW e \in Seq(Entry)
    PROVE  /\ Apply(b, e) \in [balances : [Holder -> Nat], ok : BOOLEAN]
           /\ Apply(b, e).ok =>
                \A h \in Holder : Apply(b, e).balances[h] = b[h] + Delta(e)[h]
<1>1. PICK Q : Q = {t \in Seq(Entry) :
                      /\ Delta(t) \in [Holder -> Int]
                      /\ Apply(b, t) \in [balances : [Holder -> Nat], ok : BOOLEAN]
                      /\ Apply(b, t).ok =>
                           \A h \in Holder : Apply(b, t).balances[h] = b[h] + Delta(t)[h]}
  OBVIOUS
<1>2. <<>> \in Q
  <2>1. Delta(<<>>) = Nothing /\ Apply(b, <<>>) = [balances |-> b, ok |-> TRUE]
    BY AddingRounds, ApplyRounds DEF Delta
  <2>2. /\ Apply(b, <<>>) \in [balances : [Holder -> Nat], ok : BOOLEAN]
        /\ Apply(b, <<>>).balances = b
    <3>1. PICK r : r = Apply(b, <<>>)
      OBVIOUS
    <3>2. r.balances = b /\ r = [balances |-> b, ok |-> TRUE]
      BY <2>1, <3>1
    <3>3. r \in [balances : [Holder -> Nat], ok : BOOLEAN]
      BY <3>2
    <3> QED
      BY <3>1, <3>2, <3>3
  <2>3. /\ Delta(<<>>) \in [Holder -> Int]
        /\ \A h \in Holder : b[h] = b[h] + Delta(<<>>)[h]
    BY <2>1 DEF Nothing
  <2> QED
    BY <1>1, <2>2, <2>3
<1>3. ASSUME NEW t \in Seq(Entry), NEW x \in Entry, t \in Q
      PROVE  Append(t, x) \in Q
  <2>1. PICK d, r : d = Delta(t) /\ r = Apply(b, t)
    OBVIOUS
  <2>2. /\ Delta(Append(t, x)) = AddEntry(d, x)
        /\ Apply(b, Append(t, x)) = ApplyEntry(r, x)
        /\ Append(t, x) \in Seq(Entry)
    <3>1. Delta(Append(t, x)) = AddEntry(d, x)
      <4>1. \A c : Added(c, Append(t, x)) = AddEntry(Added(c, t), x)
        BY AddingRounds
      <4> QED
        BY <2>1, <4>1 DEF Delta
    <3>2. Apply(b, Append(t, x)) = ApplyEntry(r, x)
      BY <2>1, ApplyRounds
    <3> QED
      BY <3>1, <3>2
  <2>3. /\ d \in [Holder -> Int] /\ r \in [balances : [Holder -> Nat], ok : BOOLEAN]
        /\ r.ok => \A h \in Holder : r.balances[h] = b[h] + d[h]
    BY <1>1, <1>3, <2>1
  <2>4. x.holder \in Holder /\ x.amount \in Int
    BY DEF Entry
  <2>5. PICK g : g = r.balances /\ g \in [Holder -> Nat]
    BY <2>3
  <2>6. CASE r.ok /\ g[x.holder] + x.amount >= 0
    <3>1. PICK g2 : g2 = [g EXCEPT ![x.holder] = @ + x.amount]
      OBVIOUS
    <3>2. g2 \in [Holder -> Nat]
      BY <2>4, <2>5, <2>6, <3>1
    <3>3. ApplyEntry(r, x) = [balances |-> g2, ok |-> TRUE]
      BY <2>3, <2>5, <2>6, <3>1 DEF ApplyEntry
    <3>4. /\ AddEntry(d, x) \in [Holder -> Int]
          /\ \A h \in Holder : g2[h] = b[h] + AddEntry(d, x)[h]
      <4>1. PICK d2, p : d2 = AddEntry(d, x) /\ p = Part(x)
        OBVIOUS
      <4>2. /\ p \in [Holder -> Int] /\ d2 \in [Holder -> Int]
            /\ \A h \in Holder : d2[h] = d[h] + p[h]
        BY <2>3, <4>1, AddEntryAdds
      <4>3. g2 = AddEntry(g, x) /\ g \in [Holder -> Int]
        BY <2>5, <3>1 DEF AddEntry
      <4>4. \A h \in Holder : g2[h] = g[h] + p[h]
        BY <4>1, <4>3, AddEntryAdds
      <4>5. \A h \in Holder : g[h] = b[h] + d[h]
        BY <2>3, <2>5, <2>6
      <4>6. \A h \in Holder : g2[h] = b[h] + d2[h]
        <5>1. d \in [Holder -> Int]
          BY <2>3
        <5>2. b \in [Holder -> Int] /\ g \in [Holder -> Int]
          BY <4>3
        <5> SUFFICES ASSUME NEW h \in Holder PROVE g2[h] = b[h] + d2[h]
          OBVIOUS
        <5>3. b[h] \in Int /\ d[h] \in Int /\ p[h] \in Int
          BY <4>2, <5>1, <5>2
        <5>4. g2[h] = (b[h] + d[h]) + p[h] /\ d2[h] = d[h] + p[h]
          BY <4>2, <4>4, <4>5
        <5> QED
          BY <5>3, <5>4
      <4> QED
        BY <4>1, <4>2, <4>6
    <3>5. /\ ApplyEntry(r, x) \in [balances : [Holder -> Nat], ok : BOOLEAN]
          /\ ApplyEntry(r, x).balances = g2
      BY <3>2, <3>3
    <3> QED
      BY <1>1, <2>2, <3>4, <3>5
  <2>7. CASE ~(r.ok /\ g[x.holder] + x.amount >= 0)
    <3>1. ApplyEntry(r, x) = [balances |-> g, ok |-> FALSE]
      BY <2>3, <2>5, <2>7 DEF ApplyEntry
    <3>2. AddEntry(d, x) \in [Holder -> Int]
      BY <2>3, AddEntryAdds
    <3>3. /\ ApplyEntry(r, x) \in [balances : [Holder -> Nat], ok : BOOLEAN]
          /\ ~ApplyEntry(r, x).ok
      BY <2>5, <3>1
    <3> QED
      BY <1>1, <2>2, <3>2, <3>3
  <2> QED
    BY <2>6, <2>7
<1>4. Seq(Entry) \subseteq Q
  BY <1>2, <1>3, Adding!SequenceInduction
<1> QED
  BY <1>1, <1>4

\* One fact more.
LEMMA FactAdds ==
    ASSUME NEW b \in [Holder -> Int], NEW f, WholeFact(f)
    PROVE  /\ AddFact(b, f) \in [Holder -> Int] /\ Delta(f.entries) \in [Holder -> Int]
           /\ \A h \in Holder : AddFact(b, f)[h] = b[h] + Delta(f.entries)[h]
<1>1. PICK e \in Seq(Entry) : e = f.entries
  BY DEF WholeFact
<1>2. AddFact(b, f) = Added(b, e)
  BY <1>1 DEF AddFact, Added
<1> QED
  BY <1>1, <1>2, AddingIsDelta

Replayed == [balances : [Holder -> Nat], ok : BOOLEAN, minted : SUBSET Process]

\* One round of the replay, and the mints that it notes.
LEMMA ReplayFactIs ==
    ASSUME NEW r \in Replayed, NEW f, WholeFact(f)
    PROVE  /\ ReplayFact(r, f) \in Replayed
           /\ ReplayFact(r, f).ok => r.ok
           /\ r.ok => /\ ReplayFact(r, f).ok <=> Apply(r.balances, f.entries).ok
                      /\ ReplayFact(r, f).balances = Apply(r.balances, f.entries).balances
           /\ r.minted \subseteq ReplayFact(r, f).minted
           /\ \A p \in ReplayFact(r, f).minted :
                p \in r.minted \/ (f.op \in {"mint", "remint"} /\ p = f.pid)
<1>1. PICK e \in Seq(Entry) : e = f.entries
  BY DEF WholeFact
<1>2. PICK b \in [Holder -> Nat], m \in SUBSET Process : b = r.balances /\ m = r.minted
  BY DEF Replayed
<1>3. PICK a : a = Apply(b, e) /\ a \in [balances : [Holder -> Nat], ok : BOOLEAN]
  BY <1>1, <1>2, ApplyAdds
<1>4. PICK n : n = m \cup IF f.op \in {"mint", "remint"} THEN {f.pid} ELSE {}
  OBVIOUS
<1>5. n \in SUBSET Process
  BY <1>2, <1>4 DEF WholeFact, IsFact
<1>6. CASE r.ok
  <2>1. ReplayFact(r, f) = [balances |-> a.balances, ok |-> a.ok, minted |-> n]
    BY <1>1, <1>2, <1>3, <1>4, <1>6 DEF ReplayFact
  <2> QED
    BY <1>1, <1>2, <1>3, <1>4, <1>5, <1>6, <2>1 DEF Replayed
<1>7. CASE ~r.ok
  <2>1. ReplayFact(r, f) = r
    BY <1>7 DEF ReplayFact
  <2> QED
    BY <1>7, <2>1
<1> QED
  BY <1>6, <1>7

\* The facts of a sequence, added up and replayed.
LEMMA ReplayIsNet ==
    ASSUME NEW S, \A f \in S : WholeFact(f), NEW s \in Seq(S)
    PROVE  /\ Net(s) \in [Holder -> Int] /\ Replay(s) \in Replayed
           /\ Replay(s).ok => \A h \in Holder : Replay(s).balances[h] = Net(s)[h]
           /\ \A p \in Replay(s).minted : Mints(s, p) # {}
<1> DEFINE Same(t) == \A h \in Holder : Replay(t).balances[h] = Net(t)[h]
           Noted(t) == \A p \in Replay(t).minted : Mints(t, p) # {}
<1>1. PICK Q : Q = {t \in Seq(S) : /\ Net(t) \in [Holder -> Int] /\ Replay(t) \in Replayed
                                   /\ Replay(t).ok => Same(t)
                                   /\ Noted(t)}
  OBVIOUS
<1>2. <<>> \in Q
  <2>1. Net(<<>>) = Nothing /\ Replay(<<>>) = Fresh
    BY NetRounds, ReplayRounds
  <2>2. Nothing \in [Holder -> Int] /\ Nothing \in [Holder -> Nat]
    BY DEF Nothing
  <2>3. Fresh \in Replayed /\ Fresh.balances = Nothing /\ Fresh.minted = {}
    BY <2>2 DEF Fresh, Replayed
  <2>4. Same(<<>>) /\ Noted(<<>>)
    BY <2>1, <2>3
  <2> QED
    BY <1>1, <2>1, <2>2, <2>3, <2>4
<1>3. ASSUME NEW t \in Seq(S), NEW f \in S, t \in Q
      PROVE  Append(t, f) \in Q
  <2>1. WholeFact(f) /\ Append(t, f) \in Seq(S)
    OBVIOUS
  <2>2. PICK n, r : n = Net(t) /\ r = Replay(t)
    OBVIOUS
  <2>3. PICK n2, r2 : n2 = AddFact(n, f) /\ r2 = ReplayFact(r, f)
    OBVIOUS
  <2>4. Net(Append(t, f)) = n2
    BY <2>2, <2>3, NetRounds
  <2>5. Replay(Append(t, f)) = r2
    BY <2>2, <2>3, ReplayRounds
  <2>6. n \in [Holder -> Int] /\ r \in Replayed /\ (r.ok => Same(t)) /\ Noted(t)
    BY <1>1, <1>3, <2>2
  <2>7. n2 \in [Holder -> Int] /\ r2 \in Replayed
    BY <2>1, <2>3, <2>6, FactAdds, ReplayFactIs
  <2>8. ASSUME r2.ok PROVE \A h \in Holder : r2.balances[h] = n2[h]
    <3>1. r.ok
      BY <2>1, <2>3, <2>6, <2>8, ReplayFactIs
    <3>2. PICK b, e : b = r.balances /\ e = f.entries /\ b \in [Holder -> Nat] /\ e \in Seq(Entry)
      BY <2>1, <2>6 DEF Replayed, WholeFact
    <3>3. Apply(b, e).ok /\ r2.balances = Apply(b, e).balances
      BY <2>1, <2>3, <2>6, <2>8, <3>1, <3>2, ReplayFactIs
    <3>4. \A h \in Holder : r2.balances[h] = b[h] + Delta(e)[h]
      BY <3>2, <3>3, ApplyAdds
    <3>5. \A h \in Holder : n2[h] = n[h] + Delta(e)[h]
      BY <2>1, <2>3, <2>6, <3>2, FactAdds
    <3>6. \A h \in Holder : b[h] = n[h]
      BY <2>2, <2>6, <3>1, <3>2
    <3> QED
      BY <3>4, <3>5, <3>6
  <2>9. ASSUME NEW p \in r2.minted PROVE Mints(Append(t, f), p) # {}
    <3>1. /\ Len(t) \in Nat /\ DOMAIN t = 1..Len(t)
          /\ DOMAIN Append(t, f) = 1..(Len(t) + 1)
          /\ \A i \in DOMAIN t : Append(t, f)[i] = t[i]
          /\ Append(t, f)[Len(t) + 1] = f
      OBVIOUS
    <3>2. p \in r.minted \/ (f.op \in {"mint", "remint"} /\ p = f.pid)
      BY <2>1, <2>3, <2>6, <2>9, ReplayFactIs
    <3>3. CASE p \in r.minted
      <4>1. PICK i \in DOMAIN t : t[i].op \in {"mint", "remint"} /\ t[i].pid = p
        BY <2>2, <2>6, <3>3 DEF Mints
      <4> QED
        BY <3>1, <4>1 DEF Mints
    <3>4. CASE f.op \in {"mint", "remint"} /\ p = f.pid
      BY <3>1, <3>4 DEF Mints
    <3> QED
      BY <3>2, <3>3, <3>4
  <2> QED
    BY <1>1, <2>1, <2>4, <2>5, <2>7, <2>8, <2>9
<1>4. Seq(S) \subseteq Q
  BY <1>2, <1>3, Adding!SequenceInduction
<1> QED
  BY <1>1, <1>4
-----------------------------------------------------------------------------
\* The entries each operation makes are signed amounts of holders.
LEMMA SharesAreEntries ==
    ASSUME NEW b \in [Holder -> Nat], SumFunction(b) > 0, NEW order \in Orders(b),
           NEW previous \in Nat \ {0}, NEW new \in Nat
    PROVE  Allocations(b, order, previous, new) \in Seq(Entry)
<1>1. PICK supply : supply = SumFunction(b) /\ supply \in Nat /\ supply > 0
  <2>1. SumFunction(b) = SumFunctionOnSet(b, Holder)
    BY DEF SumFunction
  <2>2. SumFunctionOnSet(b, Holder) \in Nat
    BY LedgerAssumption, SumOfNaturals
  <2> QED
    BY <2>1, <2>2
<1>2. PICK P : P = {h \in Holder : b[h] > 0}
  OBVIOUS
<1>3. IsFiniteSet(P) /\ Cardinality(P) \in Nat /\ Cardinality(P) > 0
  <2>1. IsFiniteSet(P)
    BY <1>2, LedgerAssumption, FS_Subset
  <2>2. ASSUME P = {} PROVE FALSE
    <3>1. \A h \in Holder : b[h] = 0
      BY <1>2, <2>2
    <3>2. IsFiniteSet(Holder) /\ \A h \in Holder : b[h] \in Nat /\ b[h] = 0
      BY <3>1, LedgerAssumption
    <3>3. SumFunctionOnSet(b, Holder) = 0
      BY <3>2, SumOfNaturals
    <3> QED
      BY <1>1, <3>3 DEF SumFunction
  <2> QED
    BY <2>1, <2>2, FS_EmptySet, FS_CardinalityType
<1>4. PICK last \in Nat : /\ last > 0 /\ DOMAIN order = 1..last /\ Len(order) = last
                          /\ \A k \in 1..last : order[k] \in P
  <2>1. Orders(b) = SetToSeqs(P)
    BY <1>2 DEF Orders
  <2>2. order \in [1..Cardinality(P) -> P]
    BY <2>1 DEF SetToSeqs
  <2>3. order \in Seq(P) /\ Len(order) = Cardinality(P)
    BY <1>3, <2>2
  <2> QED
    BY <1>3, <2>2, <2>3
<1>5. \A k \in 1..last : order[k] \in Holder /\ b[order[k]] \in Nat /\ b[order[k]] > 0
  BY <1>2, <1>4
<1>6. PICK total : total = SumFunctionOnSet(b, ToSet(order)) /\ total \in Nat /\ total > 0
  <2>1. ToSet(order) \subseteq Holder /\ order[1] \in ToSet(order)
    BY <1>4, <1>5 DEF ToSet
  <2>2. IsFiniteSet(ToSet(order)) /\ \A h \in ToSet(order) : b[h] \in Nat
    BY <2>1, LedgerAssumption, FS_Subset
  <2>3. /\ SumFunctionOnSet(b, ToSet(order)) \in Nat
        /\ b[order[1]] <= SumFunctionOnSet(b, ToSet(order))
    BY <2>1, <2>2, SumOfNaturals
  <2>4. b[order[1]] > 0 /\ b[order[1]] \in Nat
    BY <1>4, <1>5
  <2> QED
    BY <2>3, <2>4
<1>7. PICK delta : delta = RevaluedSupply(supply, previous, new) - supply /\ delta \in Int
  <2>1. supply * new \in Int
    BY <1>1
  <2>2. RevaluedSupply(supply, previous, new) \in Int
    BY <1>1, <2>1 DEF RevaluedSupply
  <2> QED
    BY <1>1, <2>2
<1>8. PICK size : size = (IF delta < 0 THEN -delta ELSE delta) /\ size \in Int
  BY <1>7
<1>9. PICK rest : rest = [k \in 1..(last - 1) |-> (size * b[order[k]]) \div total]
  OBVIOUS
<1>10. DOMAIN rest = 1..(last - 1) /\ \A k \in 1..(last - 1) : rest[k] \in Int
  <2> SUFFICES ASSUME NEW k \in 1..(last - 1) PROVE (size * b[order[k]]) \div total \in Int
    BY <1>9
  <2>1. b[order[k]] \in Int
    BY <1>4, <1>5
  <2>2. size * b[order[k]] \in Int
    BY <1>8, <2>1
  <2> QED
    BY <1>6, <2>2
<1>11. PICK sum : sum = SumFunction(rest) /\ sum \in Int
  <2>1. PICK I : I = 1..(last - 1) /\ IsFiniteSet(I)
    BY <1>4, FS_Interval
  <2>2. DOMAIN rest = I /\ \A k \in I : rest[k] \in Int
    BY <1>10, <2>1
  <2>3. SumFunctionOnSet(rest, I) \in Int
    BY <2>1, <2>2, SumOfIntegers
  <2> QED
    BY <2>2, <2>3 DEF SumFunction
<1>12. PICK share : share = ProRata(b, order, size)
  OBVIOUS
<1>13. share = [k \in 1..last |-> IF k < last THEN rest[k] ELSE size - sum]
  BY <1>4, <1>6, <1>9, <1>11, <1>12 DEF ProRata
<1>14. \A k \in 1..last : share[k] \in Int
  BY <1>4, <1>8, <1>10, <1>11, <1>13
<1>15. Allocations(b, order, previous, new) =
         [k \in 1..last |-> [holder |-> order[k],
                             amount |-> IF delta < 0 THEN -share[k] ELSE share[k]]]
  BY <1>1, <1>4, <1>7, <1>8, <1>12 DEF Allocations
<1>16. \A k \in 1..last : [holder |-> order[k],
                           amount |-> IF delta < 0 THEN -share[k] ELSE share[k]] \in Entry
  BY <1>5, <1>7, <1>14 DEF Entry
<1> QED
  BY <1>4, <1>15, <1>16

Once == {"transfer", "reval"}

LEMMA RequestIs ==
    ASSUME NEW r \in Request
    PROVE  /\ r.op \in Operation /\ r.pid \in Process
           /\ r.op \in {"mint", "remint", "burn", "transfer", "reval"}
           /\ r.op \in {"mint", "remint", "burn", "transfer"} =>
                r.holder \in Holder /\ r.amount \in Nat \ {0}
           /\ r.op = "transfer" => r.to \in Holder
           /\ r.op = "reval" => r.previous \in Nat \ {0} /\ r.new \in Nat
<1>1. CASE r \in [op : Operation \cap {"mint", "remint", "burn"}, pid : Process,
                  holder : Holder, amount : Amount]
  BY <1>1, LedgerAssumption
<1>2. CASE r \in [op : Operation \cap {"transfer"}, pid : Process,
                  holder : Holder, to : Holder, amount : Amount]
  BY <1>2, LedgerAssumption
<1>3. CASE r \in [op : Operation \cap {"reval"}, pid : Process,
                  previous : Value \ {0}, new : Value]
  BY <1>3, LedgerAssumption
<1> QED
  BY <1>1, <1>2, <1>3 DEF Request

\* A credit alone never throws.
LEMMA CreditApplies ==
    ASSUME NEW b \in [Holder -> Nat], NEW x \in Entry, x.amount >= 0
    PROVE  Apply(b, <<x>>).ok
<1>1. Apply(b, Append(<<>>, x)) = ApplyEntry(Apply(b, <<>>), x)
  <2>1. <<>> \in Seq(Entry)
    OBVIOUS
  <2> QED
    BY <2>1, ApplyRounds
<1>2. Apply(b, <<>>) = [balances |-> b, ok |-> TRUE]
  BY ApplyRounds
<1>3. Append(<<>>, x) = <<x>>
  OBVIOUS
<1>4. PICK r : r = [balances |-> b, ok |-> TRUE]
  OBVIOUS
<1>5. r.balances[x.holder] + x.amount >= 0
  BY <1>4 DEF Entry
<1>6. ApplyEntry(r, x) = [r EXCEPT !.balances[x.holder] = @ + x.amount]
  BY <1>4, <1>5 DEF ApplyEntry
<1>7. ApplyEntry(r, x).ok
  BY <1>4, <1>6
<1> QED
  BY <1>1, <1>2, <1>3, <1>4, <1>7
-----------------------------------------------------------------------------
(***************************************************************************)
(* The inductive invariant behind LedgerFollowsJournal and                 *)
(* RefusedMintIsJournalled.                                                *)
(***************************************************************************)
CallTyped(c) ==
    /\ pc[c] # "idle" => req[c] \in Request
    /\ pc[c] \in {"lookup", "tip", "written"} =>
         /\ WholeFact(fact[c]) /\ fact[c].op = req[c].op /\ fact[c].pid = req[c].pid
         /\ fact[c].op = "burn" => fact[c].claim = <<c, calls[c]>>

TypeInv ==
    /\ TypeOK
    /\ DOMAIN req = Caller /\ DOMAIN fact = Caller /\ DOMAIN outcome = Caller
    /\ \A i \in DOMAIN journal : WholeFact(journal[i])
    /\ \A c \in Caller : CallTyped(c)

\* What the appends that are under way will add to the journal's amounts.
Pending(h) ==
    [c \in Caller |-> IF Unjournalled(c) THEN Delta(fact[c].entries)[h] ELSE 0]

Projected ==
    \A h \in Holder : balances[h] = Net(journal)[h] + SumFunctionOnSet(Pending(h), Caller)

\* While the service is not hydrated no call is past the hydration, and all that wait for it
\* have read the whole journal; a second hydration that is up to date succeeds as the first.
ProjectionInv ==
    /\ ~hydrated => \A c \in Caller :
         /\ pc[c] \in {"idle", "gate", "hydrate"}
         /\ pc[c] = "hydrate" => read[c] = Len(journal)
    /\ hydrated => \A c \in Caller :
         pc[c] = "hydrate" /\ read[c] = Len(journal) => Replay(journal).ok
    /\ hydrated /\ ~disturbed => Projected

OneAtATime == \A c, d \in Caller : pc[c] # "idle" /\ pc[d] # "idle" => c = d

\* Of operations one at a time, what a call has read is still the whole journal, and its key
\* is new.
SerialCall(c) ==
    /\ pc[c] \in {"hydrate", "check", "tip"} => read[c] = Len(journal)
    /\ pc[c] = "lookup" => ~found[c]
    /\ pc[c] # "idle" /\ req[c].op \in Once => req[c].pid \in used
    /\ pc[c] \in {"gate", "hydrate", "ready"} /\ req[c].op \in Once =>
         \A i \in DOMAIN journal : ~(journal[i].op \in Once /\ journal[i].pid = req[c].pid)

SerialFact(f) ==
    /\ f.op \in Once => f.pid \in used
    /\ \A d \in Caller, n \in Nat :
         f.op = "burn" /\ f.claim = <<d, n>> =>
           n <= calls[d] /\ (n = calls[d] => pc[d] \in {"idle", "written"})

\* The balances are those of the replay, or will be when the fact under way is written.
CleanInv ==
    /\ Replay(journal).ok
    /\ hydrated /\ (\A c \in Caller : ~Unjournalled(c)) => balances = Replay(journal).balances
    /\ \A c \in Caller : Unjournalled(c) =>
         Apply(Replay(journal).balances, fact[c].entries) = [balances |-> balances, ok |-> TRUE]

MintedInv ==
    \A p \in minted :
      \/ Mints(journal, p) # {}
      \/ \E c \in Caller : Unjournalled(c) /\ fact[c].op = "mint" /\ fact[c].pid = p

SerialInv ==
    serial =>
    /\ OneAtATime
    /\ \A c \in Caller : SerialCall(c)
    /\ \A i \in DOMAIN journal : SerialFact(journal[i])
    /\ failures = 0 /\ ~shortfall => CleanInv
    /\ failures = 0 => MintedInv

LedgerInv == TypeInv /\ ProjectionInv /\ SerialInv
-----------------------------------------------------------------------------
\* A step of c leaves what others hold alone.
Moves(c) ==
    /\ pc' \in [Caller -> Await] /\ found' \in [Caller -> BOOLEAN]
    /\ calls' \in [Caller -> 0..MaxCalls] /\ read' \in [Caller -> Nat]
    /\ DOMAIN req' = Caller /\ DOMAIN fact' = Caller /\ DOMAIN outcome' = Caller
    /\ req'[c] \in Request \/ req'[c] = NoRequest
    /\ fact'[c] = NoFact \/ IsFact(fact'[c])
    /\ crashes' \in 0..MaxCrashes /\ failures' \in 0..MaxFailures
    /\ \A d \in Caller \ {c} :
         /\ pc'[d] = pc[d] /\ req'[d] = req[d] /\ read'[d] = read[d]
         /\ found'[d] = found[d] /\ fact'[d] = fact[d] /\ calls'[d] = calls[d]

Ended(c) ==
    /\ pc'[c] = "idle" /\ req'[c] = NoRequest /\ read'[c] = 0 /\ fact'[c] = NoFact

\* journal' is journal, or has one whole fact more.
Grows == \/ journal' = journal
         \/ \E f : WholeFact(f) /\ journal' = Append(journal, f) /\ Len(journal) < MaxFacts

LEMMA GrowsIs ==
    ASSUME AppendInv, TypeInv, Grows
    PROVE  /\ Len(journal) \in Nat /\ DOMAIN journal = 1..Len(journal)
           /\ Len(journal') \in Nat /\ DOMAIN journal' = 1..Len(journal')
           /\ Len(journal) <= Len(journal') /\ Len(journal') <= MaxFacts
           /\ \A i \in DOMAIN journal : i \in DOMAIN journal' /\ journal'[i] = journal[i]
           /\ \A i \in DOMAIN journal' : WholeFact(journal'[i])
<1>1. PICK S : S = ToSet(journal) /\ journal \in Seq(S)
  BY DEF AppendInv
<1>2. /\ Len(journal) \in Nat /\ DOMAIN journal = 1..Len(journal) /\ Len(journal) <= MaxFacts
      /\ MaxFacts \in Nat
      /\ \A i \in DOMAIN journal : WholeFact(journal[i])
  BY <1>1, LedgerAssumption DEF TypeInv, TypeOK
<1>3. CASE journal' = journal
  BY <1>2, <1>3
<1>4. CASE \E f : WholeFact(f) /\ journal' = Append(journal, f) /\ Len(journal) < MaxFacts
  <2>1. PICK f : WholeFact(f) /\ journal' = Append(journal, f) /\ Len(journal) < MaxFacts
    BY <1>4
  <2>2. /\ Len(journal') = Len(journal) + 1 /\ DOMAIN journal' = 1..(Len(journal) + 1)
        /\ \A i \in 1..Len(journal) : journal'[i] = journal[i]
        /\ journal'[Len(journal) + 1] = f
    BY <1>1, <2>1
  <2>3. \A i \in 1..(Len(journal) + 1) : i \in 1..Len(journal) \/ i = Len(journal) + 1
    BY <1>2
  <2> QED
    BY <1>2, <2>1, <2>2, <2>3
<1> QED
  BY <1>3, <1>4 DEF Grows

LEMMA MovesTyped ==
    ASSUME AppendInv, TypeInv, NEW c \in Caller, Moves(c), Grows, serial' = serial,
           balances' \in [Holder -> Nat], minted' \subseteq Process,
           reminted' \subseteq Process, hydrated' \in BOOLEAN,
           CallTyped(c)', read'[c] <= Len(journal')
    PROVE  TypeInv'
<1>1. /\ Len(journal') \in Nat /\ Len(journal) \in Nat /\ Len(journal) <= Len(journal')
      /\ Len(journal') <= MaxFacts
      /\ \A i \in DOMAIN journal' : WholeFact(journal'[i])
  BY GrowsIs
<1>2. read' \in [Caller -> 0..Len(journal')]
  <2>1. read' \in [Caller -> Nat] /\ \A d \in Caller \ {c} : read'[d] = read[d]
    BY DEF Moves
  <2>2. \A d \in Caller : read[d] \in 0..Len(journal)
    BY DEF TypeInv, TypeOK
  <2>3. ASSUME NEW d \in Caller PROVE read'[d] \in 0..Len(journal')
    <3>1. read'[d] <= Len(journal') /\ read'[d] \in Nat
      BY <1>1, <2>1, <2>2
    <3> QED
      BY <1>1, <3>1
  <2> QED
    BY <2>1, <2>3
<1>3. \A d \in Caller : CallTyped(d)'
  BY DEF TypeInv, Moves, CallTyped
<1>4. /\ \A d \in Caller : req'[d] \in Request \/ req'[d] = NoRequest
      /\ \A d \in Caller : fact'[d] = NoFact \/ IsFact(fact'[d])
  BY DEF Moves, TypeInv, TypeOK
<1>5. \A i \in DOMAIN journal' : IsFact(journal'[i])
  BY <1>1 DEF WholeFact
<1>6. serial' \in BOOLEAN
  BY DEF TypeInv, TypeOK
<1> QED
  BY <1>1, <1>2, <1>3, <1>4, <1>5, <1>6 DEF TypeInv, TypeOK, Moves

LEMMA FinishMoves ==
    ASSUME TypeInv, NEW c \in Caller, NEW result, Finish(c, result),
           UNCHANGED calls, crashes' \in 0..MaxCrashes, failures' \in 0..MaxFailures
    PROVE  Moves(c) /\ Ended(c) /\ CallTyped(c)' /\ calls'[c] = calls[c]
<1>1. /\ pc' = [pc EXCEPT ![c] = "idle"] /\ req' = [req EXCEPT ![c] = NoRequest]
      /\ read' = [read EXCEPT ![c] = 0] /\ found' = [found EXCEPT ![c] = FALSE]
      /\ fact' = [fact EXCEPT ![c] = NoFact]
      /\ outcome' = [outcome EXCEPT ![c] = result]
  BY DEF Finish, Suspend
<1>2. /\ pc \in [Caller -> Await] /\ DOMAIN req = Caller /\ DOMAIN fact = Caller
      /\ DOMAIN outcome = Caller
      /\ read \in [Caller -> 0..Len(journal)] /\ found \in [Caller -> BOOLEAN]
      /\ calls \in [Caller -> 0..MaxCalls]
  BY DEF TypeInv, TypeOK
<1>3. read' \in [Caller -> Nat]
  BY <1>1, <1>2
<1>4. "idle" \in Await
  BY DEF Await
<1>5. Ended(c)
  BY <1>1, <1>2 DEF Ended
<1>6. Moves(c)
  BY <1>1, <1>2, <1>3, <1>4 DEF Moves
<1> QED
  BY <1>5, <1>6 DEF Ended, CallTyped

LEMMA SuspendMoves ==
    ASSUME TypeInv, NEW c \in Caller, NEW where \in Await, Suspend(c, where),
           UNCHANGED <<found, fact, outcome>>, read' \in [Caller -> Nat],
           \A d \in Caller \ {c} : read'[d] = read[d] /\ req'[d] = req[d] /\ calls'[d] = calls[d],
           DOMAIN req' = Caller, req'[c] \in Request, calls' \in [Caller -> 0..MaxCalls],
           crashes' \in 0..MaxCrashes, failures' \in 0..MaxFailures
    PROVE  Moves(c) /\ pc'[c] = where
<1>1. pc' = [pc EXCEPT ![c] = where] /\ pc \in [Caller -> Await]
      /\ DOMAIN fact = Caller /\ DOMAIN outcome = Caller
  BY DEF Suspend, TypeInv, TypeOK
<1>2. found \in [Caller -> BOOLEAN] /\ (fact[c] = NoFact \/ IsFact(fact[c]))
  BY DEF TypeInv, TypeOK
<1> QED
  BY <1>1, <1>2 DEF Moves
-----------------------------------------------------------------------------
(***************************************************************************)
(* Quiet steps: they read, check, answer or refuse.                        *)
(***************************************************************************)
\* A step of c that leaves memory and journal alone and neither begins nor ends an append.
Quiet(c) ==
    /\ Moves(c) /\ CallTyped(c)' /\ read'[c] <= Len(journal)
    /\ UNCHANGED <<serial, memory, journal, failures>>
    /\ (disturbed' <=> disturbed) /\ (shortfall' <=> shortfall)
    /\ Unjournalled(c)' <=> Unjournalled(c)
    /\ Unjournalled(c) => fact'[c] = fact[c]
    /\ used \subseteq used'
    /\ hydrated => pc'[c] # "hydrate"
    /\ ~hydrated => /\ pc'[c] \in {"idle", "gate", "hydrate"}
                    /\ pc'[c] = "hydrate" => read'[c] = Len(journal)
    /\ serial /\ pc[c] = "idle" => \A d \in Caller : pc[d] = "idle"
    /\ serial => SerialCall(c)'
    /\ \/ calls'[c] = calls[c] /\ (pc[c] \in {"idle", "written"} => pc'[c] \in {"idle", "written"})
       \/ calls'[c] = calls[c] + 1

\* Of operations one at a time, the others are idle while one runs.
LEMMA Alone ==
    ASSUME SerialInv, serial, NEW c \in Caller, pc[c] # "idle"
    PROVE  \A d \in Caller \ {c} : pc[d] = "idle"
  BY DEF SerialInv, OneAtATime

LEMMA PendingSame ==
    ASSUME TypeInv, NEW c \in Caller, Moves(c),
           Unjournalled(c)' <=> Unjournalled(c), Unjournalled(c) => fact'[c] = fact[c]
    PROVE  /\ \A d \in Caller : /\ Unjournalled(d)' <=> Unjournalled(d)
                                /\ Unjournalled(d) => fact'[d] = fact[d]
           /\ \A h : Pending(h)' = Pending(h)
<1>1. \A d \in Caller : /\ Unjournalled(d)' <=> Unjournalled(d)
                        /\ Unjournalled(d) => fact'[d] = fact[d]
  BY DEF Moves, Unjournalled
<1> QED
  BY <1>1 DEF Pending

LEMMA QuietProjection ==
    ASSUME TypeInv, ProjectionInv, NEW c \in Caller, Quiet(c)
    PROVE  ProjectionInv'
<1>1. /\ UNCHANGED <<balances, hydrated, journal>> /\ Moves(c) /\ (disturbed' <=> disturbed)
      /\ \A d \in Caller \ {c} : pc'[d] = pc[d] /\ read'[d] = read[d]
  BY DEF Quiet, memory, Moves
<1>2. \A h : Pending(h)' = Pending(h)
  BY PendingSame DEF Quiet
<1>3. Projected' <=> Projected
  BY <1>1, <1>2 DEF Projected
<1> QED
  BY <1>1, <1>3 DEF ProjectionInv, Quiet

LEMMA QuietSerial ==
    ASSUME TypeInv, SerialInv, NEW c \in Caller, Quiet(c)
    PROVE  SerialInv'
<1> SUFFICES ASSUME serial PROVE SerialInv'
  BY DEF SerialInv, Quiet
<1>1. /\ UNCHANGED <<serial, balances, minted, hydrated, journal, failures>>
      /\ (shortfall' <=> shortfall)
      /\ Moves(c) /\ used \subseteq used' /\ SerialCall(c)'
  BY DEF Quiet, memory
<1>2. \A d \in Caller : /\ Unjournalled(d)' <=> Unjournalled(d)
                        /\ Unjournalled(d) => fact'[d] = fact[d]
  BY PendingSame DEF Quiet
<1>3. OneAtATime'
  BY DEF SerialInv, OneAtATime, Quiet, Moves
<1>4. ASSUME NEW d \in Caller PROVE SerialCall(d)'
  <2>1. CASE d = c
    BY <1>1, <2>1
  <2>2. CASE d # c
    <3>1. /\ pc'[d] = pc[d] /\ req'[d] = req[d] /\ read'[d] = read[d] /\ found'[d] = found[d]
          /\ journal' = journal /\ used \subseteq used' /\ SerialCall(d)
      BY <1>1, <2>2 DEF Moves, SerialInv
    <3> QED
      BY <3>1 DEF SerialCall
  <2> QED
    BY <2>1, <2>2
<1>5. ASSUME NEW i \in DOMAIN journal' PROVE SerialFact(journal[i])'
  <2>1. SerialFact(journal[i]) /\ journal' = journal
    BY <1>1, <1>5 DEF SerialInv
  <2>2. ASSUME NEW d \in Caller, NEW n \in Nat, journal[i].op = "burn", journal[i].claim = <<d, n>>
        PROVE  n <= calls'[d] /\ (n = calls'[d] => pc'[d] \in {"idle", "written"})
    <3>1. n <= calls[d] /\ (n = calls[d] => pc[d] \in {"idle", "written"})
      BY <2>1, <2>2 DEF SerialFact
    <3>2. calls[d] \in Nat
      BY DEF TypeInv, TypeOK
    <3>3. CASE d # c
      BY <3>1, <3>3 DEF Quiet, Moves
    <3>4. \/ calls'[c] = calls[c] /\ (pc[c] \in {"idle", "written"} => pc'[c] \in {"idle", "written"})
          \/ calls'[c] = calls[c] + 1
      BY DEF Quiet
    <3>5. CASE d = c
      BY <3>1, <3>2, <3>4, <3>5
    <3> QED
      BY <3>3, <3>5
  <2> QED
    BY <1>1, <2>1, <2>2 DEF SerialFact
<1>6. failures = 0 /\ ~shortfall => CleanInv'
  BY <1>1, <1>2 DEF SerialInv, CleanInv
<1>7. failures = 0 => MintedInv'
  BY <1>1, <1>2 DEF SerialInv, MintedInv
<1> QED
  BY <1>1, <1>3, <1>4, <1>5, <1>6, <1>7 DEF SerialInv

LEMMA QuietKeeps ==
    ASSUME AppendInv, LedgerInv, NEW c \in Caller, Quiet(c)
    PROVE  LedgerInv'
<1>1. TypeInv'
  <2>1. /\ Moves(c) /\ CallTyped(c)' /\ read'[c] <= Len(journal') /\ journal' = journal
        /\ UNCHANGED <<serial, balances, minted, reminted, hydrated>>
    BY DEF Quiet, memory
  <2>2. Grows
    BY <2>1 DEF Grows
  <2>3. /\ balances' \in [Holder -> Nat] /\ minted' \subseteq Process
        /\ reminted' \subseteq Process /\ hydrated' \in BOOLEAN
    BY <2>1 DEF LedgerInv, TypeInv, TypeOK
  <2> QED
    BY <2>1, <2>2, <2>3, MovesTyped DEF LedgerInv
<1> QED
  BY <1>1, QuietProjection, QuietSerial DEF LedgerInv

\* A call that ends without having begun an append.
LEMMA FinishQuiet ==
    ASSUME AppendInv, LedgerInv, NEW c \in Caller, NEW result, Finish(c, result),
           UNCHANGED <<serial, memory, journal, calls, faults, used>>,
           disturbed' <=> disturbed, shortfall' <=> shortfall,
           ~Unjournalled(c), pc[c] # "idle"
    PROVE  LedgerInv'
<1>1. crashes' \in 0..MaxCrashes /\ failures' \in 0..MaxFailures
  BY DEF LedgerInv, TypeInv, TypeOK, faults
<1>2. Moves(c) /\ Ended(c) /\ CallTyped(c)' /\ calls'[c] = calls[c]
  BY <1>1, FinishMoves DEF LedgerInv
<1>3. 0 <= Len(journal)
  BY GrowsIs DEF LedgerInv, Grows
<1>4. Quiet(c)
  BY <1>2, <1>3 DEF Quiet, Ended, Unjournalled, SerialCall, faults
<1> QED
  BY <1>4, QuietKeeps

\* A call that goes on to an await before its effect, and reads the journal there if it reads.
LEMMA SuspendQuiet ==
    ASSUME AppendInv, LedgerInv, NEW c \in Caller,
           NEW where \in {"gate", "hydrate", "ready", "check"}, Suspend(c, where),
           UNCHANGED <<serial, memory, journal, faults, found, fact, outcome, disturbed, shortfall>>,
           used \subseteq used', ~Unjournalled(c),
           read' = read \/ read' = [read EXCEPT ![c] = Len(journal)],
           where \in {"hydrate", "check"} => read' = [read EXCEPT ![c] = Len(journal)],
           \A d \in Caller \ {c} : req'[d] = req[d] /\ calls'[d] = calls[d],
           DOMAIN req' = Caller, req'[c] \in Request, calls' \in [Caller -> 0..MaxCalls],
           hydrated => where # "hydrate", ~hydrated => where \in {"gate", "hydrate"},
           serial /\ pc[c] = "idle" => \A d \in Caller : pc[d] = "idle",
           serial /\ req'[c].op \in Once => req'[c].pid \in used',
           serial /\ where # "check" /\ req'[c].op \in Once =>
             \A i \in DOMAIN journal : ~(journal[i].op \in Once /\ journal[i].pid = req'[c].pid),
           \/ calls'[c] = calls[c] /\ pc[c] \notin {"idle", "written"}
           \/ calls'[c] = calls[c] + 1
    PROVE  LedgerInv'
<1>1. /\ crashes' \in 0..MaxCrashes /\ failures' \in 0..MaxFailures
      /\ read \in [Caller -> 0..Len(journal)]
  BY DEF LedgerInv, TypeInv, TypeOK, faults
<1>2. Len(journal) \in Nat
  BY GrowsIs DEF LedgerInv, Grows
<1>3. /\ read' \in [Caller -> Nat] /\ read'[c] <= Len(journal)
      /\ \A d \in Caller \ {c} : read'[d] = read[d]
      /\ where \in {"hydrate", "check"} => read'[c] = Len(journal)
  <2>1. CASE read' = read
    <3>1. \A d \in Caller : read[d] \in Nat /\ read[d] <= Len(journal)
      BY <1>1, <1>2
    <3> QED
      BY <1>1, <1>2, <2>1, <3>1
  <2>2. CASE read' = [read EXCEPT ![c] = Len(journal)]
    BY <1>1, <1>2, <2>2
  <2> QED
    BY <2>1, <2>2
<1>4. where \in Await
  BY DEF Await
<1>5. Moves(c) /\ pc'[c] = where
  BY <1>1, <1>3, <1>4, SuspendMoves DEF LedgerInv
<1>6. CallTyped(c)' /\ ~Unjournalled(c)'
  BY <1>5 DEF CallTyped, Unjournalled
<1>7. serial => SerialCall(c)'
  BY <1>3, <1>5 DEF SerialCall
<1>8. Quiet(c)
  BY <1>3, <1>5, <1>6, <1>7 DEF Quiet, faults
<1> QED
  BY <1>8, QuietKeeps
-----------------------------------------------------------------------------
\* What ProjectionInv and SerialInv say of c and of what it has read.
LEMMA ReadByIs ==
    ASSUME AppendInv, TypeInv, NEW c \in Caller
    PROVE  \E S : /\ \A f \in S : WholeFact(f)
                  /\ journal \in Seq(S) /\ ReadBy(c) \in Seq(S)
                  /\ read[c] = Len(journal) => ReadBy(c) = journal
                  /\ \A i \in DOMAIN ReadBy(c) : i \in DOMAIN journal /\ ReadBy(c)[i] = journal[i]
<1>1. PICK S : S = ToSet(journal) /\ journal \in Seq(S)
  BY DEF AppendInv
<1>2. \A f \in S : WholeFact(f)
  BY <1>1 DEF TypeInv, ToSet
<1>3. PICK n \in 0..Len(journal) : n = read[c]
  BY DEF TypeInv, TypeOK
<1>4. Len(journal) \in Nat /\ DOMAIN journal = 1..Len(journal)
  BY <1>1
<1>5. ReadBy(c) = [i \in 1..n |-> journal[i]]
  BY <1>1, <1>3, <1>4 DEF ReadBy
<1>6. \A i \in 1..n : i \in DOMAIN journal /\ journal[i] \in S
  BY <1>1, <1>3, <1>4
<1>7. ReadBy(c) \in Seq(S)
  BY <1>3, <1>4, <1>5, <1>6
<1>8. n = Len(journal) => ReadBy(c) = journal
  BY <1>1, <1>4, <1>5
<1>9. \A i \in DOMAIN ReadBy(c) : i \in DOMAIN journal /\ ReadBy(c)[i] = journal[i]
  BY <1>5, <1>6
<1> QED
  BY <1>1, <1>2, <1>3, <1>7, <1>8, <1>9

LEMMA CallKeepsLedger ==
    ASSUME AppendInv, LedgerInv, UNCHANGED serial, NEW c \in Caller, Call(c)
    PROVE  LedgerInv'
<1>1. PICK r \in Request : CallMint(c, r) \/ CallDirect(c, r)
  BY DEF Call
<1>2. /\ calls \in [Caller -> 0..MaxCalls] /\ MaxCalls \in Nat /\ DOMAIN req = Caller
      /\ calls[c] < MaxCalls /\ calls' = [calls EXCEPT ![c] = calls[c] + 1]
      /\ serial => \A d \in Caller : pc[d] = "idle"
  BY LedgerAssumption DEF Call, LedgerInv, TypeInv, TypeOK
<1>3. /\ calls' \in [Caller -> 0..MaxCalls] /\ calls'[c] = calls[c] + 1
      /\ \A d \in Caller \ {c} : calls'[d] = calls[d]
  <2>1. calls[c] + 1 \in 0..MaxCalls
    BY <1>2
  <2> QED
    BY <1>2, <2>1
<1>4. CASE CallMint(c, r)
  <2>1. /\ Suspend(c, "gate") /\ req' = [req EXCEPT ![c] = r] /\ r.op \notin Once
        /\ UNCHANGED <<memory, journal, faults, found, fact, outcome, disturbed, shortfall, used, read>>
        /\ ~Unjournalled(c)
    BY <1>4 DEF CallMint, ghosts, Once, Unjournalled
  <2>2. /\ DOMAIN req' = Caller /\ req'[c] = r /\ req'[c] \in Request
        /\ \A d \in Caller \ {c} : req'[d] = req[d]
    BY <1>2, <2>1
  <2>3. used \subseteq used' /\ "gate" \in {"gate", "hydrate", "ready", "check"}
    BY <2>1
  <2> QED
    BY <1>2, <1>3, <2>1, <2>2, <2>3, SuspendQuiet
<1>5. CASE CallDirect(c, r)
  <2>1. /\ AwaitHydration(c) /\ req' = [req EXCEPT ![c] = r]
        /\ used' = IF r.op = "burn" THEN used ELSE used \cup {r.pid}
        /\ UNCHANGED <<memory, journal, faults, found, fact, outcome, disturbed, shortfall>>
        /\ r.op # "burn" => r.pid \notin used
        /\ r.op \in {"burn", "transfer", "reval"}
        /\ ~Unjournalled(c)
    BY <1>5 DEF CallDirect, Unjournalled
  <2>2. /\ DOMAIN req' = Caller /\ req'[c] = r /\ req'[c] \in Request
        /\ \A d \in Caller \ {c} : req'[d] = req[d]
    BY <1>2, <2>1
  <2>3. used \subseteq used' /\ (r.op \in Once => r.pid \in used' /\ r.pid \notin used)
    BY <2>1 DEF Once
  <2>4. serial => \A i \in DOMAIN journal : journal[i].op \in Once => journal[i].pid \in used
    BY DEF LedgerInv, SerialInv, SerialFact
  <2>5. PICK where \in {"gate", "hydrate", "ready", "check"} :
          where = IF hydrated THEN "ready" ELSE "hydrate"
    OBVIOUS
  <2>6. /\ Suspend(c, where) /\ read' = [read EXCEPT ![c] = Len(journal)]
        /\ hydrated => where # "hydrate"
        /\ ~hydrated => where \in {"gate", "hydrate"}
    BY <2>1, <2>5 DEF AwaitHydration
  <2> QED
    BY <1>2, <1>3, <2>1, <2>2, <2>3, <2>4, <2>6, SuspendQuiet
<1> QED
  BY <1>1, <1>4, <1>5

LEMMA PassGateKeepsLedger ==
    ASSUME AppendInv, LedgerInv, UNCHANGED serial, NEW c \in Caller, PassGate(c)
    PROVE  LedgerInv'
<1>1. /\ pc[c] = "gate" /\ ~Unjournalled(c)
      /\ UNCHANGED <<memory, journal, calls, faults, disturbed, shortfall, used>>
  BY DEF PassGate, ghosts, Unjournalled
<1>2. CASE Finish(c, "MINT_WITHOUT_POT")
  BY <1>1, <1>2, FinishQuiet
<1>3. CASE AwaitHydration(c) /\ UNCHANGED <<req, found, fact, outcome>>
  <2>1. PICK where \in {"gate", "hydrate", "ready", "check"} :
          where = IF hydrated THEN "ready" ELSE "hydrate"
    OBVIOUS
  <2>2. /\ Suspend(c, where) /\ read' = [read EXCEPT ![c] = Len(journal)]
        /\ hydrated => where # "hydrate"
        /\ ~hydrated => where \in {"gate", "hydrate"}
        /\ UNCHANGED <<req, found, fact, outcome>>
    BY <1>3, <2>1 DEF AwaitHydration
  <2>3. /\ DOMAIN req = Caller /\ calls \in [Caller -> 0..MaxCalls] /\ req[c] \in Request
    BY <1>1 DEF LedgerInv, TypeInv, TypeOK, CallTyped
  <2>4. serial /\ req[c].op \in Once =>
          /\ req[c].pid \in used
          /\ \A i \in DOMAIN journal : ~(journal[i].op \in Once /\ journal[i].pid = req[c].pid)
    BY <1>1 DEF LedgerInv, SerialInv, SerialCall
  <2> QED
    BY <1>1, <2>2, <2>3, <2>4, SuspendQuiet
<1> QED
  BY <1>2, <1>3 DEF PassGate

LEMMA ChecksKeepLedger ==
    ASSUME AppendInv, LedgerInv, UNCHANGED serial, NEW c \in Caller,
           \/ MintCheck(c) \/ MintRefused(c)
           \/ RemintCheck(c) \/ RemintRefused(c) \/ RevalueRefused(c)
    PROVE  LedgerInv'
<1>1. /\ pc[c] \in {"ready", "check"} /\ ~Unjournalled(c)
      /\ UNCHANGED <<memory, journal, calls, faults, disturbed, shortfall, used>>
  BY DEF MintCheck, MintRefused, RemintCheck, RemintRefused, RevalueRefused, ghosts, Unjournalled
<1>2. CASE \E result : Finish(c, result)
  BY <1>1, <1>2, FinishQuiet
<1>3. CASE MintCheck(c) \/ RemintCheck(c)
  <2>1. CASE \E result : Finish(c, result)
    BY <1>2, <2>1
  <2>2. CASE /\ Suspend(c, "check") /\ read' = [read EXCEPT ![c] = Len(journal)]
             /\ UNCHANGED <<req, found, fact, outcome>>
    <3>1. /\ DOMAIN req = Caller /\ calls \in [Caller -> 0..MaxCalls] /\ req[c] \in Request
      BY <1>1 DEF LedgerInv, TypeInv, TypeOK, CallTyped
    <3>2. serial /\ req[c].op \in Once => req[c].pid \in used
      BY <1>1 DEF LedgerInv, SerialInv, SerialCall
    <3>3. hydrated
      BY <1>1 DEF LedgerInv, ProjectionInv
    <3>4. "check" \in {"gate", "hydrate", "ready", "check"}
      OBVIOUS
    <3> QED
      BY <1>1, <2>2, <3>1, <3>2, <3>3, <3>4, SuspendQuiet
  <2> QED
    BY <1>3, <2>1, <2>2 DEF MintCheck, RemintCheck
<1> QED
  BY <1>2, <1>3 DEF MintCheck, MintRefused, RemintCheck, RemintRefused, RevalueRefused

LEMMA AnswerKeepsLedger ==
    ASSUME AppendInv, LedgerInv, UNCHANGED serial, NEW c \in Caller, Answer(c)
    PROVE  LedgerInv'
<1>1. /\ pc[c] = "written" /\ ~Unjournalled(c) /\ Finish(c, "ok")
      /\ UNCHANGED <<memory, journal, calls, faults, disturbed, shortfall, used>>
  BY DEF Answer, Unjournalled
<1> QED
  BY <1>1, FinishQuiet

LEMMA ReadTipKeepsLedger ==
    ASSUME AppendInv, LedgerInv, UNCHANGED serial, NEW c \in Caller, ReadTip(c)
    PROVE  LedgerInv'
<1>1. /\ pc[c] = "lookup" /\ Suspend(c, "tip") /\ read' = [read EXCEPT ![c] = Len(journal)]
      /\ UNCHANGED <<memory, journal, req, found, fact, outcome, calls, faults, disturbed, shortfall, used>>
  BY DEF ReadTip, ghosts
<1>2. /\ DOMAIN req = Caller /\ calls \in [Caller -> 0..MaxCalls] /\ req[c] \in Request
      /\ read \in [Caller -> 0..Len(journal)] /\ CallTyped(c)
      /\ crashes' \in 0..MaxCrashes /\ failures' \in 0..MaxFailures
  BY <1>1 DEF LedgerInv, TypeInv, TypeOK, CallTyped, faults
<1>3. Len(journal) \in Nat
  BY GrowsIs DEF LedgerInv, Grows
<1>4. /\ read' \in [Caller -> Nat] /\ read'[c] = Len(journal)
      /\ \A d \in Caller \ {c} : read'[d] = read[d]
  BY <1>1, <1>2, <1>3
<1>5. "tip" \in Await
  BY DEF Await
<1>6. Moves(c) /\ pc'[c] = "tip"
  BY <1>1, <1>2, <1>4, <1>5, SuspendMoves DEF LedgerInv
<1>7. hydrated
  BY <1>1 DEF LedgerInv, ProjectionInv
<1>8. CallTyped(c)'
  BY <1>1, <1>2, <1>6 DEF CallTyped
<1>9. serial => SerialCall(c)'
  BY <1>1, <1>4, <1>6 DEF SerialCall, LedgerInv, SerialInv
<1>10. Quiet(c)
  BY <1>1, <1>3, <1>4, <1>6, <1>7, <1>8, <1>9 DEF Quiet, Unjournalled, faults
<1> QED
  BY <1>10, QuietKeeps
-----------------------------------------------------------------------------
(***************************************************************************)
(* Steps that part an effect from its fact, and the hydration.             *)
(***************************************************************************)
\* A call that ends although its effect has no fact.
LEMMA DropKeeps ==
    ASSUME AppendInv, LedgerInv, NEW c \in Caller, NEW result, Finish(c, result),
           UNCHANGED <<serial, minted, reminted, hydrated, journal, calls, used>>,
           balances' \in [Holder -> Nat], disturbed',
           crashes' \in 0..MaxCrashes, failures' \in 0..MaxFailures,
           serial => failures' # 0 \/ (shortfall' /\ failures' = failures /\ ~Unjournalled(c))
    PROVE  LedgerInv'
<1>1. Moves(c) /\ Ended(c) /\ CallTyped(c)' /\ calls'[c] = calls[c]
  BY FinishMoves DEF LedgerInv
<1>2. Len(journal) \in Nat
  BY GrowsIs DEF LedgerInv, Grows
<1>3. TypeInv'
  <2>1. read'[c] <= Len(journal') /\ Grows
    BY <1>1, <1>2 DEF Ended, Grows
  <2>2. minted' \subseteq Process /\ reminted' \subseteq Process /\ hydrated' \in BOOLEAN
    BY DEF LedgerInv, TypeInv, TypeOK
  <2> QED
    BY <1>1, <2>1, <2>2, MovesTyped DEF LedgerInv
<1>4. ProjectionInv'
  BY <1>1 DEF LedgerInv, ProjectionInv, Moves, Ended
<1>5. ASSUME serial PROVE SerialInv'
  <2>1. OneAtATime'
    BY <1>1, <1>5 DEF LedgerInv, SerialInv, OneAtATime, Moves, Ended
  <2>2. ASSUME NEW d \in Caller PROVE SerialCall(d)'
    <3>1. CASE d = c
      BY <1>1, <3>1 DEF SerialCall, Ended
    <3>2. CASE d # c
      <4>1. /\ pc'[d] = pc[d] /\ req'[d] = req[d] /\ read'[d] = read[d] /\ found'[d] = found[d]
            /\ SerialCall(d)
        BY <1>1, <1>5, <3>2 DEF Moves, LedgerInv, SerialInv
      <4> QED
        BY <4>1 DEF SerialCall
    <3> QED
      BY <3>1, <3>2
  <2>3. \A d \in Caller : pc[d] \in {"idle", "written"} => pc'[d] \in {"idle", "written"}
    BY <1>1 DEF Moves, Ended
  <2>4. \A i \in DOMAIN journal' : SerialFact(journal[i])'
    BY <1>5, <2>3 DEF LedgerInv, SerialInv, SerialFact
  <2>5. failures' = 0 => shortfall' /\ MintedInv'
    <3> SUFFICES ASSUME failures' = 0 PROVE shortfall' /\ MintedInv'
      OBVIOUS
    <3>1. shortfall' /\ failures = 0 /\ ~Unjournalled(c) /\ MintedInv
      BY <1>5 DEF LedgerInv, SerialInv
    <3>2. \A d \in Caller : Unjournalled(d) => Unjournalled(d)' /\ fact'[d] = fact[d]
      BY <1>1, <3>1 DEF Unjournalled, Moves
    <3> QED
      BY <3>1, <3>2 DEF MintedInv
  <2> QED
    BY <1>5, <2>1, <2>2, <2>4, <2>5 DEF SerialInv
<1>6. SerialInv'
  BY <1>5 DEF SerialInv
<1> QED
  BY <1>3, <1>4, <1>6 DEF LedgerInv

LEMMA DropsKeepLedger ==
    ASSUME AppendInv, LedgerInv, UNCHANGED serial, NEW c \in Caller,
           AnswerExisting(c) \/ WriteRefused(c) \/ AppendFails(c)
    PROVE  LedgerInv'
<1>1. /\ crashes \in 0..MaxCrashes /\ failures \in 0..MaxFailures /\ MaxFailures \in Nat
      /\ UNCHANGED memory => balances' \in [Holder -> Nat]
  BY LedgerAssumption DEF LedgerInv, TypeInv, TypeOK, memory
<1>2. CASE AnswerExisting(c)
  <2>1. ~serial
    BY <1>2 DEF AnswerExisting, LedgerInv, SerialInv, SerialCall
  <2> QED
    BY <1>1, <1>2, <2>1, DropKeeps DEF AnswerExisting, faults, memory
<1>3. CASE WriteRefused(c)
  <2>1. ~serial
    <3>1. pc[c] = "tip" /\ read[c] < Len(journal)
      BY <1>3 DEF WriteRefused
    <3>2. Len(journal) \in Nat
      BY GrowsIs DEF LedgerInv, Grows
    <3>3. read[c] # Len(journal)
      BY <3>1, <3>2
    <3> QED
      BY <3>1, <3>3 DEF LedgerInv, SerialInv, SerialCall
  <2> QED
    BY <1>1, <1>3, <2>1, DropKeeps DEF WriteRefused, AppendThrows, faults, memory
<1>4. CASE AppendFails(c)
  <2>1. /\ Finish(c, "STORAGE") /\ disturbed'
        /\ UNCHANGED <<memory, journal, calls, used, shortfall, crashes>>
        /\ failures' = failures + 1 /\ failures < MaxFailures
    BY <1>4 DEF AppendFails, AppendThrows
  <2>2. failures' \in 0..MaxFailures /\ failures' # 0
    BY <1>1, <2>1
  <2> QED
    BY <1>1, <2>1, <2>2, DropKeeps DEF memory
<1> QED
  BY <1>2, <1>3, <1>4

\* No append is under way: nothing is pending.
LEMMA NothingPending ==
    ASSUME \A d \in Caller : ~Unjournalled(d)
    PROVE  \A h : SumFunctionOnSet(Pending(h), Caller) = 0
<1>1. ASSUME NEW h PROVE SumFunctionOnSet(Pending(h), Caller) = 0
  <2>1. PICK p : p = Pending(h)
    OBVIOUS
  <2>2. IsFiniteSet(Caller) /\ \A d \in Caller : p[d] \in Nat /\ p[d] = 0
    BY <2>1, LedgerAssumption DEF Pending
  <2> QED
    BY <2>1, <2>2, SumOfNaturals
<1> QED
  BY <1>1

LEMMA HydrateKeepsLedger ==
    ASSUME AppendInv, LedgerInv, UNCHANGED serial, NEW c \in Caller, Hydrate(c)
    PROVE  LedgerInv'
<1>0. PICK r : r = Replay(ReadBy(c))
  OBVIOUS
<1>1. /\ pc[c] = "hydrate" /\ balances' = r.balances /\ minted' = r.minted
      /\ UNCHANGED <<reminted, journal, calls, faults, used, shortfall>>
      /\ disturbed' <=> read[c] < Len(journal) \/ \E d \in Caller : Unjournalled(d)
  BY <1>0 DEF Hydrate
<1>2. PICK S : /\ \A f \in S : WholeFact(f)
               /\ journal \in Seq(S) /\ ReadBy(c) \in Seq(S)
               /\ read[c] = Len(journal) => ReadBy(c) = journal
  BY ReadByIs DEF LedgerInv
<1>3. /\ r \in Replayed
      /\ read[c] = Len(journal) => r = Replay(journal)
  BY <1>0, <1>2, ReplayIsNet
<1>4. PICK j : j = Replay(journal)
  OBVIOUS
<1>5. /\ Net(journal) \in [Holder -> Int]
      /\ j.ok => \A h \in Holder : j.balances[h] = Net(journal)[h]
      /\ \A p \in j.minted : Mints(journal, p) # {}
  BY <1>2, <1>4, ReplayIsNet
<1>6. Len(journal) \in Nat /\ read[c] \in Nat /\ read[c] <= Len(journal)
  <2>1. Len(journal) \in Nat /\ read[c] \in 0..Len(journal)
    BY GrowsIs DEF LedgerInv, Grows, TypeInv, TypeOK
  <2> QED
    BY <2>1
<1>7. balances' \in [Holder -> Nat] /\ minted' \subseteq Process /\ reminted' \subseteq Process
  BY <1>1, <1>3 DEF Replayed, LedgerInv, TypeInv, TypeOK
<1>8. crashes' \in 0..MaxCrashes /\ failures' \in 0..MaxFailures
  BY <1>1 DEF LedgerInv, TypeInv, TypeOK, faults
<1>9. /\ ~disturbed' => read[c] = Len(journal) /\ \A d \in Caller : ~Unjournalled(d)
      /\ serial => read[c] = Len(journal)
  BY <1>1, <1>6 DEF LedgerInv, SerialInv, SerialCall
<1>10. read[c] = Len(journal) /\ hydrated => j.ok
  BY <1>1, <1>4 DEF LedgerInv, ProjectionInv
<1>11. /\ Moves(c) /\ CallTyped(c)' /\ read'[c] <= Len(journal') /\ hydrated' \in BOOLEAN
       /\ calls'[c] = calls[c] /\ pc'[c] \in {"idle", "ready"}
       /\ pc'[c] = "ready" => hydrated' /\ r.ok /\ req'[c] = req[c]
       /\ pc'[c] = "idle" => hydrated' = hydrated /\ ~r.ok
  <2>1. CASE r.ok
    <3>1. /\ hydrated' = TRUE /\ Suspend(c, "ready")
          /\ UNCHANGED <<req, read, found, fact, outcome>>
      BY <1>0, <2>1 DEF Hydrate
    <3>2. /\ DOMAIN req = Caller /\ calls \in [Caller -> 0..MaxCalls] /\ req[c] \in Request
          /\ read \in [Caller -> 0..Len(journal)] /\ "ready" \in Await
      BY <1>1 DEF LedgerInv, TypeInv, TypeOK, CallTyped, Await
    <3>3. read' \in [Caller -> Nat]
      BY <1>6, <3>1, <3>2
    <3>4. Moves(c) /\ pc'[c] = "ready"
      BY <1>1, <1>8, <3>1, <3>2, <3>3, SuspendMoves DEF LedgerInv
    <3> QED
      BY <1>1, <1>6, <2>1, <3>1, <3>2, <3>4 DEF CallTyped
  <2>2. CASE ~r.ok
    <3>1. Finish(c, "INSUFFICIENT") /\ UNCHANGED hydrated
      BY <1>0, <2>2 DEF Hydrate
    <3>2. Moves(c) /\ Ended(c) /\ CallTyped(c)' /\ calls'[c] = calls[c]
      BY <1>1, <1>8, <3>1, FinishMoves DEF LedgerInv
    <3> QED
      BY <1>1, <1>6, <2>2, <3>1, <3>2 DEF Ended, LedgerInv, TypeInv, TypeOK
  <2> QED
    BY <2>1, <2>2
<1>12. TypeInv'
  BY <1>1, <1>7, <1>11, MovesTyped DEF LedgerInv, Grows
<1>13. \A d \in Caller : Unjournalled(d)' <=> d # c /\ Unjournalled(d)
  BY <1>11 DEF Unjournalled, Moves
<1>14. ProjectionInv'
  <2>1. ASSUME ~hydrated', NEW d \in Caller
        PROVE  pc'[d] \in {"idle", "gate", "hydrate"} /\ (pc'[d] = "hydrate" => read'[d] = Len(journal'))
    <3>1. ~hydrated /\ pc'[c] = "idle"
      BY <1>11, <2>1
    <3> QED
      BY <1>1, <1>11, <3>1 DEF LedgerInv, ProjectionInv, Moves
  <2>2. ASSUME hydrated', NEW d \in Caller, pc'[d] = "hydrate", read'[d] = Len(journal')
        PROVE  j.ok
    <3>1. d # c /\ pc[d] = "hydrate" /\ read[d] = Len(journal)
      BY <1>1, <1>11, <2>2 DEF Moves
    <3>2. CASE hydrated
      BY <1>4, <3>1, <3>2 DEF LedgerInv, ProjectionInv
    <3>3. CASE ~hydrated
      <4>1. read[c] = Len(journal) /\ pc'[c] = "ready"
        BY <1>1, <1>11, <2>2, <3>3 DEF LedgerInv, ProjectionInv
      <4> QED
        BY <1>3, <1>4, <1>11, <4>1
    <3> QED
      BY <3>2, <3>3
  <2>3. ASSUME hydrated', ~disturbed' PROVE Projected'
    <3>1. read[c] = Len(journal) /\ r = j /\ \A d \in Caller : ~Unjournalled(d)
      BY <1>3, <1>4, <1>9, <2>3
    <3>2. j.ok
      BY <1>10, <1>11, <2>3, <3>1
    <3>3. \A d \in Caller : ~Unjournalled(d)'
      BY <1>13, <3>1
    <3>4. \A h : Pending(h)' = [d \in Caller |-> 0]
      BY <3>3 DEF Pending
    <3>5. \A h : Pending(h) = [d \in Caller |-> 0]
      BY <3>1 DEF Pending
    <3>6. \A h : SumFunctionOnSet(Pending(h), Caller)' = 0
      BY <3>1, <3>4, <3>5, NothingPending
    <3>7. \A h \in Holder : balances'[h] = Net(journal)[h] /\ balances'[h] \in Int
      BY <1>1, <1>5, <1>7, <3>1, <3>2
    <3>8. ASSUME NEW h \in Holder
          PROVE  balances'[h] = Net(journal')[h] + SumFunctionOnSet(Pending(h), Caller)'
      <4>1. Net(journal') = Net(journal)
        BY <1>1
      <4> QED
        BY <3>6, <3>7, <4>1
    <3> QED
      BY <3>8 DEF Projected
  <2>4. Replay(journal') = j
    BY <1>1, <1>4
  <2> QED
    BY <2>1, <2>2, <2>3, <2>4 DEF ProjectionInv
<1>15. ASSUME serial PROVE SerialInv'
  <2>1. r = j /\ \A d \in Caller \ {c} : pc[d] = "idle" /\ pc'[d] = "idle"
    BY <1>1, <1>3, <1>4, <1>9, <1>11, <1>15, Alone DEF LedgerInv, Moves
  <2>2. OneAtATime'
    BY <2>1 DEF OneAtATime
  <2>3. ASSUME NEW d \in Caller PROVE SerialCall(d)'
    <3>1. CASE d # c
      BY <2>1, <3>1 DEF SerialCall
    <3>2. CASE pc'[c] = "idle" /\ d = c
      BY <3>2 DEF SerialCall
    <3>3. CASE pc'[c] = "ready" /\ d = c
      <4>1. SerialCall(c) /\ req'[c] = req[c] /\ UNCHANGED <<journal, used>>
        BY <1>1, <1>11, <1>15, <3>3 DEF LedgerInv, SerialInv
      <4> QED
        BY <1>1, <3>3, <4>1 DEF SerialCall
    <3> QED
      BY <1>11, <3>1, <3>2, <3>3
  <2>4. \A i \in DOMAIN journal' : SerialFact(journal[i])'
    <3>1. \A d \in Caller : pc[d] \in {"idle", "written"} => pc'[d] \in {"idle", "written"}
      BY <1>1, <2>1
    <3> QED
      BY <1>1, <1>15, <3>1 DEF LedgerInv, SerialInv, SerialFact
  <2>5. \A d \in Caller : ~Unjournalled(d)'
    BY <1>11, <2>1 DEF Unjournalled
  <2>6. ASSUME failures' = 0, ~shortfall' PROVE CleanInv'
    <3>1. j.ok
      BY <1>1, <1>4, <1>15, <2>6 DEF LedgerInv, SerialInv, CleanInv, faults
    <3>2. Replay(journal') = j /\ balances' = j.balances
      BY <1>1, <1>4, <2>1
    <3> QED
      BY <2>5, <3>1, <3>2 DEF CleanInv
  <2>7. MintedInv'
    BY <1>1, <1>5, <2>1 DEF MintedInv
  <2> QED
    BY <1>15, <2>2, <2>3, <2>4, <2>6, <2>7 DEF SerialInv
<1>16. SerialInv'
  BY <1>15 DEF SerialInv
<1> QED
  BY <1>12, <1>14, <1>16 DEF LedgerInv
-----------------------------------------------------------------------------
(***************************************************************************)
(* Effects. They change the balances by what their append has pending.     *)
(***************************************************************************)
\* The fact that an effect of c appends.
Made(c, entries) ==
    [op |-> req[c].op, pid |-> req[c].pid, entries |-> entries,
     claim |-> IF req[c].op = "burn" THEN <<c, calls[c]>> ELSE <<>>]

\* A step of c that leaves the others' pending amounts alone changes the sum by c's.
LEMMA PendingChanges ==
    ASSUME TypeInv, TypeInv', NEW c \in Caller, Moves(c), NEW h \in Holder
    PROVE  /\ Pending(h)[c] \in Int /\ Pending(h)'[c] \in Int
           /\ SumFunctionOnSet(Pending(h), Caller) \in Int
           /\ SumFunctionOnSet(Pending(h), Caller)' =
                SumFunctionOnSet(Pending(h), Caller) + (Pending(h)'[c] - Pending(h)[c])
<1>1. ASSUME NEW f, WholeFact(f) PROVE Delta(f.entries)[h] \in Int
  <2>1. PICK e \in Seq(Entry) : e = f.entries
    BY <1>1 DEF WholeFact
  <2>2. Nothing \in [Holder -> Int]
    BY DEF Nothing
  <2>3. Delta(e) \in [Holder -> Int]
    BY <2>2, AddingIsDelta
  <2> QED
    BY <2>1, <2>3
<1>2. PICK p, q : p = Pending(h) /\ q = Pending(h)'
  OBVIOUS
<1>3. ASSUME NEW d \in Caller
      PROVE  /\ p[d] \in Int /\ q[d] \in Int
             /\ d # c => p[d] = q[d]
  <2>1. Unjournalled(d) => WholeFact(fact[d])
    BY DEF TypeInv, CallTyped, Unjournalled
  <2>2. Unjournalled(d)' => WholeFact(fact'[d])
    BY DEF TypeInv, CallTyped, Unjournalled
  <2>3. p[d] = IF Unjournalled(d) THEN Delta(fact[d].entries)[h] ELSE 0
    BY <1>2 DEF Pending
  <2>4. q[d] = IF Unjournalled(d)' THEN Delta(fact'[d].entries)[h] ELSE 0
    BY <1>2 DEF Pending
  <2>5. p[d] \in Int
    BY <1>1, <2>1, <2>3
  <2>6. q[d] \in Int
    BY <1>1, <2>2, <2>4
  <2>7. d # c => (Unjournalled(d)' <=> Unjournalled(d)) /\ fact'[d] = fact[d]
    BY DEF Moves, Unjournalled
  <2> QED
    BY <2>3, <2>4, <2>5, <2>6, <2>7
<1>4. IsFiniteSet(Caller)
  BY LedgerAssumption
<1>5. SumFunctionOnSet(p, Caller) \in Int
  BY <1>3, <1>4, SumOfIntegers
<1>6. SumFunctionOnSet(q, Caller) = SumFunctionOnSet(p, Caller) + (q[c] - p[c])
  BY <1>3, <1>4, SumChange
<1> QED
  BY <1>2, <1>3, <1>5, <1>6

LEMMA SameDifference ==
    ASSUME NEW b \in Int, NEW b2 \in Int, NEW n \in Int, NEW n2 \in Int,
           NEW p \in Int, NEW p2 \in Int, NEW s \in Int, NEW s2,
           s2 = s + (p2 - p), b = n + s, (b2 - n2) - p2 = (b - n) - p
    PROVE  b2 = n2 + s2
  OBVIOUS

\* Projected is kept by a step of c that changes the balances, and the journal, by as much
\* as it changes what c has pending.
LEMMA ProjectedMoves ==
    ASSUME TypeInv, TypeInv', Projected, NEW c \in Caller, Moves(c),
           Net(journal) \in [Holder -> Int], Net(journal)' \in [Holder -> Int],
           \A h \in Holder : balances'[h] - Net(journal')[h] - Pending(h)'[c]
                             = balances[h] - Net(journal)[h] - Pending(h)[c]
    PROVE  Projected'
<1> SUFFICES ASSUME NEW h \in Holder
             PROVE  balances'[h] = Net(journal')[h] + SumFunctionOnSet(Pending(h), Caller)'
  BY DEF Projected
<1>1. PICK b, b2, n, n2, p, p2, s, s2 :
        /\ b = balances[h] /\ b2 = balances'[h] /\ n = Net(journal)[h] /\ n2 = Net(journal')[h]
        /\ p = Pending(h)[c] /\ p2 = Pending(h)'[c]
        /\ s = SumFunctionOnSet(Pending(h), Caller) /\ s2 = SumFunctionOnSet(Pending(h), Caller)'
  OBVIOUS
<1>2. b \in Int /\ b2 \in Int
  BY <1>1 DEF TypeInv, TypeOK
<1>3. n \in Int /\ n2 \in Int
  BY <1>1
<1>4. p \in Int /\ p2 \in Int /\ s \in Int /\ s2 = s + (p2 - p)
  BY <1>1, PendingChanges
<1>5. b = n + s
  BY <1>1 DEF Projected
<1>6. b2 - n2 - p2 = b - n - p
  BY <1>1
<1>7. b2 = n2 + s2
  BY <1>2, <1>3, <1>4, <1>5, <1>6, SameDifference
<1> QED
  BY <1>1, <1>7

\* An effect that throws ends the call; it has changed nothing, or is noted.
LEMMA ThrowKeepsLedger ==
    ASSUME AppendInv, LedgerInv, UNCHANGED serial, NEW c \in Caller,
           NEW entries \in Seq(Entry), TakeEffect(c, entries), ~Apply(balances, entries).ok,
           pc[c] \in {"ready", "check"}, minted' = minted, reminted' = reminted
    PROVE  LedgerInv'
<1>1. PICK a : a = Apply(balances, entries)
  OBVIOUS
<1>2. /\ Finish(c, "INSUFFICIENT") /\ balances' = a.balances
      /\ disturbed' <=> disturbed \/ a.balances # balances
      /\ shortfall' <=> shortfall \/ a.balances # balances
      /\ UNCHANGED <<hydrated, journal, calls, faults, used>>
  BY <1>1 DEF TakeEffect
<1>3. CASE a.balances = balances
  <2>1. (disturbed' <=> disturbed) /\ (shortfall' <=> shortfall) /\ UNCHANGED memory
    BY <1>2, <1>3 DEF memory
  <2>2. ~Unjournalled(c) /\ pc[c] # "idle"
    BY DEF Unjournalled
  <2> QED
    BY <1>2, <2>1, <2>2, FinishQuiet
<1>4. CASE a.balances # balances
  <2>1. disturbed' /\ shortfall' /\ ~Unjournalled(c)
    BY <1>2, <1>4 DEF Unjournalled
  <2>2. balances' \in [Holder -> Nat]
    <3>1. balances \in [Holder -> Nat]
      BY DEF LedgerInv, TypeInv, TypeOK
    <3> QED
      BY <1>1, <1>2, <3>1, ApplyAdds
  <2>3. crashes' \in 0..MaxCrashes /\ failures' \in 0..MaxFailures /\ failures' = failures
    BY <1>2 DEF LedgerInv, TypeInv, TypeOK, faults
  <2> QED
    BY <1>2, <2>1, <2>2, <2>3, DropKeeps
<1> QED
  BY <1>3, <1>4

\* An effect that takes place: the balances have its amounts, and its append is pending.
LEMMA EffectKeepsLedger ==
    ASSUME AppendInv, LedgerInv, UNCHANGED serial, NEW c \in Caller,
           NEW entries \in Seq(Entry), TakeEffect(c, entries), Apply(balances, entries).ok,
           pc[c] \in {"ready", "check"}, reminted' \subseteq Process,
           minted' = minted \/ (req[c].op = "mint" /\ minted' = minted \cup {req[c].pid}),
           serial => ~Journalled(Made(c, entries))
    PROVE  LedgerInv'
<1>1. PICK a, f : a = Apply(balances, entries) /\ f = Made(c, entries)
  OBVIOUS
<1>2. /\ balances' = a.balances /\ Suspend(c, "lookup")
      /\ fact' = [fact EXCEPT ![c] = f] /\ found' = [found EXCEPT ![c] = Journalled(f)]
      /\ UNCHANGED <<req, read, outcome, disturbed, shortfall, hydrated, journal, calls, faults, used>>
  BY <1>1 DEF TakeEffect, Made
<1>3. /\ balances \in [Holder -> Nat] /\ a \in [balances : [Holder -> Nat], ok : BOOLEAN]
      /\ \A h \in Holder : a.balances[h] = balances[h] + Delta(entries)[h]
      /\ a = [balances |-> a.balances, ok |-> TRUE]
  <2>1. balances \in [Holder -> Nat]
    BY DEF LedgerInv, TypeInv, TypeOK
  <2>2. a \in [balances : [Holder -> Nat], ok : BOOLEAN] /\ a.ok
    BY <1>1, <2>1, ApplyAdds
  <2> QED
    BY <1>1, <2>1, <2>2, ApplyAdds
<1>4. /\ req[c] \in Request /\ req[c].op \in Operation /\ req[c].pid \in Process /\ hydrated
      /\ ~Unjournalled(c)
  BY RequestIs DEF LedgerInv, TypeInv, CallTyped, ProjectionInv, Unjournalled
<1>5. /\ f.op = req[c].op /\ f.pid = req[c].pid /\ f.entries = entries
      /\ f.op = "burn" => f.claim = <<c, calls[c]>>
      /\ WholeFact(f)
  <2>1. /\ f.op = req[c].op /\ f.pid = req[c].pid /\ f.entries = entries
        /\ f.op = "burn" => f.claim = <<c, calls[c]>>
    BY <1>1 DEF Made
  <2>2. \A i \in DOMAIN entries : entries[i] \in Entry
    OBVIOUS
  <2> QED
    BY <1>4, <2>1, <2>2 DEF WholeFact, IsFact, Entry
<1>6. /\ pc' = [pc EXCEPT ![c] = "lookup"] /\ DOMAIN fact = Caller /\ DOMAIN req = Caller
      /\ DOMAIN outcome = Caller
      /\ pc \in [Caller -> Await] /\ found \in [Caller -> BOOLEAN]
      /\ calls \in [Caller -> 0..MaxCalls] /\ read \in [Caller -> 0..Len(journal)]
      /\ "lookup" \in Await /\ Journalled(f) \in BOOLEAN /\ Len(journal) \in Nat
  BY <1>2, GrowsIs DEF Suspend, LedgerInv, TypeInv, TypeOK, Await, Journalled, Grows
<1>7. read' \in [Caller -> Nat] /\ read'[c] <= Len(journal')
  <2>1. \A d \in Caller : read[d] \in Nat /\ read[d] <= Len(journal)
    BY <1>6
  <2> QED
    BY <1>2, <1>6, <2>1
<1>8. crashes' \in 0..MaxCrashes /\ failures' \in 0..MaxFailures
  BY <1>2 DEF LedgerInv, TypeInv, TypeOK, faults
<1>9. IsFact(f)
  BY <1>5 DEF WholeFact
<1>10. /\ pc'[c] = "lookup" /\ fact'[c] = f /\ (found'[c] <=> Journalled(f))
       /\ pc' \in [Caller -> Await] /\ found' \in [Caller -> BOOLEAN] /\ DOMAIN fact' = Caller
       /\ \A d \in Caller \ {c} : pc'[d] = pc[d] /\ found'[d] = found[d] /\ fact'[d] = fact[d]
  BY <1>2, <1>6
<1>11. Moves(c)
  BY <1>2, <1>4, <1>6, <1>7, <1>8, <1>9, <1>10 DEF Moves
<1>12. CallTyped(c)'
  BY <1>2, <1>4, <1>5, <1>10 DEF CallTyped
<1>13. TypeInv'
  <2>1. balances' \in [Holder -> Nat]
    BY <1>2, <1>3
  <2>2. minted' \subseteq Process
    BY <1>4 DEF LedgerInv, TypeInv, TypeOK
  <2>3. hydrated' \in BOOLEAN /\ Grows
    BY <1>2 DEF LedgerInv, TypeInv, TypeOK, Grows
  <2> QED
    BY <1>7, <1>11, <1>12, <2>1, <2>2, <2>3, MovesTyped DEF LedgerInv
<1>14. Unjournalled(c)' /\ \A d \in Caller \ {c} : Unjournalled(d)' <=> Unjournalled(d)
  BY <1>10 DEF Unjournalled
<1>15. ProjectionInv'
  <2>1. \A d \in Caller : pc'[d] = "hydrate" => d # c /\ pc[d] = "hydrate"
    BY <1>10
  <2>2. \A d \in Caller :
          pc'[d] = "hydrate" /\ read'[d] = Len(journal') => Replay(journal').ok
    BY <1>2, <1>4, <2>1 DEF LedgerInv, ProjectionInv
  <2>3. ASSUME ~disturbed' PROVE Projected'
    <3>1. Projected
      BY <1>2, <1>4, <2>3 DEF LedgerInv, ProjectionInv
    <3>2. Net(journal) \in [Holder -> Int] /\ Net(journal)' \in [Holder -> Int]
      <4>1. Net(journal) \in [Holder -> Int]
        BY ReadByIs, ReplayIsNet DEF LedgerInv
      <4> QED
        BY <1>2, <4>1
    <3>3. ASSUME NEW h \in Holder
          PROVE  balances'[h] - Net(journal')[h] - Pending(h)'[c]
                   = balances[h] - Net(journal)[h] - Pending(h)[c]
      <4>1. PICK n, d, b : n = Net(journal)[h] /\ d = Delta(entries)[h] /\ b = balances[h]
        OBVIOUS
      <4>2. n \in Int /\ b \in Int
        BY <1>3, <3>2, <4>1
      <4>3. d \in Int
        <5>1. Nothing \in [Holder -> Int]
          BY DEF Nothing
        <5> QED
          BY <4>1, <5>1, AddingIsDelta
      <4>4. Pending(h)[c] = 0
        BY <1>4 DEF Pending
      <4>5. Pending(h)'[c] = d
        BY <1>5, <1>10, <1>14, <4>1 DEF Pending
      <4>6. balances'[h] = b + d /\ Net(journal')[h] = n
        BY <1>2, <1>3, <4>1
      <4>7. (b + d) - n - d = b - n - 0
        BY <4>2, <4>3
      <4> QED
        BY <4>1, <4>4, <4>5, <4>6, <4>7
    <3> QED
      BY <1>11, <1>13, <3>1, <3>2, <3>3, ProjectedMoves DEF LedgerInv
  <2> QED
    BY <1>2, <1>4, <2>2, <2>3 DEF ProjectionInv
<1>16. ASSUME serial PROVE SerialInv'
  <2>1. \A d \in Caller \ {c} : pc[d] = "idle" /\ pc'[d] = "idle"
    BY <1>10, <1>16, Alone DEF LedgerInv
  <2>2. OneAtATime'
    BY <2>1 DEF OneAtATime
  <2>3. ASSUME NEW d \in Caller PROVE SerialCall(d)'
    <3>1. CASE d # c
      BY <2>1, <3>1 DEF SerialCall
    <3>2. CASE d = c
      <4>1. ~found'[c]
        BY <1>1, <1>10, <1>16
      <4>2. req[c].op \in Once => req[c].pid \in used
        BY <1>16 DEF LedgerInv, SerialInv, SerialCall
      <4> QED
        BY <1>2, <1>10, <3>2, <4>1, <4>2 DEF SerialCall
    <3> QED
      BY <3>1, <3>2
  <2>4. \A i \in DOMAIN journal' : SerialFact(journal[i])'
    <3>1. \A d \in Caller : pc[d] \in {"idle", "written"} => pc'[d] \in {"idle", "written"}
      BY <2>1
    <3> QED
      BY <1>2, <1>16, <3>1 DEF LedgerInv, SerialInv, SerialFact
  <2>5. ASSUME failures' = 0, ~shortfall' PROVE CleanInv'
    <3>1. CleanInv
      BY <1>2, <1>16, <2>5 DEF LedgerInv, SerialInv, faults
    <3>2. balances = Replay(journal).balances /\ Replay(journal).ok
      BY <1>4, <2>1, <3>1 DEF CleanInv, Unjournalled
    <3>3. Apply(Replay(journal).balances, entries) = [balances |-> balances', ok |-> TRUE]
      BY <1>1, <1>2, <1>3, <3>2
    <3>4. \A d \in Caller : Unjournalled(d)' => d = c
      BY <2>1 DEF Unjournalled
    <3> QED
      BY <1>2, <1>5, <1>10, <1>14, <3>2, <3>3, <3>4 DEF CleanInv
  <2>6. ASSUME failures' = 0, NEW p \in minted'
        PROVE  Mints(journal', p) # {} \/ \E d \in Caller :
                 Unjournalled(d)' /\ fact'[d].op = "mint" /\ fact'[d].pid = p
    <3>1. CASE p \in minted
      <4>1. MintedInv
        BY <1>2, <1>16, <2>6 DEF LedgerInv, SerialInv, faults
      <4>2. Mints(journal, p) # {}
        BY <1>4, <2>1, <3>1, <4>1 DEF MintedInv, Unjournalled
      <4> QED
        BY <1>2, <4>2
    <3>2. CASE p \notin minted
      BY <1>5, <1>10, <1>14, <2>6, <3>2
    <3> QED
      BY <3>1, <3>2
  <2>7. failures' = 0 => MintedInv'
    BY <2>6 DEF MintedInv
  <2> QED
    BY <1>16, <2>2, <2>3, <2>4, <2>5, <2>7 DEF SerialInv
<1>17. SerialInv'
  BY <1>16 DEF SerialInv
<1> QED
  BY <1>13, <1>15, <1>17 DEF LedgerInv

LEMMA MintKeepsLedger ==
    ASSUME AppendInv, LedgerInv, UNCHANGED serial, NEW c \in Caller, Mint(c) \/ Remint(c)
    PROVE  LedgerInv'
<1>1. /\ pc[c] = "check" /\ req[c].op \in {"mint", "remint"} /\ TakeEffect(c, Credit(c))
      /\ req[c] \in Request
  BY DEF Mint, Remint, LedgerInv, TypeInv, CallTyped
<1>2. req[c].holder \in Holder /\ req[c].amount \in Nat
  BY <1>1, RequestIs
<1>3. PICK x : x = [holder |-> req[c].holder, amount |-> req[c].amount]
  OBVIOUS
<1>4. x \in Entry /\ x.amount >= 0 /\ Credit(c) = <<x>>
  BY <1>2, <1>3 DEF Entry, Credit
<1>5. Credit(c) \in Seq(Entry) /\ Apply(balances, Credit(c)).ok
  <2>1. balances \in [Holder -> Nat]
    BY DEF LedgerInv, TypeInv, TypeOK
  <2> QED
    BY <1>4, <2>1, CreditApplies
<1>6. reminted' \subseteq Process
  BY <1>1, RequestIs DEF Mint, Remint, LedgerInv, TypeInv, TypeOK
<1>7. minted' = minted \/ (req[c].op = "mint" /\ minted' = minted \cup {req[c].pid})
  BY DEF Mint, Remint
<1>8. ASSUME serial PROVE ~Journalled(Made(c, Credit(c)))
  <2>1. ReadBy(c) = journal
    BY <1>1, <1>8, ReadByIs DEF LedgerInv, SerialInv, SerialCall
  <2>0. PICK g : g = Made(c, Credit(c))
    OBVIOUS
  <2>2. g = Made(c, Credit(c)) /\ g.op = req[c].op /\ g.pid = req[c].pid
    BY <2>0 DEF Made
  <2>3. CASE Mint(c)
    <3>1. req[c].op = "mint" /\ Mints(journal, req[c].pid) = {}
      BY <2>1, <2>3 DEF Mint
    <3>2. \A i \in DOMAIN journal : ~(journal[i].op = "mint" /\ journal[i].pid = req[c].pid)
      BY <3>1 DEF Mints
    <3> QED
      BY <2>2, <3>1, <3>2 DEF Journalled, SameKey
  <2>4. CASE Remint(c)
    <3>1. req[c].op = "remint" /\ ~Reminted(journal, req[c].pid)
      BY <2>1, <2>4 DEF Remint, MayRemint
    <3> QED
      BY <2>2, <3>1 DEF Journalled, SameKey, Reminted
  <2> QED
    BY <2>3, <2>4
<1> QED
  BY <1>1, <1>5, <1>6, <1>7, <1>8, EffectKeepsLedger

\* An operation that checks nothing in the journal before its effect.
LEMMA DirectKeepsLedger ==
    ASSUME AppendInv, LedgerInv, UNCHANGED <<serial, minted, reminted>>, NEW c \in Caller,
           NEW entries \in Seq(Entry), TakeEffect(c, entries), pc[c] = "ready",
           req[c].op \in {"burn", "transfer", "reval"}
    PROVE  LedgerInv'
<1>1. CASE ~Apply(balances, entries).ok
  BY <1>1, ThrowKeepsLedger
<1>2. CASE Apply(balances, entries).ok
  <2>1. ASSUME serial PROVE ~Journalled(Made(c, entries))
    <3>0. PICK g : g = Made(c, entries)
      OBVIOUS
    <3>1. /\ g = Made(c, entries) /\ g.op = req[c].op /\ g.pid = req[c].pid
          /\ g.op = "burn" => g.claim = <<c, calls[c]>>
      BY <3>0 DEF Made
    <3>2. calls[c] \in Nat
      BY DEF LedgerInv, TypeInv, TypeOK
    <3>3. CASE req[c].op = "burn"
      <4>1. \A i \in DOMAIN journal :
              ~(journal[i].op = "burn" /\ journal[i].claim = <<c, calls[c]>>)
        BY <2>1, <3>2 DEF LedgerInv, SerialInv, SerialFact
      <4> QED
        BY <3>1, <3>3, <4>1 DEF Journalled, SameKey
    <3>4. CASE req[c].op \in Once
      <4>1. \A i \in DOMAIN journal : ~(journal[i].op \in Once /\ journal[i].pid = req[c].pid)
        BY <2>1, <3>4 DEF LedgerInv, SerialInv, SerialCall
      <4> QED
        BY <3>1, <3>4, <4>1 DEF Journalled, SameKey
    <3> QED
      BY <3>3, <3>4 DEF Once
  <2>2. reminted' \subseteq Process
    BY DEF LedgerInv, TypeInv, TypeOK
  <2> QED
    BY <1>2, <2>1, <2>2, EffectKeepsLedger
<1> QED
  BY <1>1, <1>2

LEMMA EffectsKeepLedger ==
    ASSUME AppendInv, LedgerInv, UNCHANGED serial, NEW c \in Caller,
           Burn(c) \/ Transfer(c) \/ Revalue(c)
    PROVE  LedgerInv'
<1>1. /\ pc[c] = "ready" /\ req[c] \in Request /\ req[c].op \in {"burn", "transfer", "reval"}
      /\ UNCHANGED <<minted, reminted>>
  BY DEF Burn, Transfer, Revalue, LedgerInv, TypeInv, CallTyped
<1>2. req[c].op # "reval" =>
        [holder |-> req[c].holder, amount |-> -req[c].amount] \in Entry
  BY <1>1, RequestIs DEF Entry
<1>3. CASE Burn(c)
  <2>1. Debit(c) \in Seq(Entry)
    BY <1>2, <1>3 DEF Burn, Debit
  <2> QED
    BY <1>1, <1>3, <2>1, DirectKeepsLedger DEF Burn
<1>4. CASE Transfer(c)
  <2>1. /\ Debit(c) \in Seq(Entry)
        /\ <<[holder |-> req[c].to, amount |-> req[c].amount]>> \in Seq(Entry)
    <3>1. req[c].to \in Holder /\ req[c].amount \in Nat
      BY <1>1, <1>4, RequestIs DEF Transfer
    <3> QED
      BY <1>2, <1>4, <3>1 DEF Transfer, Debit, Entry
  <2>2. Debit(c) \o <<[holder |-> req[c].to, amount |-> req[c].amount]>> \in Seq(Entry)
    BY <2>1
  <2> QED
    BY <1>1, <1>4, <2>2, DirectKeepsLedger DEF Transfer
<1>5. CASE Revalue(c)
  <2>1. PICK order \in Orders(balances) :
          TakeEffect(c, Allocations(balances, order, req[c].previous, req[c].new))
    BY <1>5 DEF Revalue
  <2>2. /\ balances \in [Holder -> Nat] /\ SumFunction(balances) > 0
        /\ req[c].previous \in Nat \ {0} /\ req[c].new \in Nat
    BY <1>1, <1>5, RequestIs DEF Revalue, LedgerInv, TypeInv, TypeOK
  <2>3. Allocations(balances, order, req[c].previous, req[c].new) \in Seq(Entry)
    BY <2>2, SharesAreEntries
  <2> QED
    BY <1>1, <2>1, <2>3, DirectKeepsLedger
<1> QED
  BY <1>3, <1>4, <1>5

-----------------------------------------------------------------------------
(***************************************************************************)
(* The write of a fact, a restart, and the invariant.                      *)
(***************************************************************************)
LEMMA WriteKeepsLedger ==
    ASSUME AppendInv, LedgerInv, UNCHANGED serial, NEW c \in Caller, Write(c)
    PROVE  LedgerInv'
<1>0. PICK f : f = fact[c]
  OBVIOUS
<1>1. /\ pc[c] = "tip" /\ read[c] = Len(journal) /\ Len(journal) < MaxFacts
      /\ journal' = Append(journal, f) /\ Suspend(c, "written")
      /\ UNCHANGED <<memory, req, read, found, fact, outcome, calls, faults, disturbed, shortfall, used>>
  BY <1>0 DEF Write, ghosts
<1>2. /\ DOMAIN req = Caller /\ calls \in [Caller -> 0..MaxCalls] /\ req[c] \in Request
      /\ read \in [Caller -> 0..Len(journal)] /\ pc \in [Caller -> Await]
      /\ crashes' \in 0..MaxCrashes /\ failures' \in 0..MaxFailures
      /\ WholeFact(f) /\ f.op = req[c].op /\ f.pid = req[c].pid
      /\ f.op = "burn" => f.claim = <<c, calls[c]>>
  BY <1>0, <1>1 DEF LedgerInv, TypeInv, TypeOK, CallTyped, faults
<1>3. Grows
  BY <1>1, <1>2 DEF Grows
<1>5. PICK T : (\A g \in T : WholeFact(g)) /\ journal \in Seq(T)
  BY ReadByIs DEF LedgerInv
<1>6. /\ Len(journal) \in Nat /\ DOMAIN journal = 1..Len(journal)
      /\ Len(journal') = Len(journal) + 1 /\ DOMAIN journal' = 1..(Len(journal) + 1)
      /\ \A i \in DOMAIN journal : journal'[i] = journal[i]
      /\ journal'[Len(journal) + 1] = f
  BY <1>1, <1>5
<1>7. \A d \in Caller : read[d] \in Nat /\ read[d] <= Len(journal) /\ read[d] # Len(journal')
  BY <1>2, <1>6
<1>8. read' \in [Caller -> Nat] /\ read'[c] <= Len(journal')
  BY <1>1, <1>2, <1>6, <1>7
<1>9. "written" \in Await
  BY DEF Await
<1>10. Moves(c) /\ pc'[c] = "written"
  BY <1>1, <1>2, <1>8, <1>9, SuspendMoves DEF LedgerInv
<1>11. CallTyped(c)'
  BY <1>0, <1>1, <1>2, <1>10 DEF CallTyped
<1>12. TypeInv'
  <2>1. /\ balances' \in [Holder -> Nat] /\ minted' \subseteq Process
        /\ reminted' \subseteq Process /\ hydrated' \in BOOLEAN
    BY <1>1 DEF LedgerInv, TypeInv, TypeOK, memory
  <2> QED
    BY <1>3, <1>8, <1>10, <1>11, <2>1, MovesTyped DEF LedgerInv
<1>13. hydrated /\ UNCHANGED <<balances, minted, hydrated>>
  BY <1>1 DEF LedgerInv, ProjectionInv, memory
<1>14. /\ Unjournalled(c) /\ ~Unjournalled(c)'
       /\ \A d \in Caller \ {c} : (Unjournalled(d)' <=> Unjournalled(d)) /\ fact'[d] = fact[d]
  BY <1>1, <1>10 DEF Unjournalled, Moves
<1>15. PICK n, e : n = Net(journal) /\ e = f.entries
  OBVIOUS
<1>16. n \in [Holder -> Int] /\ Net(journal') = AddFact(n, f)
  <2>1. n \in [Holder -> Int]
    BY <1>5, <1>15, ReplayIsNet
  <2>2. Net(Append(journal, f)) = AddFact(n, f)
    BY <1>5, <1>15, NetRounds
  <2> QED
    BY <1>1, <2>1, <2>2
<1>17. /\ AddFact(n, f) \in [Holder -> Int] /\ Delta(e) \in [Holder -> Int]
       /\ \A h \in Holder : AddFact(n, f)[h] = n[h] + Delta(e)[h]
  BY <1>2, <1>15, <1>16, FactAdds
<1>18. ProjectionInv'
  <2>1. \A d \in Caller : pc'[d] = "hydrate" => read'[d] # Len(journal')
    BY <1>1, <1>7
  <2>2. ASSUME ~disturbed' PROVE Projected'
    <3>1. Projected
      BY <1>1, <1>13, <2>2 DEF LedgerInv, ProjectionInv
    <3>2. Net(journal) \in [Holder -> Int] /\ Net(journal)' \in [Holder -> Int]
      BY <1>15, <1>16, <1>17
    <3>3. ASSUME NEW h \in Holder
          PROVE  balances'[h] - Net(journal')[h] - Pending(h)'[c]
                   = balances[h] - Net(journal)[h] - Pending(h)[c]
      <4>1. PICK m, d, b : m = n[h] /\ d = Delta(e)[h] /\ b = balances[h]
        OBVIOUS
      <4>2. m \in Int /\ d \in Int /\ b \in Int
        <5>1. balances \in [Holder -> Nat]
          BY DEF LedgerInv, TypeInv, TypeOK
        <5> QED
          BY <1>16, <1>17, <4>1, <5>1
      <4>3. Pending(h)[c] = d /\ Pending(h)'[c] = 0
        BY <1>0, <1>14, <1>15, <4>1 DEF Pending
      <4>4. balances'[h] = b /\ Net(journal')[h] = m + d /\ Net(journal)[h] = m
        BY <1>13, <1>15, <1>16, <1>17, <4>1
      <4>5. b - (m + d) - 0 = b - m - d
        BY <4>2
      <4> QED
        BY <4>1, <4>3, <4>4, <4>5
    <3> QED
      BY <1>10, <1>12, <3>1, <3>2, <3>3, ProjectedMoves DEF LedgerInv
  <2> QED
    BY <1>13, <2>1, <2>2 DEF ProjectionInv
<1>19. ASSUME serial PROVE SerialInv'
  <2>1. \A d \in Caller \ {c} : pc[d] = "idle" /\ pc'[d] = "idle"
    BY <1>1, <1>10, <1>19, Alone DEF LedgerInv, Moves
  <2>2. OneAtATime'
    BY <2>1 DEF OneAtATime
  <2>3. req[c].op \in Once => req[c].pid \in used
    BY <1>1, <1>19 DEF LedgerInv, SerialInv, SerialCall
  <2>4. ASSUME NEW d \in Caller PROVE SerialCall(d)'
    BY <1>1, <1>10, <2>1, <2>3 DEF SerialCall
  <2>5. ASSUME NEW i \in DOMAIN journal' PROVE SerialFact(journal[i])'
    <3>1. \A d \in Caller : pc[d] \in {"idle", "written"} => pc'[d] \in {"idle", "written"}
      BY <1>1, <2>1
    <3>2. CASE i \in DOMAIN journal
      <4>1. SerialFact(journal[i])
        BY <1>19, <3>2 DEF LedgerInv, SerialInv
      <4> QED
        BY <1>1, <1>6, <3>1, <3>2, <4>1 DEF SerialFact
    <3>3. CASE i = Len(journal) + 1
      <4>1. journal'[i] = f
        BY <1>6, <3>3
      <4>2. f.op \in Once => f.pid \in used
        BY <1>2, <2>3
      <4>3. \A d \in Caller, k \in Nat : f.op = "burn" /\ f.claim = <<d, k>> => d = c /\ k = calls[c]
        BY <1>2
      <4>4. calls[c] \in Nat
        BY <1>2
      <4>5. \A d \in Caller, k \in Nat : f.op = "burn" /\ f.claim = <<d, k>> =>
              k <= calls[d] /\ (k = calls[d] => pc'[d] \in {"idle", "written"})
        BY <1>10, <4>3, <4>4
      <4> QED
        BY <1>1, <4>1, <4>2, <4>5 DEF SerialFact
    <3> QED
      BY <1>6, <3>2, <3>3
  <2>6. \A d \in Caller : ~Unjournalled(d)'
    BY <1>14, <2>1 DEF Unjournalled
  <2>7. ASSUME failures' = 0, ~shortfall' PROVE CleanInv'
    <3>1. PICK r : r = Replay(journal)
      OBVIOUS
    <3>2. r.ok /\ Apply(r.balances, e) = [balances |-> balances, ok |-> TRUE]
      BY <1>0, <1>1, <1>14, <1>15, <1>19, <2>7, <3>1 DEF LedgerInv, SerialInv, CleanInv, faults
    <3>3. r \in Replayed
      BY <1>5, <3>1, ReplayIsNet
    <3>4. PICK r2 : r2 = ReplayFact(r, f)
      OBVIOUS
    <3>5. r2.ok /\ r2.balances = balances
      <4>1. Apply(r.balances, f.entries).ok /\ Apply(r.balances, f.entries).balances = balances
        BY <1>15, <3>2
      <4> QED
        BY <1>2, <3>2, <3>3, <3>4, <4>1, ReplayFactIs
    <3>6. Replay(journal') = r2
      BY <1>1, <1>5, <3>1, <3>4, ReplayRounds
    <3> QED
      BY <1>13, <2>6, <3>5, <3>6 DEF CleanInv
  <2>8. ASSUME failures' = 0, NEW p \in minted' PROVE Mints(journal', p) # {}
    <3>1. p \in minted /\ MintedInv
      BY <1>1, <1>13, <1>19, <2>8 DEF LedgerInv, SerialInv, faults
    <3>2. CASE Mints(journal, p) # {}
      <4>1. PICK i \in DOMAIN journal : journal[i].op \in {"mint", "remint"} /\ journal[i].pid = p
        BY <3>2 DEF Mints
      <4>2. i \in DOMAIN journal' /\ journal'[i] = journal[i]
        BY <1>6, <4>1
      <4> QED
        BY <4>1, <4>2 DEF Mints
    <3>3. CASE f.op = "mint" /\ f.pid = p
      <4>1. Len(journal) + 1 \in DOMAIN journal'
        BY <1>6
      <4> QED
        BY <1>6, <3>3, <4>1 DEF Mints
    <3>4. \A d \in Caller : Unjournalled(d) => d = c
      BY <2>1 DEF Unjournalled
    <3> QED
      BY <1>0, <3>1, <3>2, <3>3, <3>4 DEF MintedInv
  <2>9. failures' = 0 => MintedInv'
    BY <2>8 DEF MintedInv
  <2> QED
    BY <1>19, <2>2, <2>4, <2>5, <2>7, <2>9 DEF SerialInv
<1>20. SerialInv'
  BY <1>19 DEF SerialInv
<1> QED
  BY <1>12, <1>18, <1>20 DEF LedgerInv

LEMMA CrashKeepsLedger ==
    ASSUME AppendInv, LedgerInv, UNCHANGED serial, Crash
    PROVE  LedgerInv'
<1>1. /\ crashes < MaxCrashes /\ crashes' = crashes + 1
      /\ balances' = Nothing /\ minted' = {} /\ reminted' = {} /\ hydrated' = FALSE
      /\ pc' = [c \in Caller |-> "idle"] /\ req' = [c \in Caller |-> NoRequest]
      /\ read' = [c \in Caller |-> 0] /\ found' = [c \in Caller |-> FALSE]
      /\ fact' = [c \in Caller |-> NoFact] /\ outcome' = [c \in Caller |-> "none"]
      /\ UNCHANGED <<journal, calls, failures, used, shortfall>>
  BY DEF Crash
<1>2. /\ crashes' \in 0..MaxCrashes /\ Len(journal) \in Nat
  <2>1. crashes \in Nat /\ MaxCrashes \in Nat
    BY LedgerAssumption DEF LedgerInv, TypeInv, TypeOK
  <2> QED
    BY <1>1, <2>1, GrowsIs DEF LedgerInv, Grows
<1>3. TypeInv'
  <2>1. Nothing \in [Holder -> Nat] /\ "idle" \in Await
    BY DEF Nothing, Await
  <2>2. \A c \in Caller : CallTyped(c)'
    BY <1>1 DEF CallTyped
  <2>3. read' \in [Caller -> 0..Len(journal')]
    BY <1>1, <1>2
  <2> QED
    BY <1>1, <1>2, <2>1, <2>2, <2>3 DEF LedgerInv, TypeInv, TypeOK
<1>4. ProjectionInv'
  BY <1>1 DEF ProjectionInv
<1>5. ASSUME serial PROVE SerialInv'
  <2>1. OneAtATime' /\ \A c \in Caller : SerialCall(c)'
    BY <1>1 DEF OneAtATime, SerialCall
  <2>2. \A i \in DOMAIN journal' : SerialFact(journal[i])'
    BY <1>1, <1>5 DEF LedgerInv, SerialInv, SerialFact
  <2>3. \A c \in Caller : ~Unjournalled(c)'
    BY <1>1 DEF Unjournalled
  <2>4. failures' = 0 /\ ~shortfall' => CleanInv'
    BY <1>1, <1>5, <2>3 DEF LedgerInv, SerialInv, CleanInv
  <2>5. MintedInv'
    BY <1>1 DEF MintedInv
  <2> QED
    BY <1>5, <2>1, <2>2, <2>4, <2>5 DEF SerialInv
<1>6. SerialInv'
  BY <1>5 DEF SerialInv
<1> QED
  BY <1>3, <1>4, <1>6 DEF LedgerInv

LEMMA StutterKeepsLedger ==
    ASSUME LedgerInv, UNCHANGED vars
    PROVE  LedgerInv'
<1>1. UNCHANGED <<serial, balances, minted, reminted, hydrated, journal, pc, req, read, found, fact,
                  outcome, calls, crashes, failures, used, disturbed, shortfall>>
  BY DEF vars, memory, locals, faults, ghosts
<1>2. TypeInv'
  BY <1>1 DEF LedgerInv, TypeInv, TypeOK, CallTyped
<1>3. \A c \in Caller : (Unjournalled(c)' <=> Unjournalled(c))
  BY <1>1 DEF Unjournalled
<1>4. \A h : Pending(h)' = Pending(h)
  BY <1>1, <1>3 DEF Pending
<1>5. ProjectionInv'
  BY <1>1, <1>4 DEF LedgerInv, ProjectionInv, Projected
<1>6. SerialInv'
  <2>1. OneAtATime' <=> OneAtATime
    BY <1>1 DEF OneAtATime
  <2>2. \A c : SerialCall(c)' <=> SerialCall(c)
    BY <1>1 DEF SerialCall
  <2>3. \A f : SerialFact(f)' <=> SerialFact(f)
    BY <1>1 DEF SerialFact
  <2>4. (CleanInv' <=> CleanInv) /\ (MintedInv' <=> MintedInv)
    BY <1>1, <1>3 DEF CleanInv, MintedInv
  <2>5. \A i \in DOMAIN journal : SerialFact(journal[i])' <=> SerialFact(journal[i])
    BY <1>1, <2>3 DEF SerialFact
  <2> QED
    BY <1>1, <2>1, <2>2, <2>4, <2>5 DEF LedgerInv, SerialInv
<1> QED
  BY <1>2, <1>5, <1>6 DEF LedgerInv

LEMMA InitLedger ==
    ASSUME Init
    PROVE  LedgerInv
<1> USE DEF Init
<1>1. TypeInv
  <2>1. Nothing \in [Holder -> Nat] /\ "idle" \in Await
    BY DEF Nothing, Await
  <2>2. Len(journal) = 0 /\ DOMAIN journal = {}
    OBVIOUS
  <2>3. /\ MaxCalls \in Nat /\ MaxFacts \in Nat /\ MaxCrashes \in Nat /\ MaxFailures \in Nat
    BY LedgerAssumption
  <2>4. /\ read \in [Caller -> 0..Len(journal)] /\ calls \in [Caller -> 0..MaxCalls]
        /\ crashes \in 0..MaxCrashes /\ failures \in 0..MaxFailures /\ Len(journal) <= MaxFacts
    BY <2>2, <2>3
  <2>5. TypeOK
    BY <2>1, <2>2, <2>4 DEF TypeOK
  <2>6. \A c \in Caller : CallTyped(c)
    BY DEF CallTyped
  <2> QED
    BY <2>2, <2>5, <2>6 DEF TypeInv
<1>2. ProjectionInv
  BY DEF ProjectionInv
<1>3. SerialInv
  <2>1. Replay(journal) = Fresh /\ Fresh.ok
    BY ReplayRounds DEF Fresh
  <2>2. CleanInv
    BY <2>1 DEF CleanInv, Unjournalled
  <2> QED
    BY <2>2 DEF SerialInv, OneAtATime, SerialCall, SerialFact, MintedInv
<1> QED
  BY <1>1, <1>2, <1>3 DEF LedgerInv
-----------------------------------------------------------------------------
\* LedgerInv is an invariant of the token ledger, beside AppendInv.
THEOREM LedgerInvariance == Spec => []LedgerInv
<1>1. Init => LedgerInv
  BY InitLedger
<1>2. AppendInv /\ LedgerInv /\ [Next]_vars => LedgerInv'
  <2> SUFFICES ASSUME AppendInv, LedgerInv, [Next]_vars
               PROVE  LedgerInv'
    OBVIOUS
  <2>1. CASE UNCHANGED vars
    BY <2>1, StutterKeepsLedger
  <2>2. CASE Crash /\ UNCHANGED serial
    BY <2>2, CrashKeepsLedger
  <2>3. ASSUME UNCHANGED serial, NEW c \in Caller,
               \/ Call(c) \/ PassGate(c) \/ Hydrate(c)
               \/ MintCheck(c) \/ Mint(c) \/ MintRefused(c)
               \/ RemintCheck(c) \/ Remint(c) \/ RemintRefused(c)
               \/ Burn(c) \/ Transfer(c) \/ Revalue(c) \/ RevalueRefused(c)
               \/ AnswerExisting(c) \/ ReadTip(c) \/ Write(c) \/ WriteRefused(c)
               \/ AppendFails(c) \/ Answer(c)
        PROVE  LedgerInv'
    BY <2>3, CallKeepsLedger, PassGateKeepsLedger, HydrateKeepsLedger, ChecksKeepLedger,
       MintKeepsLedger, EffectsKeepLedger, DropsKeepLedger, AnswerKeepsLedger,
       ReadTipKeepsLedger, WriteKeepsLedger
  <2> QED
    BY <2>1, <2>2, <2>3 DEF Next, Step
<1> QED
  BY <1>1, <1>2, AppendInvariance, PTL DEF Spec

\* The ledger is its journal (token.service.ts 8-9): at rest the balances in memory are the
\* journal's net amounts unless something came apart, what was reported done is journalled,
\* and of operations one at a time a restart rebuilds the balances it lost.
THEOREM LedgerFollows == Spec => []LedgerFollowsJournal
<1>1. AppendInv /\ LedgerInv => LedgerFollowsJournal
  <2> SUFFICES ASSUME AppendInv, LedgerInv PROVE LedgerFollowsJournal
    OBVIOUS
  <2>1. TypeOK
    BY DEF LedgerInv, TypeInv
  <2>2. ReplaySucceeds
    BY DEF ReplaySucceeds, LedgerInv, SerialInv, CleanInv
  <2>3. MemoryIsReplay
    BY DEF MemoryIsReplay, AtRest, LedgerInv, SerialInv, CleanInv, Unjournalled
  <2>4. ProjectionUnlessDisturbed
    <3> SUFFICES ASSUME AtRest, hydrated, ~disturbed PROVE balances = Net(journal)
      BY DEF ProjectionUnlessDisturbed
    <3>1. \A c \in Caller : ~Unjournalled(c)
      BY DEF AtRest, Unjournalled
    <3>2. Projected /\ balances \in [Holder -> Nat]
      BY DEF LedgerInv, ProjectionInv, TypeInv, TypeOK
    <3>3. PICK n : n = Net(journal)
      OBVIOUS
    <3>4. n \in [Holder -> Int]
      <4>1. \E S : (\A f \in S : WholeFact(f)) /\ journal \in Seq(S)
        <5>1. journal \in Seq(ToSet(journal))
          BY DEF AppendInv
        <5>2. \A f \in ToSet(journal) : WholeFact(f)
          BY DEF LedgerInv, TypeInv, ToSet
        <5> QED
          BY <5>1, <5>2
      <4> QED
        BY <3>3, <4>1, ReplayIsNet
    <3>5. \A h \in Holder : balances[h] = n[h] + 0
      BY <3>1, <3>2, <3>3, NothingPending DEF Projected
    <3>6. \A h \in Holder : balances[h] = n[h]
      BY <3>4, <3>5
    <3> QED
      BY <3>2, <3>3, <3>4, <3>6
  <2>5. ToldIsJournalled
    BY DEF AppendInv
  <2> QED
    BY <2>1, <2>2, <2>3, <2>4, <2>5 DEF LedgerFollowsJournal
<1> QED
  BY <1>1, AppendInvariance, LedgerInvariance, PTL

\* Of operations one at a time, none of whose appends failed, a mint refused as a double mint
\* (token.service.ts 148-154) has its mint in the journal: neither the set in memory nor the
\* read claims a mint that was never recorded.
THEOREM RefusalsAreTrue == Spec => RefusedMintIsJournalled
<1>1. AppendInv /\ LedgerInv /\ [Next]_vars =>
        [\A c \in Caller :
           serial /\ failures = 0 /\ outcome'[c] = "DOUBLE_MINT" /\ pc[c] # "idle" /\ pc'[c] = "idle"
           => Mints(journal, req[c].pid) # {}]_vars
  <2> SUFFICES ASSUME AppendInv, LedgerInv, Step, NEW c \in Caller,
                      serial, failures = 0, outcome'[c] = "DOUBLE_MINT",
                      pc[c] # "idle", pc'[c] = "idle"
               PROVE  Mints(journal, req[c].pid) # {}
    BY DEF Next
  <2>1. CASE MintRefused(c)
    <3>1. PICK i \in DOMAIN ReadBy(c) :
            ReadBy(c)[i].op \in {"mint", "remint"} /\ ReadBy(c)[i].pid = req[c].pid
      BY <2>1 DEF MintRefused, Mints
    <3>2. i \in DOMAIN journal /\ ReadBy(c)[i] = journal[i]
      BY <3>1, ReadByIs DEF LedgerInv
    <3> QED
      BY <3>1, <3>2 DEF Mints
  <2>2. CASE MintCheck(c)
    <3>1. pc[c] = "ready" /\ req[c].pid \in minted
      BY <2>2 DEF MintCheck, Suspend, LedgerInv, TypeInv, TypeOK
    <3>2. MintedInv /\ OneAtATime
      BY DEF LedgerInv, SerialInv
    <3>3. \A d \in Caller : ~Unjournalled(d)
      BY <3>1, <3>2 DEF OneAtATime, Unjournalled
    <3> QED
      BY <3>1, <3>2, <3>3 DEF MintedInv
  <2>3. CASE Crash
    BY <2>3 DEF Crash
  <2>4. ASSUME NEW d \in Caller, d # c,
               \/ Call(d) \/ PassGate(d) \/ Hydrate(d)
               \/ MintCheck(d) \/ Mint(d) \/ MintRefused(d)
               \/ RemintCheck(d) \/ Remint(d) \/ RemintRefused(d)
               \/ Burn(d) \/ Transfer(d) \/ Revalue(d) \/ RevalueRefused(d)
               \/ AnswerExisting(d) \/ ReadTip(d) \/ Write(d) \/ WriteRefused(d)
               \/ AppendFails(d) \/ Answer(d)
        PROVE  FALSE
    <3>1. pc[d] = "idle"
      BY <2>4, Alone DEF LedgerInv
    <3>2. Call(d)
      BY <2>4, <3>1 DEF PassGate, Hydrate, MintCheck, Mint, MintRefused, RemintCheck, Remint,
         RemintRefused, Burn, Transfer, Revalue, RevalueRefused, AnswerExisting, ReadTip, Write,
         WriteRefused, AppendFails, Answer, Unjournalled
    <3> QED
      BY <3>2 DEF Call
  <2>5. ASSUME \/ Call(c) \/ PassGate(c) \/ Hydrate(c) \/ Mint(c) \/ RemintCheck(c) \/ Remint(c)
               \/ RemintRefused(c) \/ Burn(c) \/ Transfer(c) \/ Revalue(c) \/ RevalueRefused(c)
               \/ AnswerExisting(c) \/ ReadTip(c) \/ Write(c) \/ WriteRefused(c)
               \/ AppendFails(c) \/ Answer(c)
        PROVE  FALSE
    <3>1. pc \in [Caller -> Await] /\ DOMAIN outcome = Caller
      BY DEF LedgerInv, TypeInv, TypeOK
    <3>2. \A result : Finish(c, result) => result = "DOUBLE_MINT"
      BY <3>1 DEF Finish
    <3>3. \A where : Suspend(c, where) => where = "idle"
      BY <3>1 DEF Suspend
    <3>4. CASE Call(c)
      BY <3>4, Alone DEF Call, CallMint, CallDirect
    <3>5. CASE PassGate(c) \/ Hydrate(c) \/ RemintCheck(c)
      BY <3>2, <3>3, <3>5 DEF PassGate, Hydrate, RemintCheck, AwaitHydration
    <3>6. CASE Mint(c) \/ Remint(c) \/ Burn(c) \/ Transfer(c) \/ Revalue(c)
      <4>1. PICK entries : TakeEffect(c, entries)
        BY <3>6 DEF Mint, Remint, Burn, Transfer, Revalue
      <4>2. Suspend(c, "lookup") \/ Finish(c, "INSUFFICIENT")
        BY <4>1 DEF TakeEffect
      <4> QED
        BY <3>2, <3>3, <4>2
    <3>7. CASE RemintRefused(c) \/ RevalueRefused(c) \/ AnswerExisting(c) \/ Answer(c)
      BY <3>2, <3>7 DEF RemintRefused, RevalueRefused, AnswerExisting, Answer
    <3>8. CASE ReadTip(c) \/ Write(c)
      BY <3>3, <3>8 DEF ReadTip, Write
    <3>9. CASE WriteRefused(c) \/ AppendFails(c)
      BY <3>2, <3>9 DEF WriteRefused, AppendFails, AppendThrows
    <3> QED
      BY <2>5, <3>4, <3>5, <3>6, <3>7, <3>8, <3>9
  <2> QED
    BY <2>1, <2>2, <2>3, <2>4, <2>5 DEF Step
<1> QED
  BY <1>1, AppendInvariance, LedgerInvariance, PTL DEF Spec, RefusedMintIsJournalled
=============================================================================
