--------------------------- MODULE PotVerdictProofs ---------------------------
(***************************************************************************)
(* VerdictIsSound and MintRestsOnVerdict for any validators, callers and   *)
(* bounds.                                                                 *)
(*                                                                         *)
(* VerdictInv (module PotVerdict) is inductive.  A step leaves the journal *)
(* alone or appends one record; what VerdictInv says of calls survives     *)
(* both (StillSound), what it says of records only needs a look at the     *)
(* record appended (Grown).                                                *)
(***************************************************************************)
EXTENDS PotVerdict, FiniteSetTheorems, TLAPS

Loop == INSTANCE SequenceFolds WITH op <- CountChallenge

\* The loop of hasOpenChallenge, round by round.
LEMMA CountingRounds ==
    ASSUME NEW s \in Seq(Entry)
    PROVE  /\ OpenChallenges(<<>>) = 0
           /\ \A r \in Entry : OpenChallenges(Append(s, r)) = CountChallenge(OpenChallenges(s), r)
<1>1. \A q : OpenChallenges(q) = Loop!Fold(0, q)
  BY DEF OpenChallenges, Loop!Fold, FoldLeft, Loop!FoldLeft, MapThenFoldSet,
         Loop!MapThenFoldSet, Max, Loop!Max
<1> QED
  BY <1>1, Loop!FoldEmpty, Loop!FoldAppend

\* Two thirds of the eligible, rounded up, are two thirds.
LEMMA QuorumIsTwoThirds ==
    ASSUME NEW c, QuorumOk(c), IsFiniteSet(c.signers), IsFiniteSet(c.eligible)
    PROVE  /\ Cardinality(c.eligible) >= KMin
           /\ 3 * Cardinality(c.signers) >= 2 * Cardinality(c.eligible)
<1> DEFINE k == Cardinality(c.eligible)
           n == Cardinality(c.signers)
<1>1. k \in Nat /\ n \in Nat
  BY FS_CardinalityType
<1>2. k >= KMin /\ n >= (2 * k + 2) \div 3
  BY DEF QuorumOk, Quorum
<1> HIDE DEF k, n
<1>3. 3 * n >= 2 * k
  BY <1>1, <1>2
<1> QED
  BY <1>2, <1>3 DEF k, n

\* What one record more does to the journal.
LEMMA Grown ==
    ASSUME NEW s \in Seq(Entry), journal = s, NEW r \in Entry, journal' = Append(s, r)
    PROVE  /\ journal' \in Seq(Entry) /\ Len(journal) \in Nat /\ Len(journal)' = Len(journal) + 1
           /\ Height = 1 .. Len(journal) /\ Height' = 1 .. Len(journal) + 1
           /\ \A h \in Height : journal'[h] = journal[h]
           /\ journal'[Len(journal) + 1] = r
           /\ \A kind : Has(kind)' <=> Has(kind) \/ r.kind = kind
<1>1. /\ journal' \in Seq(Entry) /\ Len(s) \in Nat /\ Len(journal') = Len(s) + 1
      /\ \A h \in 1 .. Len(s) : journal'[h] = s[h]
      /\ journal'[Len(s) + 1] = r
  OBVIOUS
<1>2. Height = 1 .. Len(journal) /\ Height' = 1 .. Len(journal) + 1
  BY <1>1 DEF Height
<1>3. \A kind : Has(kind)' <=> Has(kind) \/ r.kind = kind
  BY <1>1, <1>2 DEF Has
<1> QED
  BY <1>1, <1>2, <1>3

\* A challenge that was answered stays answered, whatever is appended.
LEMMA AnsweredStays ==
    ASSUME NEW s \in Seq(Entry), journal = s, NEW r \in Entry, journal' = Append(s, r),
           NEW t \in Nat, t <= Len(journal), Answered(t)
    PROVE  Answered(t)'
<1> SUFFICES ASSUME NEW c \in 1 .. t, journal'[c].kind = "challenge"
             PROVE  \E k \in c + 1 .. Len(journal') : journal'[k].kind = "close"
  BY DEF Answered
<1>1. PICK k \in c + 1 .. Len(journal) : journal[k].kind = "close"
  BY Grown DEF Answered
<1>2. k \in c + 1 .. Len(journal') /\ journal'[k] = journal[k]
  BY Grown
<1> QED
  BY <1>1, <1>2

LEMMA CountStaysTrue ==
    ASSUME NEW s \in Seq(Entry), journal = s, NEW r \in Entry, journal' = Append(s, r),
           CountIsTrue
    PROVE  CountIsTrue'
<1> DEFINE n == OpenChallenges(journal)
           m == OpenChallenges(journal)'
<1>1. n \in Nat /\ m = CountChallenge(n, r)
  BY CountingRounds DEF CountIsTrue
<1>2. m \in Nat /\ (m = 0 => r.kind = "close" \/ (n = 0 /\ r.kind # "challenge"))
  BY <1>1 DEF CountChallenge
<1> HIDE DEF n, m
<1>3. ASSUME m = 0, NEW c \in 1 .. Len(journal) + 1, journal'[c].kind = "challenge"
      PROVE  \E k \in c + 1 .. Len(journal) + 1 : journal'[k].kind = "close"
  <2>1. c # Len(journal) + 1 /\ c \in Height
    BY <1>2, <1>3, Grown
  <2>2. CASE r.kind = "close"
    <3>1. Len(journal) + 1 \in c + 1 .. Len(journal) + 1
      BY <2>1, Grown
    <3> QED
      BY <2>2, <3>1, Grown
  <2>3. CASE n = 0
    <3>1. journal[c].kind = "challenge" /\ c \in 1 .. Len(journal)
      BY <1>3, <2>1, Grown
    <3>2. PICK k \in c + 1 .. Len(journal) : journal[k].kind = "close"
      BY <2>3, <3>1 DEF CountIsTrue, Answered, n
    <3>3. k \in c + 1 .. Len(journal) + 1 /\ journal'[k] = journal[k]
      BY <3>2, Grown
    <3> QED
      BY <3>2, <3>3
  <2> QED
    BY <1>2, <1>3, <2>2, <2>3
<1>4. m = 0 => Answered(Len(journal))'
  BY <1>3, Grown DEF Answered
<1> QED
  BY <1>2, <1>4 DEF CountIsTrue, m
-----------------------------------------------------------------------------
(***************************************************************************)
(* What a step may do to the journal.                                      *)
(***************************************************************************)
\* A record without a verdict's fields is an entry.
LEMMA PlainEntry ==
    ASSUME NEW kind \in Kind \ {"verdict"}
    PROVE  Plain(kind) \in Entry /\ Plain(kind).kind = kind
  BY DEF Plain, Entry

LEMMA RecordEntry ==
    ASSUME NEW c \in Calls
    PROVE  Record(c) \in Entry /\ Record(c).kind = "verdict"
  BY DEF Record, Calls, Entry

\* Only WriteVerdict appends a verdict, and only what okToEmit found backed is minted.
LEMMA StepAppends ==
    ASSUME TypeOK, [Next]_vars
    PROVE  /\ UNCHANGED sound /\ (raced => raced')
           /\ \/ UNCHANGED journal
              \/ \E r \in Entry :
                   /\ journal' = Append(journal, r)
                   /\ r.kind = "verdict" => \E v \in Caller : WriteVerdict(v) /\ r = Record(call[v])
                   /\ r.kind = "mint" => OkToEmit
<1> DEFINE Grows(r) ==
             /\ r \in Entry /\ journal' = Append(journal, r)
             /\ r.kind = "verdict" => \E v \in Caller : WriteVerdict(v) /\ r = Record(call[v])
             /\ r.kind = "mint" => OkToEmit
<1>1. \A kind \in Kind \ {"verdict", "mint"} : AppendOnce(Plain(kind)) \/ AppendFresh(Plain(kind))
        => UNCHANGED journal \/ Grows(Plain(kind))
  BY PlainEntry DEF AppendOnce, AppendFresh
<1>2. {"evidence", "pot_done", "abort", "challenge", "close"} \subseteq Kind \ {"verdict", "mint"}
  BY DEF Kind
<1> HIDE DEF Grows
<1>3. CASE UNCHANGED vars
  BY <1>3 DEF vars, books
<1>4. ASSUME NEW v \in Caller,
             \/ ReadHistory(v) \/ BuildEvidence(v) \/ ReadChallenges(v)
             \/ LookUpVerdict(v) \/ AppendFails(v) \/ Continue(v)
      PROVE  UNCHANGED <<journal, sound>> /\ (raced => raced')
  <2>1. UNCHANGED books
    BY <1>4 DEF ReadHistory, BuildEvidence, ReadChallenges, LookUpVerdict, AppendFails, Continue
  <2>2. raced => raced'
    <3>1. CASE LookUpVerdict(v)
      BY <3>1, Zenon DEF LookUpVerdict
    <3>2. CASE UNCHANGED raced
      BY <3>2
    <3> QED
      BY <1>4, <3>1, <3>2 DEF ReadHistory, BuildEvidence, ReadChallenges, AppendFails, Continue
  <2> QED
    BY <2>1, <2>2 DEF books
<1>5. ASSUME NEW v \in Caller, WriteEvidence(v) \/ Rejected(v) \/ MarkPotDone(v)
      PROVE  UNCHANGED <<sound, raced>> /\ (UNCHANGED journal \/ \E r \in Entry : Grows(r))
  <2>1. UNCHANGED <<sound, raced>>
    BY <1>5 DEF WriteEvidence, Rejected, MarkPotDone
  <2>2. \/ UNCHANGED journal
        \/ \E kind \in {"evidence", "pot_done", "abort"} :
             AppendOnce(Plain(kind)) \/ AppendFresh(Plain(kind))
    BY <1>5 DEF WriteEvidence, Rejected, MarkPotDone
  <2> QED
    BY <1>1, <1>2, <2>1, <2>2 DEF Grows
<1>6. ASSUME NEW v \in Caller, WriteVerdict(v)
      PROVE  UNCHANGED <<sound, raced>> /\ Grows(Record(call[v]))
  <2>1. call[v] \in Calls
    BY DEF TypeOK
  <2> QED
    BY <1>6, <2>1, RecordEntry DEF WriteVerdict, AppendFresh, Grows
<1>7. ASSUME NEW v \in Caller, GatedMint(v)
      PROVE  UNCHANGED <<sound, raced>> /\ (UNCHANGED journal \/ Grows(Plain("mint")))
  <2>1. "mint" \in Kind \ {"verdict"}
    BY DEF Kind
  <2> QED
    BY <1>7, <2>1, PlainEntry DEF GatedMint, AppendOnce, Grows
<1>8. ASSUME \/ OpenChallenge \/ Restart
             \/ \E c \in Closer : SeeChallenge(c) \/ CloseChallenge(c)
             \/ \E n \in Suspendable : Suspend(n) \/ Restore(n)
      PROVE  UNCHANGED <<sound, raced>> /\ (UNCHANGED journal \/ \E r \in Entry : Grows(r))
  <2>1. UNCHANGED <<sound, raced>>
    BY <1>8 DEF OpenChallenge, Restart, SeeChallenge, CloseChallenge, Suspend, Restore, books
  <2>2. \/ UNCHANGED journal
        \/ \E kind \in {"challenge", "close"} : AppendFresh(Plain(kind))
    BY <1>8 DEF OpenChallenge, Restart, SeeChallenge, CloseChallenge, Suspend, Restore, books
  <2> QED
    BY <1>1, <1>2, <2>1, <2>2 DEF Grows
<1>9. Resume \subseteq Caller
  BY DEF Caller
<1>10. UNCHANGED sound /\ (raced => raced') /\ (UNCHANGED journal \/ \E r \in Entry : Grows(r))
  BY <1>3, <1>4, <1>5, <1>6, <1>7, <1>8, <1>9 DEF Next, CallStep, Grows
<1> QED
  BY <1>10 DEF Grows
-----------------------------------------------------------------------------
(***************************************************************************)
(* The types.                                                              *)
(***************************************************************************)
LEMMA TypesKept == TypeOK /\ [Next]_vars => TypeOK'
<1> SUFFICES ASSUME TypeOK, [Next]_vars PROVE TypeOK'
  OBVIOUS
<1> DEFINE Await == {"idle", "history", "build", "challenge", "evidence", "verdict", "verdict+",
                     "told", "gate", "over"}
<1>1. journal' \in Seq(Entry) /\ UNCHANGED sound /\ Len(journal) \in Nat
  <2>1. journal \in Seq(Entry)
    BY DEF TypeOK
  <2>2. ASSUME NEW r \in Entry, journal' = Append(journal, r) PROVE journal' \in Seq(Entry)
    BY <2>1, <2>2
  <2> QED
    BY <2>1, <2>2, StepAppends
<1>2. NoCall \in Calls /\ \A ok \in BOOLEAN : /\ [NoCall EXCEPT !.ok = ok] \in Calls
                                             /\ [NoCall EXCEPT !.ok = ok, !.since = 1] \in Calls
  BY DEF NoCall, Calls
<1>3. Registered \in [Node -> {"none", "active", "suspended"}]
  BY DEF TypeOK, Registered
<1>4. sound' \in BOOLEAN
  BY <1>1 DEF TypeOK
<1>5. ASSUME NEW v \in Caller, NEW l \in Await, Goto(v, l) PROVE pc' \in [Caller -> Await]
  BY <1>5 DEF Goto, TypeOK
<1>6. ASSUME NEW v \in Caller, NEW c \in Calls, Reads(v, c) \/ call' = [call EXCEPT ![v] = c]
      PROVE  call' \in [Caller -> Calls]
  BY <1>6 DEF Reads, TypeOK
<1>7. ASSUME NEW v \in Caller, Leave(v)
      PROVE  pc' \in [Caller -> Await] /\ call' \in [Caller -> Calls]
  <2>1. Over(v) \in Await
    BY DEF Over
  <2> QED
    BY <1>2, <1>5, <1>6, <1>7, <2>1 DEF Leave
<1>8. ASSUME pc' \in [Caller -> Await], call' \in [Caller -> Calls],
             registry' \in [Node -> {"none", "active", "suspended"}],
             stage' \in {"none", "awaiting_pot", "pot_done", "aborted"},
             closing' \subseteq Closer, suspensions' \in 0 .. MaxSuspensions,
             faults' \in 0 .. MaxFaults, raced' \in BOOLEAN
      PROVE  TypeOK'
  BY <1>1, <1>4, <1>8 DEF TypeOK
<1>9. CASE UNCHANGED vars
  BY <1>1, <1>8, <1>9 DEF vars, books, memory, calls, budget, TypeOK
<1>10. ASSUME NEW v \in Caller, ReadHistory(v) PROVE TypeOK'
  <2>1. call[v] \in Calls /\ Eligible(Registered) \in SUBSET Node
    BY DEF TypeOK, Eligible
  <2>2. \A confirmers : ValidSigners(confirmers, Eligible(Registered)) \in SUBSET Node
    BY <2>1 DEF ValidSigners
  <2>3. registry' \in [Node -> {"none", "active", "suspended"}]
    BY <1>3, <1>10 DEF ReadHistory, TypeOK
  <2>4. pc' \in [Caller -> Await] /\ call' \in [Caller -> Calls]
    <3>1. CASE Leave(v)
      BY <1>7, <3>1
    <3>2. ASSUME NEW confirmers, Goto(v, "build"),
                 Reads(v, [call[v] EXCEPT !.eligible = Eligible(Registered), !.since = Len(journal),
                              !.signers = ValidSigners(confirmers, Eligible(Registered))])
          PROVE  pc' \in [Caller -> Await] /\ call' \in [Caller -> Calls]
      <4> DEFINE c == [call[v] EXCEPT !.eligible = Eligible(Registered), !.since = Len(journal),
                              !.signers = ValidSigners(confirmers, Eligible(Registered))]
      <4>1. c \in Calls
        BY <1>1, <2>1, <2>2 DEF Calls
      <4> HIDE DEF c
      <4>2. Reads(v, c)
        BY <3>2 DEF c
      <4> QED
        BY <1>5, <1>6, <3>2, <4>1, <4>2
    <3> QED
      BY <1>10, <3>1, <3>2 DEF ReadHistory
  <2> QED
    BY <1>8, <1>10, <2>3, <2>4 DEF ReadHistory, budget, TypeOK
<1>11. ASSUME NEW v \in Caller, BuildEvidence(v) PROVE TypeOK'
  <2>1. [call[v] EXCEPT !.tip = Len(journal)] \in Calls
    BY <1>1 DEF TypeOK, Calls
  <2> QED
    BY <1>5, <1>6, <1>8, <1>11, <2>1 DEF BuildEvidence, memory, budget, TypeOK
<1>12. ASSUME NEW v \in Caller, ReadChallenges(v) PROVE TypeOK'
  <2>1. \A ok : Decide(v, ok) => call' \in [Caller -> Calls]
    <3>1. [call[v] EXCEPT !.ok = TRUE, !.since = 1] \in Calls
      BY DEF TypeOK, Calls
    <3> QED
      BY <1>2, <1>6, <3>1 DEF Decide
  <2> QED
    BY <1>5, <1>8, <1>12, <2>1 DEF ReadChallenges, memory, budget, TypeOK
<1>13. ASSUME NEW v \in Caller, WriteEvidence(v) PROVE TypeOK'
  BY <1>5, <1>8, <1>13 DEF WriteEvidence, memory, budget, TypeOK
<1>14. ASSUME NEW v \in Caller, LookUpVerdict(v) \/ WriteVerdict(v) PROVE TypeOK'
  <2>1. call[v].ok \in BOOLEAN
    BY DEF TypeOK, Calls
  <2>2. Told(v, call[v].ok) => pc' \in [Caller -> Await] /\ call' \in [Caller -> Calls]
    BY <1>2, <1>5, <1>6, <2>1 DEF Told
  <2>3. pc' \in [Caller -> Await] /\ call' \in [Caller -> Calls]
    BY <1>5, <1>14, <2>2 DEF LookUpVerdict, WriteVerdict, TypeOK
  <2>4. raced' \in BOOLEAN
    BY <1>14 DEF LookUpVerdict, WriteVerdict, TypeOK
  <2> QED
    BY <1>8, <1>14, <2>3, <2>4 DEF LookUpVerdict, WriteVerdict, memory, budget, TypeOK
<1>15. ASSUME NEW v \in Caller, AppendFails(v) PROVE TypeOK'
  <2>1. faults' \in 0 .. MaxFaults
    BY <1>15, BoundsAssumption DEF AppendFails, TypeOK
  <2> QED
    BY <1>7, <1>8, <1>15, <2>1 DEF AppendFails, memory, TypeOK
<1>16. ASSUME NEW v \in Caller, Rejected(v) \/ GatedMint(v) PROVE TypeOK'
  BY <1>7, <1>8, <1>16 DEF Rejected, GatedMint, memory, budget, TypeOK
<1>17. ASSUME NEW v \in Caller, MarkPotDone(v) PROVE TypeOK'
  BY <1>5, <1>7, <1>8, <1>17 DEF MarkPotDone, budget, TypeOK
<1>18. ASSUME NEW v \in Caller, Continue(v) PROVE TypeOK'
  <2>1. Verified \in BOOLEAN
    BY DEF Verified
  <2>2. stage' \in {"none", "awaiting_pot", "pot_done", "aborted"}
    BY <1>18 DEF Continue, JournalStage, TypeOK
  <2>3. call' \in [Caller -> Calls]
    BY <1>2, <1>6, <1>18, <2>1 DEF Continue
  <2>4. pc' \in [Caller -> Await]
    BY <1>5, <1>18 DEF Continue
  <2> QED
    BY <1>8, <1>18, <2>2, <2>3, <2>4 DEF Continue, budget, TypeOK
<1>19. CASE OpenChallenge \/ \E c \in Closer : SeeChallenge(c) \/ CloseChallenge(c)
  BY <1>8, <1>19 DEF OpenChallenge, SeeChallenge, CloseChallenge, memory, calls, budget, TypeOK
<1>20. CASE \E n \in Suspendable : Suspend(n) \/ Restore(n)
  <2>1. suspensions' \in 0 .. MaxSuspensions
    BY <1>20, BoundsAssumption DEF Suspend, Restore, budget, TypeOK
  <2> QED
    BY <1>8, <1>20, <2>1, NodeAssumption DEF Suspend, Restore, calls, budget, TypeOK
<1>21. CASE Restart
  <2>1. faults' \in 0 .. MaxFaults
    BY <1>21, BoundsAssumption DEF Restart, TypeOK
  <2>2. \A v \in Caller : Over(v) \in Await
    BY DEF Over
  <2>3. pc' \in [Caller -> Await] /\ call' \in [Caller -> Calls]
    BY <1>2, <1>21, <2>2 DEF Restart
  <2> QED
    BY <1>8, <1>21, <2>1, <2>3 DEF Restart, TypeOK
<1>22. Resume \subseteq Caller
  BY DEF Caller
<1> QED
  BY <1>9, <1>10, <1>11, <1>12, <1>13, <1>14, <1>15, <1>16, <1>17, <1>18, <1>19, <1>20, <1>21,
     <1>22 DEF Next, CallStep
-----------------------------------------------------------------------------
(***************************************************************************)
(* The records.                                                            *)
(***************************************************************************)
LEMMA CountKept == TypeOK /\ CountIsTrue /\ [Next]_vars => CountIsTrue'
<1> SUFFICES ASSUME TypeOK, CountIsTrue, [Next]_vars PROVE CountIsTrue'
  OBVIOUS
<1>1. CASE UNCHANGED journal
  BY <1>1 DEF CountIsTrue, Answered
<1>2. ASSUME NEW r \in Entry, journal' = Append(journal, r) PROVE CountIsTrue'
  <2>1. PICK s \in Seq(Entry) : s = journal
    BY DEF TypeOK
  <2> QED
    BY <1>2, <2>1, CountStaysTrue
<1> QED
  BY <1>1, <1>2, StepAppends

LEMMA QuietRecords ==
    ASSUME RecordsSound, UNCHANGED <<journal, sound>>, raced => raced'
    PROVE  RecordsSound'
<1>1. /\ Height' = Height /\ (\A h : Accepted(h)' <=> Accepted(h)) /\ (\A h : Verdict(h)' <=> Verdict(h))
      /\ (\A h : QuorumOk(journal[h])' <=> QuorumOk(journal[h]))
  BY DEF Height, Accepted, Verdict, QuorumOk
<1> QED
  BY <1>1 DEF RecordsSound, OneVerdictUnlessRaced, AcceptedOverNoChallenge

LEMMA AcceptedTip ==
    ASSUME TypeOK, NEW h \in Height, Accepted(h)
    PROVE  journal[h].tip \in Nat
<1>1. journal[h] \in Entry
  BY DEF TypeOK, Height
<1> QED
  BY <1>1 DEF Accepted, Verdict, Entry

LEMMA RecordsKept ==
    ASSUME VerdictInv, [Next]_vars
    PROVE  RecordsSound'
<1>1. TypeOK /\ RecordsSound /\ CountIsTrue /\ RaceNoticed /\ \A v \in Caller : CallSound(v)
  BY DEF VerdictInv, RecordsSound
<1>2. UNCHANGED sound /\ (raced => raced')
  BY <1>1, StepAppends
<1>3. CASE UNCHANGED journal
  BY <1>1, <1>2, <1>3, QuietRecords
<1>4. ASSUME NEW r \in Entry, journal' = Append(journal, r),
             r.kind = "verdict" => \E v \in Caller : WriteVerdict(v) /\ r = Record(call[v]),
             r.kind = "mint" => OkToEmit
      PROVE  RecordsSound'
  <2>0. PICK n : n = Len(journal) + 1
    OBVIOUS
  <2>1. /\ Len(journal) \in Nat /\ Len(journal') = n
        /\ Height = 1 .. Len(journal) /\ Height' = 1 .. n
        /\ \A h \in Height : journal'[h] = journal[h] /\ h \in Height' /\ h < n
        /\ journal'[n] = r
        /\ \A h \in Height' : h \in Height \/ h = n
    <3>1. PICK s \in Seq(Entry) : s = journal
      BY <1>1 DEF TypeOK
    <3> QED
      BY <1>4, <2>0, <3>1, Grown
  <2>2. /\ \A h \in Height : Verdict(h)' <=> Verdict(h)
        /\ \A h \in Height : Accepted(h)' <=> Accepted(h)
        /\ Verdict(n)' <=> r.kind = "verdict"
        /\ Accepted(n)' <=> r.kind = "verdict" /\ r.ok
    BY <2>1 DEF Verdict, Accepted
  <2>3. ASSUME r.kind = "verdict"
        PROVE  /\ raced' \/ ~Has("verdict")
               /\ Has("evidence")
               /\ r.ok => /\ sound /\ QuorumOk(r) /\ r.signers \subseteq r.eligible
                          /\ r.tip \in Nat /\ r.tip <= Len(journal) /\ Answered(r.tip)
    <3>1. PICK v \in Caller : WriteVerdict(v) /\ r = Record(call[v])
      BY <1>4, <2>3
    <3>2. pc[v] = "verdict+" /\ CallSound(v) /\ call[v] \in Calls
      BY <1>1, <3>1 DEF WriteVerdict, TypeOK
    <3>3. /\ r.signers = call[v].signers /\ r.eligible = call[v].eligible
          /\ r.tip = call[v].tip /\ r.ok = call[v].ok
      BY <3>1 DEF Record
    <3>4. raced' \/ ~Has("verdict")
      BY <1>1, <1>2, <3>2 DEF RaceNoticed
    <3> QED
      BY <3>2, <3>3, <3>4 DEF CallSound, QuorumOk, Calls
  <2>4. OneVerdictUnlessRaced'
    <3> SUFFICES ASSUME NEW h \in Height', Verdict(h)'
                 PROVE  /\ \A g \in Height' : Verdict(g)' => g = h \/ raced'
                        /\ \E e \in 1 .. h - 1 : journal'[e].kind = "evidence"
      BY DEF OneVerdictUnlessRaced
    <3>1. \A g \in Height' : Verdict(g)' => g = h \/ raced'
      <4>1. r.kind = "verdict" => raced' \/ \A g \in Height : ~Verdict(g)
        BY <2>3 DEF Has, Verdict
      <4>2. \A g, i \in Height : Verdict(g) /\ Verdict(i) => g = i \/ raced'
        BY <1>1, <1>2 DEF RecordsSound, OneVerdictUnlessRaced
      <4> QED
        BY <2>1, <2>2, <4>1, <4>2
    <3>2. \E e \in 1 .. h - 1 : journal'[e].kind = "evidence"
      <4>1. CASE h \in Height
        <5>1. PICK e \in 1 .. h - 1 : journal[e].kind = "evidence"
          BY <1>1, <2>2, <4>1 DEF RecordsSound, OneVerdictUnlessRaced
        <5>2. e \in Height
          BY <2>1, <4>1
        <5> QED
          BY <2>1, <5>1, <5>2
      <4>2. CASE h = n
        <5>1. PICK e \in Height : journal[e].kind = "evidence"
          BY <2>2, <2>3, <4>2 DEF Has
        <5>2. e \in 1 .. n - 1
          BY <2>0, <2>1
        <5> QED
          BY <2>1, <4>2, <5>1, <5>2
      <4> QED
        BY <2>1, <4>1, <4>2
    <3> QED
      BY <3>1, <3>2
  <2>5. AcceptedOverNoChallenge'
    <3> SUFFICES ASSUME NEW h \in Height', Accepted(h)',
                        NEW c \in 1 .. journal'[h].tip, journal'[c].kind = "challenge"
                 PROVE  \E k \in c + 1 .. h - 1 : journal'[k].kind = "close"
      BY DEF AcceptedOverNoChallenge
    <3>1. CASE h \in Height
      <4>1. Accepted(h) /\ journal[h].tip \in Nat /\ journal[h].tip < h
        BY <1>1, <2>2, <3>1, AcceptedTip DEF RecordsSound
      <4>2. c \in 1 .. journal[h].tip /\ c \in Height
        BY <2>1, <3>1, <4>1
      <4>3. PICK k \in c + 1 .. h - 1 : journal[k].kind = "close"
        BY <1>1, <2>1, <3>1, <4>1, <4>2 DEF RecordsSound, AcceptedOverNoChallenge
      <4>4. k \in Height
        BY <2>1, <3>1, <4>2, <4>3
      <4> QED
        BY <2>1, <4>3, <4>4
    <3>2. CASE h = n
      <4>1. c \in 1 .. r.tip /\ r.kind = "verdict" /\ r.ok
        BY <2>1, <2>2, <3>2
      <4>2. r.tip \in Nat /\ r.tip <= Len(journal) /\ Answered(r.tip)
        BY <2>3, <4>1
      <4>3. c \in Height
        BY <2>1, <4>1, <4>2
      <4>4. PICK k \in c + 1 .. Len(journal) : journal[k].kind = "close"
        BY <2>1, <4>1, <4>2, <4>3 DEF Answered
      <4>5. k \in Height /\ k \in c + 1 .. n - 1
        BY <2>0, <2>1, <4>3, <4>4
      <4> QED
        BY <2>1, <3>2, <4>4, <4>5
    <3> QED
      BY <2>1, <3>1, <3>2
  <2>6. \A h \in Height' : Accepted(h)' =>
          /\ sound' /\ QuorumOk(journal'[h]) /\ journal'[h].tip < h
          /\ journal'[h].signers \subseteq journal'[h].eligible
    BY <1>1, <1>2, <2>0, <2>1, <2>2, <2>3 DEF RecordsSound
  <2>7. \A m \in Height' : journal'[m].kind = "mint" => \E h \in 1 .. m - 1 : Accepted(h)'
    <3> SUFFICES ASSUME NEW m \in Height', journal'[m].kind = "mint"
                 PROVE  \E h \in 1 .. m - 1 : Accepted(h)'
      OBVIOUS
    <3>1. CASE m \in Height
      <4>1. PICK h \in 1 .. m - 1 : Accepted(h)
        BY <1>1, <2>1, <3>1 DEF RecordsSound
      <4>2. h \in Height
        BY <2>1, <3>1
      <4> QED
        BY <2>2, <4>1, <4>2
    <3>2. CASE m = n
      <4>1. PICK h \in Height : Accepted(h)
        BY <1>4, <2>1, <3>2 DEF OkToEmit, Accepted, Verdict
      <4>2. h \in 1 .. n - 1
        BY <2>0, <2>1
      <4> QED
        BY <2>2, <3>2, <4>1, <4>2
    <3> QED
      BY <2>1, <3>1, <3>2
  <2>8. (\A h \in Height : Accepted(h) =>
           /\ sound /\ QuorumOk(journal[h]) /\ journal[h].tip < h
           /\ journal[h].signers \subseteq journal[h].eligible)'
    BY <2>6 DEF QuorumOk
  <2>9. (\A m \in Height : journal[m].kind = "mint" => \E h \in 1 .. m - 1 : Accepted(h))'
    BY <2>7
  <2> QED
    BY <2>4, <2>5, <2>8, <2>9 DEF RecordsSound
<1> QED
  BY <1>1, <1>3, <1>4, StepAppends
-----------------------------------------------------------------------------
(***************************************************************************)
(* The calls.                                                              *)
(***************************************************************************)
\* What a step does to the journal undoes nothing a call has established.
LEMMA JournalStays ==
    ASSUME TypeOK, [Next]_vars
    PROVE  /\ UNCHANGED sound /\ (raced => raced')
           /\ Len(journal) \in Nat /\ Len(journal)' \in Nat /\ Len(journal) <= Len(journal)'
           /\ \A kind : Has(kind) => Has(kind)'
           /\ \A t \in Nat : t <= Len(journal) /\ Answered(t) => Answered(t)'
<1>1. PICK s \in Seq(Entry) : s = journal
  BY DEF TypeOK
<1>2. CASE UNCHANGED journal
  BY <1>1, <1>2, StepAppends DEF Has, Height, Answered
<1>3. ASSUME NEW r \in Entry, journal' = Append(journal, r)
      PROVE  /\ Len(journal) \in Nat /\ Len(journal)' \in Nat /\ Len(journal) <= Len(journal)'
             /\ \A kind : Has(kind) => Has(kind)'
             /\ \A t \in Nat : t <= Len(journal) /\ Answered(t) => Answered(t)'
  BY <1>1, <1>3, Grown, AnsweredStays
<1> QED
  BY <1>2, <1>3, StepAppends

\* A call that does not move stays sound.
LEMMA StillSound ==
    ASSUME TypeOK, [Next]_vars, NEW v \in Caller, CallSound(v),
           pc'[v] = pc[v], call'[v] = call[v]
    PROVE  CallSound(v)'
<1>1. call[v].tip \in Nat
  BY DEF TypeOK, Calls
<1> QED
  BY <1>1, JournalStays DEF CallSound, QuorumOk

\* Nor does one need anything that is not about to write a verdict.
LEMMA SettledIsSound ==
    ASSUME TypeOK, [Next]_vars, NEW v \in Caller,
           pc'[v] \notin {"evidence", "verdict", "verdict+"},
           call'[v].signers \subseteq call'[v].eligible,
           call'[v].tip \in Nat, call'[v].tip <= Len(journal)
    PROVE  CallSound(v)'
  BY JournalStays DEF CallSound

\* Without a call there is nothing to keep.
LEMMA NoCallIsSound ==
    ASSUME TypeOK, [Next]_vars, NEW v \in Caller,
           pc'[v] \notin {"evidence", "verdict", "verdict+"},
           call'[v].signers = {}, call'[v].eligible = {}, call'[v].tip = 0
    PROVE  CallSound(v)'
<1>1. Len(journal) \in Nat
  BY JournalStays
<1> QED
  BY <1>1, SettledIsSound

LEMMA LeaveIsSound ==
    ASSUME TypeOK, [Next]_vars, NEW v \in Caller, Leave(v)
    PROVE  CallSound(v)'
<1>1. pc'[v] = Over(v) /\ call'[v] = NoCall
  BY DEF Leave, Goto, Reads, TypeOK
<1>2. Over(v) \notin {"evidence", "verdict", "verdict+"}
  BY DEF Over
<1> QED
  BY <1>1, <1>2, NoCallIsSound DEF NoCall

\* The call that moves.
LEMMA MoverIsSound ==
    ASSUME TypeOK, CountIsTrue, [Next]_vars, NEW v \in Caller, CallSound(v),
           CallStep(v) \/ AppendFails(v) \/ Continue(v)
    PROVE  CallSound(v)'
<1>1. /\ call[v] \in Calls /\ v \in DOMAIN pc /\ v \in DOMAIN call
      /\ call[v].tip \in Nat /\ Len(journal) \in Nat
  BY JournalStays DEF TypeOK, Calls
<1>2. CASE ReadHistory(v)
  <2>1. CASE Leave(v)
    BY <2>1, LeaveIsSound
  <2>2. ASSUME NEW confirmers, Goto(v, "build"),
               Reads(v, [call[v] EXCEPT !.eligible = Eligible(Registered), !.since = Len(journal),
                            !.signers = ValidSigners(confirmers, Eligible(Registered))])
        PROVE  CallSound(v)'
    <3>1. /\ pc'[v] = "build" /\ call'[v].tip = call[v].tip
          /\ call'[v].eligible = Eligible(Registered)
          /\ call'[v].signers = ValidSigners(confirmers, Eligible(Registered))
      BY <1>1, <2>2 DEF Goto, Reads, Calls
    <3>2. call'[v].signers \subseteq call'[v].eligible
      BY <3>1 DEF ValidSigners
    <3> QED
      BY <1>1, <3>1, <3>2, SettledIsSound DEF CallSound
  <2> QED
    BY <1>2, <2>1, <2>2 DEF ReadHistory
<1>3. CASE BuildEvidence(v)
  <2>1. /\ pc'[v] = "challenge" /\ call'[v].tip = Len(journal)
        /\ call'[v].eligible = call[v].eligible /\ call'[v].signers = call[v].signers
    BY <1>1, <1>3 DEF BuildEvidence, Goto, Reads, Calls
  <2> QED
    BY <1>1, <2>1, SettledIsSound DEF CallSound
<1>4. CASE ReadChallenges(v)
  <2>1. pc'[v] = "evidence" /\ UNCHANGED journal
    BY <1>1, <1>4 DEF ReadChallenges, Goto, books
  <2>2. \/ /\ sound /\ QuorumOk(call[v]) /\ ~(OpenChallenges(journal) > 0)
           /\ call' = [call EXCEPT ![v] = [call[v] EXCEPT !.ok = TRUE, !.since = 1]]
        \/ call' = [call EXCEPT ![v] = NoCall]
    BY <1>4 DEF ReadChallenges, Decide
  <2>3. CASE /\ sound /\ QuorumOk(call[v]) /\ ~(OpenChallenges(journal) > 0)
             /\ call' = [call EXCEPT ![v] = [call[v] EXCEPT !.ok = TRUE, !.since = 1]]
    <3>1. /\ call'[v].tip = call[v].tip /\ call'[v].eligible = call[v].eligible
          /\ call'[v].signers = call[v].signers
      BY <1>1, <2>3 DEF Calls
    <3>2. Answered(call[v].tip)
      <4>1. OpenChallenges(journal) = 0
        BY <2>3 DEF CountIsTrue
      <4>2. \A c \in 1 .. call[v].tip : c \in 1 .. Len(journal)
        BY <1>1 DEF CallSound
      <4> QED
        BY <4>1, <4>2 DEF CountIsTrue, Answered
    <3>3. PICK t \in Nat : t = call[v].tip
      BY <1>1
    <3>4. Answered(t)'
      BY <3>2, <3>3, JournalStays DEF CallSound
    <3>5. Answered(call[v].tip)'
      BY <3>1, <3>3, <3>4
    <3>6. sound'
      BY <2>3, JournalStays, Zenon
    <3>7. QuorumOk(call[v])
      BY <2>3, Zenon
    <3> QED
      BY <1>1, <2>1, <3>1, <3>5, <3>6, <3>7 DEF CallSound, QuorumOk
  <2>4. CASE call' = [call EXCEPT ![v] = NoCall]
    <3>1. call'[v] = NoCall
      BY <1>1, <2>4
    <3> QED
      BY <1>1, <2>1, <3>1 DEF CallSound, NoCall
  <2> QED
    BY <2>2, <2>3, <2>4
<1>5. CASE WriteEvidence(v)
  <2>1. pc[v] = "evidence" /\ pc'[v] = "verdict" /\ call'[v] = call[v]
    BY <1>1, <1>5 DEF WriteEvidence, Goto
  <2>2. Has("evidence")'
    <3>1. CASE Has("evidence")
      BY <3>1, JournalStays
    <3>2. CASE ~Has("evidence")
      <4>1. "evidence" \in Kind \ {"verdict"}
        BY DEF Kind
      <4>2. Plain("evidence").kind = "evidence" /\ Plain("evidence") \in Entry
        BY <4>1, PlainEntry
      <4>3. PICK s \in Seq(Entry) : s = journal
        BY DEF TypeOK
      <4>4. journal' = Append(s, Plain("evidence"))
        BY <1>5, <3>2, <4>2, <4>3 DEF WriteEvidence, AppendOnce
      <4> QED
        BY <4>2, <4>3, <4>4, Grown
    <3> QED
      BY <3>1, <3>2
  <2> QED
    BY <1>1, <2>1, <2>2, JournalStays DEF CallSound, QuorumOk
<1>6. ASSUME Told(v, call[v].ok)
      PROVE  CallSound(v)'
  <2>1. /\ pc'[v] = "told" /\ call'[v].tip = 0
        /\ call'[v].signers = {} /\ call'[v].eligible = {}
    BY <1>1, <1>6 DEF Told, Goto, NoCall
  <2> QED
    BY <2>1, NoCallIsSound
<1>7. CASE LookUpVerdict(v)
  <2>1. CASE Goto(v, "verdict+") /\ UNCHANGED call
    <3>1. pc[v] = "verdict" /\ pc'[v] = "verdict+" /\ call'[v] = call[v]
      BY <1>1, <1>7, <2>1 DEF LookUpVerdict, Goto
    <3> QED
      BY <1>1, <3>1, JournalStays DEF CallSound, QuorumOk
  <2> QED
    BY <1>6, <1>7, <2>1 DEF LookUpVerdict
<1>8. CASE WriteVerdict(v)
  BY <1>6, <1>8 DEF WriteVerdict
<1>9. CASE AppendFails(v) \/ Rejected(v) \/ GatedMint(v)
  BY <1>9, LeaveIsSound DEF AppendFails, Rejected, GatedMint
<1>10. CASE MarkPotDone(v)
  <2>1. CASE Goto(v, "gate") /\ UNCHANGED call
    <3>1. pc'[v] = "gate" /\ call'[v] = call[v]
      BY <1>1, <2>1 DEF Goto
    <3> QED
      BY <1>1, <3>1, SettledIsSound DEF CallSound
  <2> QED
    BY <1>10, <2>1, LeaveIsSound DEF MarkPotDone
<1>11. CASE Continue(v)
  <2>1. /\ pc'[v] \in {"told", "history"} /\ call'[v].tip = 0
        /\ call'[v].signers = {} /\ call'[v].eligible = {}
    BY <1>1, <1>11 DEF Continue, Goto, NoCall
  <2> QED
    BY <2>1, NoCallIsSound
<1> QED
  BY <1>2, <1>3, <1>4, <1>5, <1>7, <1>8, <1>9, <1>10, <1>11 DEF CallStep

LEMMA CallsKept ==
    ASSUME VerdictInv, [Next]_vars
    PROVE  \A v \in Caller : CallSound(v)'
<1>1. TypeOK /\ CountIsTrue /\ (\A v \in Caller : CallSound(v)) /\ Resume \subseteq Caller
  BY DEF VerdictInv, Caller
<1>2. ASSUME UNCHANGED calls
      PROVE  \A v \in Caller : CallSound(v)'
  BY <1>1, <1>2, StillSound DEF calls
<1>3. CASE UNCHANGED vars
  BY <1>2, <1>3 DEF vars
<1>4. ASSUME NEW v \in Caller, CallStep(v) \/ AppendFails(v) \/ Continue(v)
      PROVE  \A w \in Caller : CallSound(w)'
  <2> SUFFICES ASSUME NEW w \in Caller PROVE CallSound(w)'
    OBVIOUS
  <2>1. CASE w = v
    BY <1>1, <1>4, <2>1, MoverIsSound
  <2>2. CASE w # v
    <3>1. pc'[w] = pc[w] /\ call'[w] = call[w]
      <4>1. pc \in [Caller -> {"idle", "history", "build", "challenge", "evidence", "verdict",
                               "verdict+", "told", "gate", "over"}]
            /\ call \in [Caller -> Calls]
        BY <1>1 DEF TypeOK
      <4> QED
        BY <1>4, <2>2, <4>1
        DEF CallStep, ReadHistory, BuildEvidence, ReadChallenges, Decide, WriteEvidence, LookUpVerdict,
            WriteVerdict, Told, Rejected, MarkPotDone, GatedMint, AppendFails, Continue, Leave, Goto, Reads
    <3> QED
      BY <1>1, <3>1, StillSound
  <2> QED
    BY <2>1, <2>2
<1>5. CASE \/ OpenChallenge \/ \E c \in Closer : SeeChallenge(c) \/ CloseChallenge(c)
           \/ \E n \in Suspendable : Suspend(n) \/ Restore(n)
  BY <1>2, <1>5 DEF OpenChallenge, SeeChallenge, CloseChallenge, Suspend, Restore
<1>6. CASE Restart
  <2> SUFFICES ASSUME NEW v \in Caller PROVE CallSound(v)'
    OBVIOUS
  <2>1. pc'[v] \in {"over", "idle"} /\ call'[v] = NoCall
    BY <1>6 DEF Restart, Over
  <2> QED
    BY <1>1, <2>1, NoCallIsSound DEF NoCall
<1> QED
  BY <1>1, <1>3, <1>4, <1>5, <1>6 DEF Next

LEMMA RaceStaysNoticed ==
    ASSUME VerdictInv, [Next]_vars
    PROVE  RaceNoticed'
<1>1. TypeOK /\ RaceNoticed
  BY DEF VerdictInv
<1>2. \/ \E v \in Caller : LookUpVerdict(v)
      \/ \E v \in Caller : WriteVerdict(v)
      \/ \A w \in Caller : pc'[w] = "verdict+" => pc[w] = "verdict+"
  <2>1. pc \in [Caller -> {"idle", "history", "build", "challenge", "evidence", "verdict",
                           "verdict+", "told", "gate", "over"}]
    BY <1>1 DEF TypeOK
  <2>2. \A v, l : v \in Caller /\ Goto(v, l) /\ l # "verdict+" =>
          \A w \in Caller : pc'[w] = "verdict+" => pc[w] = "verdict+"
    BY <2>1 DEF Goto
  <2>3. \A v \in Caller : Leave(v) =>
          \A w \in Caller : pc'[w] = "verdict+" => pc[w] = "verdict+"
    BY <2>2 DEF Leave, Over
  <2>4. ASSUME NEW v \in Caller, \/ ReadHistory(v) \/ BuildEvidence(v) \/ ReadChallenges(v)
                                 \/ WriteEvidence(v) \/ Rejected(v) \/ MarkPotDone(v)
                                 \/ GatedMint(v) \/ AppendFails(v) \/ Continue(v)
        PROVE  \A w \in Caller : pc'[w] = "verdict+" => pc[w] = "verdict+"
    <3>1. CASE Continue(v)
      <4>1. Goto(v, "told") \/ Goto(v, "history")
        BY <3>1 DEF Continue
      <4> QED
        BY <2>2, <4>1
    <3>2. CASE ~Continue(v)
      <4>1. \/ Leave(v) \/ Goto(v, "build") \/ Goto(v, "challenge") \/ Goto(v, "evidence")
            \/ Goto(v, "verdict") \/ Goto(v, "gate")
        BY <2>4, <3>2 DEF ReadHistory, BuildEvidence, ReadChallenges, WriteEvidence, Rejected,
                          MarkPotDone, GatedMint, AppendFails
      <4> QED
        BY <2>2, <2>3, <4>1
    <3> QED
      BY <3>1, <3>2
  <2>5. ASSUME \/ UNCHANGED vars \/ OpenChallenge
               \/ \E c \in Closer : SeeChallenge(c) \/ CloseChallenge(c)
               \/ \E n \in Suspendable : Suspend(n) \/ Restore(n)
        PROVE  pc' = pc
    BY <2>5 DEF vars, calls, OpenChallenge, SeeChallenge, CloseChallenge, Suspend, Restore
  <2>6. CASE Restart
    BY <2>6 DEF Restart, Over
  <2>7. Resume \subseteq Caller
    BY DEF Caller
  <2> QED
    BY <2>4, <2>5, <2>6, <2>7 DEF Next, CallStep
<1>3. raced => raced'
  BY <1>1, StepAppends
<1>4. CASE \E v \in Caller : LookUpVerdict(v)
  <2>1. PICK v \in Caller : LookUpVerdict(v)
    BY <1>4
  <2>2. /\ UNCHANGED journal /\ (\A w \in Caller \ {v} : pc'[w] = pc[w])
        /\ raced' \/ \A w \in Caller : pc[w] # "verdict+"
        /\ pc'[v] = "verdict+" => ~Has("verdict")
    <3>1. UNCHANGED journal /\ (raced' \/ \A w \in Caller : pc[w] # "verdict+")
      BY <2>1, Zenon DEF LookUpVerdict, books
    <3>2. /\ (\A w \in Caller \ {v} : pc'[w] = pc[w])
          /\ pc'[v] = "verdict+" => ~Has("verdict")
      BY <1>1, <2>1 DEF LookUpVerdict, Told, Goto, TypeOK
    <3> QED
      BY <3>1, <3>2
  <2>3. Has("verdict")' <=> Has("verdict")
    BY <2>2 DEF Has, Height
  <2> SUFFICES ASSUME NEW w \in Caller, pc'[w] = "verdict+", ~raced'
               PROVE  ~Has("verdict")' /\ \A u \in Caller \ {w} : pc'[u] # "verdict+"
    BY DEF RaceNoticed
  <2> QED
    BY <2>2, <2>3
<1>5. CASE \E v \in Caller : WriteVerdict(v)
  <2>1. PICK v \in Caller : WriteVerdict(v)
    BY <1>5
  <2>2. /\ pc[v] = "verdict+" /\ pc'[v] = "told" /\ UNCHANGED raced
        /\ \A w \in Caller \ {v} : pc'[w] = pc[w]
    BY <1>1, <2>1 DEF WriteVerdict, Told, Goto, TypeOK
  <2> SUFFICES ASSUME NEW w \in Caller, pc'[w] = "verdict+"
               PROVE  raced'
    BY DEF RaceNoticed
  <2>3. w # v /\ pc[w] = "verdict+"
    BY <2>2
  <2>4. raced
    BY <1>1, <2>2, <2>3 DEF RaceNoticed
  <2> QED
    BY <1>3, <2>4
<1>6. CASE /\ \A w \in Caller : pc'[w] = "verdict+" => pc[w] = "verdict+"
           /\ ~\E v \in Caller : WriteVerdict(v)
  <2>1. Has("verdict")' => Has("verdict")
    <3>1. CASE UNCHANGED journal
      BY <3>1 DEF Has, Height
    <3>2. ASSUME NEW r \in Entry, journal' = Append(journal, r), r.kind # "verdict"
          PROVE  Has("verdict")' => Has("verdict")
      <4>1. PICK s \in Seq(Entry) : s = journal
        BY <1>1 DEF TypeOK
      <4> QED
        BY <3>2, <4>1, Grown
    <3> QED
      BY <1>1, <1>6, <3>1, <3>2, StepAppends
  <2> QED
    BY <1>1, <1>3, <1>6, <2>1 DEF RaceNoticed
<1> QED
  BY <1>2, <1>4, <1>5, <1>6
-----------------------------------------------------------------------------
LEMMA VerdictInvAtFirst == Init => VerdictInv
<1> SUFFICES ASSUME Init PROVE VerdictInv
  OBVIOUS
<1>1. /\ journal = <<Plain("open")>> /\ Plain("open") \in Entry /\ Plain("open").kind = "open"
      /\ <<>> \in Seq(Entry) /\ journal = Append(<<>>, Plain("open"))
  <2>1. "open" \in Kind \ {"verdict"}
    BY DEF Kind
  <2> QED
    BY <2>1, PlainEntry DEF Init
<1>2. journal \in Seq(Entry) /\ Len(journal) = 1 /\ Height = {1} /\ journal[1].kind = "open"
  BY <1>1 DEF Height
<1>3. TypeOK
  <2>1. NoCall \in Calls
    BY DEF NoCall, Calls
  <2>2. 0 \in 0 .. MaxSuspensions /\ 0 \in 0 .. MaxFaults
    BY BoundsAssumption
  <2>3. pc \in [Caller -> {"idle", "history", "build", "challenge", "evidence", "verdict",
                           "verdict+", "told", "gate", "over"}]
    BY DEF Init
  <2> QED
    BY <1>2, <2>1, <2>2, <2>3 DEF Init, TypeOK
<1>4. CountIsTrue
  <2>1. OpenChallenges(journal) = CountChallenge(0, Plain("open"))
    BY <1>1, CountingRounds
  <2>2. OpenChallenges(journal) = 0
    BY <1>1, <2>1 DEF CountChallenge
  <2> QED
    BY <1>2, <2>2 DEF CountIsTrue, Answered
<1>5. \A v \in Caller : CallSound(v)
  BY <1>2 DEF Init, CallSound, NoCall
<1>6. RaceNoticed
  BY DEF Init, RaceNoticed
<1>7. RecordsSound
  BY <1>2 DEF RecordsSound, OneVerdictUnlessRaced, AcceptedOverNoChallenge, Accepted, Verdict
<1> QED
  BY <1>3, <1>4, <1>5, <1>6, <1>7 DEF VerdictInv

LEMMA VerdictInvHolds == Spec => []VerdictInv
<1>1. VerdictInv /\ [Next]_vars => VerdictInv'
  <2> SUFFICES ASSUME VerdictInv, [Next]_vars PROVE VerdictInv'
    OBVIOUS
  <2>1. TypeOK' /\ CountIsTrue'
    BY TypesKept, CountKept DEF VerdictInv
  <2>2. (\A v \in Caller : CallSound(v))'
    BY CallsKept
  <2> QED
    BY <2>1, <2>2, RaceStaysNoticed, RecordsKept DEF VerdictInv
<1> QED
  BY <1>1, VerdictInvAtFirst, PTL DEF Spec

\* A process has one verdict, above its evidence, unless two calls were writing theirs
\* at once, and none that accepts it over a challenge its evidence could see.
THEOREM VerdictsAreSound == Spec => []VerdictIsSound
<1>1. VerdictInv => VerdictIsSound
  BY DEF VerdictInv, RecordsSound, VerdictIsSound
<1> QED
  BY <1>1, VerdictInvHolds, PTL

\* The quorum rule of the code is the two thirds the verdict promises, and every mint
\* stands above a verdict that met it.
THEOREM MintsRestOnVerdicts == Spec => []MintRestsOnVerdict
<1>1. VerdictInv => MintRestsOnVerdict
  <2> SUFFICES ASSUME VerdictInv, NEW m \in Height, journal[m].kind = "mint"
               PROVE  \E h \in 1 .. m - 1 :
                        /\ Accepted(h) /\ sound
                        /\ journal[h].signers \subseteq journal[h].eligible
                        /\ Cardinality(journal[h].eligible) >= KMin
                        /\ 3 * Cardinality(journal[h].signers) >= 2 * Cardinality(journal[h].eligible)
    BY DEF MintRestsOnVerdict
  <2>1. PICK h \in 1 .. m - 1 : Accepted(h)
    BY DEF VerdictInv, RecordsSound
  <2>2. h \in Height /\ journal[h] \in Entry
    BY DEF Height, VerdictInv, TypeOK
  <2>3. sound /\ QuorumOk(journal[h]) /\ journal[h].signers \subseteq journal[h].eligible
    BY <2>1, <2>2 DEF VerdictInv, RecordsSound
  <2>4. IsFiniteSet(journal[h].eligible) /\ IsFiniteSet(journal[h].signers)
    <3>1. journal[h].eligible \subseteq Node
      BY <2>1, <2>2 DEF Accepted, Verdict, Entry
    <3> QED
      BY <2>3, <3>1, NodeAssumption, FS_Subset
  <2> QED
    BY <2>1, <2>3, <2>4, QuorumIsTwoThirds
<1> QED
  BY <1>1, VerdictInvHolds, PTL
====
