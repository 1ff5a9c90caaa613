------------------------- MODULE MCTokenizationWizard -------------------------
(***************************************************************************)
(* TokenizationWizard with two asset types.  Each has one slot, for a      *)
(* document it requires.                                                   *)
(***************************************************************************)
EXTENDS TokenizationWizard, TLC

CONSTANTS bond, vehicle, terms, registration

MCSlotsOf == [t \in Type |-> IF t = bond THEN {terms} ELSE {registration}]
MCRequired == MCSlotsOf

MCSymmetry == Permutations(File) \cup Permutations(Institution) \cup Permutations(IdempotencyKey)

VARIABLE slow  \* what may be slow in this behaviour

\* Which answers may be awaited while the user goes on; the others arrive
\* before the user's next move.  Any two kinds that feed one another overlap.
Overlaps == {{"catalogue"}, {"hash", "signature"}, {"signature", "enrichment"},
             {"submission", "session"}}

Settled ==
    /\ "catalogue" \notin slow => loads = [t \in Type |-> 0]
    /\ "hash" \notin slow => hashing = [i \in 1..MaxFiles |-> Nil]
    /\ "signature" \notin slow => confirming = Nil
    /\ "enrichment" \notin slow => checking = Nil
    /\ "submission" \notin slow => ~InFlight

MCInit == WizardInit /\ slow \in Overlaps

MCNext ==
    /\ UNCHANGED slow
    /\ \/ Answers
       \/ Settled /\ User
       \/ Settled /\ "session" \in slow /\ Sessions

MCSpec == MCInit /\ [][MCNext]_<<wizardVars, slow>>
=============================================================================
