------------------------------- MODULE Velocity -------------------------------
(***************************************************************************)
(* The velocity that, with the index of the reserve, begins the release    *)
(* phase: what the records of a window say was processed, by what is in    *)
(* circulation.  A record is a kind, an amount, and whether it is of the   *)
(* window.  The daemon compares the ratio with its target; here the        *)
(* comparison is one of integers, the target a whole number.               *)
(***************************************************************************)
EXTENDS Integers, Sequences, SequencesExt

Counted == {"mint_fact", "emission_fact", "process_open"}

\* compute: mints and emissions in a first pass, openings in a second.
Volume(rows) ==
    SumFunction([i \in DOMAIN rows |->
                    IF rows[i].kind \in Counted /\ rows[i].recent THEN rows[i].amount ELSE 0])

\* Whether the velocity is above the target.  With nothing in circulation any
\* volume is, and no volume is a velocity of zero.
Exceeds(rows, supply, target) ==
    IF supply <= 0 THEN Volume(rows) > 0 \/ 0 > target
    ELSE Volume(rows) > target * supply

Recorded(kind, amount, recent) == [kind |-> kind, amount |-> amount, recent |-> recent]

\* What a process leaves in the journal: its opening with a value, and what follows
\* a verdict.  A revaluation says by how much, with a sign.
Left(life) ==
    LET rows ==
        CASE life.does = "open"   -> <<"process_open">>
          [] life.does = "mint"   -> <<"process_open", "mint_fact", "emission_fact">>
          [] life.does = "revalue"-> <<"process_open", "revaluation_fact", "emission_fact">>
          [] OTHER -> <<>>
    IN  [i \in DOMAIN rows |->
            Recorded(rows[i],
                     IF life.does = "revalue" /\ rows[i] = "emission_fact"
                     THEN life.value - life.before ELSE life.value,
                     i > life.old)]
=============================================================================
