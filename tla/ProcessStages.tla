---------------------------- MODULE ProcessStages ----------------------------
(***************************************************************************)
(* The stage machine of a process (src/src/processing/stages.ts) and how   *)
(* ProcessService.hydrate rebuilds a stage from the journal                *)
(* (process.service.ts 293-379).                                           *)
(*                                                                         *)
(* Facts, the records of one process that some code reads, go by what is   *)
(* read of them: "encoded", "awaiting_pot", "pot_done" and "settled" are   *)
(* process_stage records, "open", "close" and "abort" process_* records.   *)
(***************************************************************************)
EXTENDS Sequences, SequencesExt

Stage == {"opened", "documents", "encoded", "awaiting_pot", "pot_done",
          "settled", "closed", "aborted"}

Terminal == {"closed", "aborted"}

\* ALLOWED, and assertTransition.
Allowed ==
    {<<"opened", "documents">>, <<"documents", "encoded">>,
     <<"encoded", "awaiting_pot">>, <<"awaiting_pot", "pot_done">>,
     <<"pot_done", "settled">>, <<"pot_done", "closed">>, <<"settled", "closed">>}
    \cup {<<s, "aborted">> : s \in Stage \ Terminal}

CanTransition(from, to) == <<from, to>> \in Allowed

\* Faulty variant of HydrateFact: only progress made after the PoT counts.
HydrateFactLate(stage, fact) ==
    CASE fact = "close" -> "closed"
      [] fact = "abort" -> "aborted"
      [] fact \in {"encoded", "pot_done", "settled"}
           /\ stage \notin Terminal -> fact
      [] OTHER -> stage

\* One record of hydrate's loop.
HydrateFact(stage, fact) ==
    CASE fact = "close" -> "closed"
      [] fact = "abort" -> "aborted"
      [] fact \in {"encoded", "awaiting_pot", "pot_done", "settled"}
           /\ stage \notin Terminal -> fact
      [] OTHER -> stage

\* process_open lists awaiting_pot among its initial stages.
HydratedStage(facts) == FoldLeft(HydrateFact, "awaiting_pot", facts)
=============================================================================
