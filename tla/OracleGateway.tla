---------------------------- MODULE OracleGateway ----------------------------
(***************************************************************************)
(* Oracles attest what they have observed of a process; a process goes on  *)
(* if enough of them have (OracleGatewayService), in a primary run when a  *)
(* package is given or required, in a partial release when one is given.   *)
(* An attestation is who gave it, the process it names and whether the     *)
(* signature over all of it is good; a package is a list of them and the   *)
(* process it is said to be about.                                         *)
(***************************************************************************)
EXTENDS Naturals, Sequences, FiniteSets, SequencesExt

CONSTANTS Oracle,      \* who may give attestations
          Registered,  \* the oracles registered
          Subject,     \* processes
          Unnamed,     \* no process is named
          MinOracles

ASSUME OracleAssumption ==
    /\ Registered \subseteq Oracle /\ Unnamed \notin Subject
    /\ MinOracles \in Nat \ {0}

Attestation == [by : Oracle, of : Subject, good : BOOLEAN]

\* The attestations that count for a process.
Bad(att, of) ==
    CASE att.of # of -> {"PROCESS_MISMATCH"}
      [] att.of = of /\ Registered # {} /\ att.by \notin Registered -> {"UNKNOWN_ORACLE"}
      [] OTHER -> IF att.good THEN {} ELSE {"BAD_SIGNATURE"}

\* verify, one attestation after the other; an oracle counts once.
CountAttestation(tally, att) ==
    IF Bad(att, tally.of) = {}
    THEN [tally EXCEPT !.valid = IF Contains(@, att.by) THEN @ ELSE Append(@, att.by)]
    ELSE [tally EXCEPT !.invalid = @ \cup {att.by}]

Tally(pkg) ==
    FoldLeft(CountAttestation, [of |-> pkg.of, valid |-> <<>>, invalid |-> {}], pkg.list)

\* verify and require: fail-closed.
Verify(pkg) ==
    LET tally == Tally(pkg) IN
    [ok |-> /\ pkg.of # Unnamed /\ pkg.list # <<>>
            /\ Len(tally.valid) >= MinOracles,
     valid |-> ToSet(tally.valid), invalid |-> tally.invalid]

\* runPrimary: the package is taken for the process it names, or else for the one
\* that is run; whether they are the same is not asked.
PrimaryTakes(process, required, given, pkg) ==
    IF ~given THEN ~required
    ELSE Verify([pkg EXCEPT !.of = IF @ = Unnamed THEN process ELSE @]).ok

\* PartialReleaseService.release: here it is.
ReleaseTakes(process, pkg) ==
    LET named == IF pkg.of = Unnamed THEN process ELSE pkg.of IN
    named = process /\ Verify([pkg EXCEPT !.of = named]).ok
=============================================================================
