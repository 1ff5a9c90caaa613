------------------------------ MODULE Admission ------------------------------
(***************************************************************************)
(* What a request to tokenize is asked for at each place it passes, from   *)
(* the portal to the mint: validateCreateProcess at the edge, the core's   *)
(* controller, the orchestrator, L1 and the encoding, the criteria of PoT, *)
(* the emission.  A place is the sequence of its checks, in order.         *)
(*                                                                         *)
(* A valuation is a form and a number: "decimal" as both sides write one,  *)
(* "loose" with spaces around it, "fine" with more than nine digits,       *)
(* "other", "none".  A holder, an asset and a wallet are names; a holder   *)
(* may be Endless (more than the schema allows).  A key is "short", "fit"  *)
(* or "long".                                                              *)
(***************************************************************************)
EXTENDS Integers, Sequences, SequencesExt

CONSTANTS NoName, Endless,
          Wallets,          \* addresses; another name is none
          EmissionCap       \* or 0, for no cap

\* The first check that fails, of <<passes, code>>.
FirstFailure(checks) ==
    LET at == SelectInSeq(checks, LAMBDA check : ~check[1]) IN
    IF at = 0 THEN "none" ELSE checks[at][2]

\* isValidValuation, parseAro: spaces around a number do not matter.
IsAmount(v) == v.form \in {"decimal", "loose"}

\* validateCreateProcess
EdgeRefusal(r) ==
    FirstFailure(<< <<r.institution, "FORBIDDEN">>,
                    <<r.key = "fit", "IDEMPOTENCY_REQUIRED">>,
                    <<r.type # NoName, "VALIDATION_ERROR">>,
                    <<IsAmount(r.valuation), "MISSING_VALUATION">>,
                    <<r.signature, "MISSING_QUALIFIED_SIGNATURE">>,
                    <<r.hash # "other", "MISSING_DOCUMENTS">>,
                    <<r.holder # NoName, "VALIDATION_ERROR">>,
                    <<r.wallet \in Wallets \cup {NoName}, "VALIDATION_ERROR">>,
                    <<r.id # "bad", "INVALID_PROCESS_ID">> >>)

\* The edge's record, in the fields that a request sets: what is written is
\* trimmed, an amount gets nine digits, a hash small letters.
EdgeRow(r) ==
    [type |-> r.type, valuation |-> [r.valuation EXCEPT !.form = "decimal"],
     currency |-> r.currency, holder |-> r.holder, asset |-> r.asset, wallet |-> r.wallet,
     hash |-> IF r.hash = "capitals" THEN "small" ELSE r.hash]

\* payloadFingerprint of what create takes into it, as it was written.
Fingerprint(r) ==
    [type |-> r.type, valuation |-> r.valuation, holder |-> r.holder, asset |-> r.asset,
     signature |-> r.signature, hash |-> EdgeRow(r).hash]

\* The fields of the record that the fingerprint leaves out.
Unprinted == {"currency", "wallet"}

\* create, for a request under a key that has been used by an earlier one.
Reused(first, second) == IF Fingerprint(first) = Fingerprint(second) THEN "duplicate" ELSE "mismatch"

\* What the edge hands over: documents, signature and standing as its own word.
Handed(r) ==
    LET row == EdgeRow(r) IN
    [key |-> r.key, type |-> row.type, valuation |-> row.valuation, holder |-> row.holder,
     id |-> IF r.id = NoName THEN "good" ELSE r.id,
     signature |-> TRUE, documents |-> TRUE, allowlisted |-> TRUE]

\* The controller, then runPrimary up to the record that opens the process.  The
\* type it asks for is not looked at.
CoreRefusal(b) ==
    FirstFailure(<< <<b.key # "short", "IDEMPOTENCY_REQUIRED">>,
                    <<b.signature, "MISSING_QUALIFIED_SIGNATURE">>,
                    <<b.valuation.form # "none" /\ b.holder # NoName, "VALIDATION_ERROR">>,
                    <<b.id # "bad", "INVALID_PROCESS_ID">>,
                    <<IsAmount(b.valuation), "ORCHESTRATOR_ERROR">>,
                    <<b.allowlisted /\ b.documents, "ORCH_L1_FAILED">>,
                    <<b.holder # Endless, "ENCODING_FAILED">> >>)

OpenedStages == {"opened", "documents", "encoded", "awaiting_pot"}

\* The evidence buildEvidence finds of a process just opened; it is primary.
Evidence(b) ==
    [type |-> "primary_tokenization", allowlisted |-> b.allowlisted, recorded |-> TRUE,
     stages |-> OpenedStages, documents |-> b.documents, signature |-> b.signature,
     valuation |-> b.valuation.form # "none", holder |-> b.holder # NoName]

\* getProcessTypeRule; an unknown type is asked for everything.
Rule(type) ==
    [stages |-> {"opened", "documents", "encoded"},
     needs |-> {"documents", "signature"}
                  \cup (IF type = "ownership_transfer" THEN {} ELSE {"valuation"})
                  \cup (IF type = "revaluation" THEN {} ELSE {"holder"})]

\* evaluateCriteria: the criteria that fail.
FailedCriteria(ev, type) ==
    {p \in {"P1", "P2", "P3", "P4"} :
        ~CASE p = "P1" -> ev.allowlisted
           [] p = "P2" -> Rule(type).stages \subseteq ev.stages
           [] p = "P3" -> ev.recorded
           [] p = "P4" -> \A need \in Rule(type).needs : ev[need]}

\* emitFromValuation before the gate.
EmissionRefusal(v) ==
    FirstFailure(<< <<IsAmount(v) /\ v.arx > 0, "INVALID_VALUATION">>,
                    <<EmissionCap = 0 \/ v.arx <= EmissionCap, "CAP_EXCEEDED">> >>)
=============================================================================
