-------------------------- MODULE TokenizationWizard --------------------------
(***************************************************************************)
(* The wizard in which an institution starts a tokenization: one page of   *)
(* the browser (TokenizationWizardPage) whose handlers await calls to the  *)
(* edge and then write into the page, whatever its user has done since.    *)
(*   step 0  asset type, 1 evidence files, 2 signature, 3 fields as the    *)
(*        documents state them, 4 enrichment, 5 start; Gone: left          *)
(* In flight may be: catalogue reads (one per choice of a type), package   *)
(* fingerprints (one per selection of files), one signature confirmation,  *)
(* one enrichment check and one submission.  The edge keeps sessions in    *)
(* memory and a process per idempotency key of an institution; what it     *)
(* does with a process is the subject of PortalHandoff.                    *)
(*                                                                         *)
(* A package is what is in the slots: the fingerprint covers slot, name    *)
(* and content of each file, so it is the package itself.  The figures of  *)
(* step 3 are reduced to the declaration that they are the documents'; the *)
(* text extraction that helps to fill them in is left out.  An answer that *)
(* fails changes nothing but the message shown.                            *)
(*                                                                         *)
(* Bounds: one visit of the page; one file per slot; MaxTypes choices of a *)
(* type, MaxFiles selections of files, MaxBacks uses of a Back button,     *)
(* MaxStarts submissions, MaxOutages logouts and restarts of the edge.     *)
(***************************************************************************)
EXTENDS Naturals, FiniteSets

CONSTANTS Type, Slot,
          SlotsOf, Required,   \* the catalogue: slots of a type, the required ones
          First,               \* the type the page starts with
          File, Institution, IdempotencyKey,
          Nil,
          MaxTypes, MaxFiles, MaxStarts, MaxOutages, MaxBacks

ASSUME WizardAssumption ==
    /\ SlotsOf \in [Type -> SUBSET Slot] /\ Required \in [Type -> SUBSET Slot]
    /\ \A t \in Type : Required[t] \subseteq SlotsOf[t]
    /\ First \in Type
    /\ Nil \notin File \cup Institution \cup IdempotencyKey \cup Type
    /\ {MaxTypes, MaxFiles, MaxStarts, MaxOutages, MaxBacks} \subseteq Nat

VARIABLES step, assetType, evidenceDef, slotFiles, documentPackageHash,
          hasQualifiedSignature, sigVerify, fieldsFromDocument,
          enrichment, enrichmentConfirmed, idempotencyKey,
          loads, hashing, confirming, checking,  \* awaited answers
          submission,
          browser,            \* whose session the browser's storage holds
          live,               \* the edge holds it too
          processes,          \* of the edge
          opened,             \* the process page the wizard went to
          types, selections, starts, outages, backs,
          late                \* ghost: kinds of answers that came too late

choice == <<assetType, evidenceDef>>
package == <<slotFiles, documentPackageHash>>
signature == <<hasQualifiedSignature, sigVerify>>
enriched == <<enrichment, enrichmentConfirmed>>
session == <<browser, live>>
edgeState == <<processes, opened>>
counters == <<types, selections, starts, outages, backs>>
awaited == <<loads, hashing, confirming, checking>>
wizardVars == <<step, choice, package, signature, fieldsFromDocument, enriched,
          idempotencyKey, awaited, submission, session, edgeState, counters, late>>

Package == [Slot -> File \cup {Nil}]
Empty == [s \in Slot |-> Nil]
Gone == 6

\* What a submission says.
Body == [package : Package, type : Type, hash : Package, verified : Package,
         enrichment : Package \cup {Nil}]

\* Answers that can come too late.
LateKind == {"catalogue", "hash", "signature", "enrichment"}

Submission == [body : Body, key : IdempotencyKey, by : Institution,
               at : {"sent", "answered", "failed", "closed"}, late : SUBSET LateKind]

WizardTypeOK ==
    /\ step \in 0..Gone /\ assetType \in Type /\ evidenceDef \in Type
    /\ slotFiles \in Package /\ documentPackageHash \in Package \cup {Nil}
    /\ hasQualifiedSignature \in BOOLEAN /\ sigVerify \in Package \cup {Nil}
    /\ fieldsFromDocument \in BOOLEAN
    /\ enrichment \in Package \cup {Nil} /\ enrichmentConfirmed \in BOOLEAN
    /\ idempotencyKey \in IdempotencyKey
    /\ loads \in [Type -> Nat]
    /\ hashing \in [1..MaxFiles -> Package \cup {Nil}]
    /\ confirming \in Package \cup {Nil} /\ checking \in Package \cup {Nil}
    /\ submission \in Submission \cup {Nil} /\ late \subseteq LateKind
    /\ browser \in Institution \cup {Nil} /\ live \in BOOLEAN
    /\ processes \subseteq [by : Institution, key : IdempotencyKey, body : Body]
    /\ opened \in processes \cup {Nil}
    /\ types \in 0..MaxTypes /\ selections \in 0..MaxFiles
    /\ starts \in 0..MaxStarts /\ outages \in 0..MaxOutages /\ backs \in 0..MaxBacks

WizardInit ==
    /\ step = 0
    /\ assetType = First /\ evidenceDef = First
    /\ slotFiles = Empty /\ documentPackageHash = Nil
    /\ hasQualifiedSignature = FALSE /\ sigVerify = Nil
    /\ fieldsFromDocument = FALSE
    /\ enrichment = Nil /\ enrichmentConfirmed = FALSE
    /\ idempotencyKey \in IdempotencyKey
    /\ loads = [t \in Type |-> 0]
    /\ hashing = [i \in 1..MaxFiles |-> Nil]
    /\ confirming = Nil /\ checking = Nil
    /\ submission = Nil
    /\ browser \in Institution /\ live = TRUE
    /\ processes = {} /\ opened = Nil
    /\ types = 0 /\ selections = 0 /\ starts = 0 /\ outages = 0 /\ backs = 0
    /\ late = {}

step1Ok ==
    /\ documentPackageHash # Nil
    /\ slotFiles # Empty
    /\ \A s \in Required[evidenceDef] : slotFiles[s] # Nil
step2Ok == sigVerify # Nil /\ hasQualifiedSignature
step3Ok == fieldsFromDocument
step4Ok == enrichmentConfirmed \/ enrichment # Nil
canSubmit == step1Ok /\ step2Ok /\ step3Ok /\ step4Ok

TooLate(kind, condition) == late' = IF condition THEN late \cup {kind} ELSE late

Back == backs < MaxBacks /\ backs' = backs + 1

Turn(from, to) == step = from /\ step' = to
-----------------------------------------------------------------------------
(***************************************************************************)
(* Steps 0 and 1: type and files.                                          *)
(***************************************************************************)

\* A type is chosen: the files go, the catalogue is asked for its slots.
SelectType(t) ==
    /\ step = 0 /\ types < MaxTypes /\ types' = types + 1
    /\ assetType' = t
    /\ slotFiles' = Empty /\ documentPackageHash' = Nil
    /\ enrichment' = Nil /\ enrichmentConfirmed' = FALSE
    /\ loads' = [loads EXCEPT ![t] = @ + 1]
    /\ UNCHANGED <<step, evidenceDef, signature, fieldsFromDocument, idempotencyKey,
                   hashing, confirming, checking, submission, session, edgeState,
                   selections, starts, outages, backs, late>>

\* "Continue" to the files asks the catalogue once more.
ContinueToEvidence ==
    /\ Turn(0, 1)
    /\ loads' = [loads EXCEPT ![assetType] = @ + 1]
    /\ UNCHANGED <<choice, package, signature, fieldsFromDocument, enriched,
                   idempotencyKey, hashing, confirming, checking, submission, session,
                   edgeState, counters, late>>

\* The catalogue answers, or the answer fails and the page's own copy serves:
\* the slots are those of the type that was asked for, chosen still or not.
CatalogueAnswers(t) ==
    /\ step # Gone /\ loads[t] > 0
    /\ loads' = [loads EXCEPT ![t] = @ - 1]
    /\ evidenceDef' = t
    /\ TooLate("catalogue", t # assetType)
    /\ UNCHANGED <<step, assetType, package, signature, fieldsFromDocument, enriched,
                   idempotencyKey, hashing, confirming, checking, submission, session,
                   edgeState, counters>>

\* Faulty variant of SelectFiles: the old fingerprint stays until the new one
\* is there.
SelectFilesKeepHash(s, f) ==
    LET next == [slotFiles EXCEPT ![s] = f] IN
    /\ step = 1 /\ s \in SlotsOf[evidenceDef]
    /\ selections < MaxFiles /\ selections' = selections + 1
    /\ slotFiles' = next
    /\ enrichment' = Nil /\ enrichmentConfirmed' = FALSE
    /\ sigVerify' = Nil /\ fieldsFromDocument' = FALSE
    /\ hashing' = IF next = Empty THEN hashing ELSE [hashing EXCEPT ![selections'] = next]
    /\ UNCHANGED <<step, choice, documentPackageHash, hasQualifiedSignature,
                   idempotencyKey, loads, confirming, checking, submission, session,
                   edgeState, types, starts, outages, backs, late>>

\* The file of a slot is chosen or removed: what was derived from the package
\* goes, and a fingerprint of the new one is begun.
SelectFiles(s, f) ==
    LET next == [slotFiles EXCEPT ![s] = f] IN
    /\ step = 1 /\ s \in SlotsOf[evidenceDef]
    /\ selections < MaxFiles /\ selections' = selections + 1
    /\ slotFiles' = next /\ documentPackageHash' = Nil
    /\ enrichment' = Nil /\ enrichmentConfirmed' = FALSE
    /\ sigVerify' = Nil /\ fieldsFromDocument' = FALSE
    /\ hashing' = IF next = Empty THEN hashing ELSE [hashing EXCEPT ![selections'] = next]
    /\ UNCHANGED <<step, choice, hasQualifiedSignature, idempotencyKey, loads,
                   confirming, checking, submission, session, edgeState, types, starts,
                   outages, backs, late>>

\* A fingerprint is ready and is taken for that of the page's package.
Hashed(i) ==
    /\ step # Gone /\ hashing[i] # Nil
    /\ hashing' = [hashing EXCEPT ![i] = Nil]
    /\ documentPackageHash' = hashing[i]
    /\ TooLate("hash", slotFiles \notin {hashing[i], Empty})
    /\ UNCHANGED <<step, choice, slotFiles, signature, fieldsFromDocument, enriched,
                   idempotencyKey, loads, confirming, checking, submission, session,
                   edgeState, counters>>

\* The buttons that only turn a page.
TurnPage ==
    /\ \/ /\ \/ step1Ok /\ Turn(1, 2)
             \/ step3Ok /\ Turn(3, 4)
             \/ step4Ok /\ Turn(4, 5)
          /\ UNCHANGED backs
       \/ Turn(step, step - 1) /\ step \in {1, 3, 4, 5} /\ Back
    /\ UNCHANGED <<choice, package, signature, fieldsFromDocument, enriched,
                   idempotencyKey, awaited, submission, session, edgeState, types,
                   selections, starts, outages, late>>
-----------------------------------------------------------------------------
(***************************************************************************)
(* Steps 2 to 4: signature, declaration, enrichment.                       *)
(***************************************************************************)

\* The box that a qualified signature is there; whoever ticks it, or changes
\* the mode of the verification, has to confirm anew.
TickSignature(present) ==
    /\ step = 2
    /\ hasQualifiedSignature' = present /\ sigVerify' = Nil
    /\ UNCHANGED <<step, choice, package, fieldsFromDocument, enriched, idempotencyKey,
                   awaited, submission, session, edgeState, counters, late>>

\* Back to the files, also while a confirmation is under way.
BackToEvidence ==
    /\ Turn(2, 1) /\ Back
    /\ sigVerify' = Nil
    /\ UNCHANGED <<choice, package, hasQualifiedSignature, fieldsFromDocument, enriched,
                   idempotencyKey, awaited, submission, session, edgeState, types, selections,
                   starts, outages, late>>

\* confirmSignature up to its call.  Without a session at the edge the answer
\* is an error, which leaves the page without a confirmation.
ConfirmSignature ==
    /\ step = 2 /\ browser # Nil
    /\ confirming = Nil /\ hasQualifiedSignature /\ documentPackageHash # Nil
    /\ sigVerify' = Nil
    /\ confirming' = IF live THEN documentPackageHash ELSE Nil
    /\ UNCHANGED <<step, choice, package, hasQualifiedSignature, fieldsFromDocument,
                   enriched, idempotencyKey, loads, hashing, checking, submission,
                   session, edgeState, counters, late>>

\* verifySignature at the edge, over the fingerprint it was sent: a
\* confirmation of that one, or a refusal (no attestation, no trusted chain).
Verification(hash) == {hash, Nil}

\* The answer is kept, and turns the page to the fields from wherever it is.
SignatureAnswers ==
    /\ step # Gone /\ confirming # Nil
    /\ confirming' = Nil
    /\ \E verified \in Verification(confirming) :
          IF verified = Nil THEN UNCHANGED <<sigVerify, step, late>>
          ELSE /\ sigVerify' = verified /\ step' = 3
               /\ TooLate("signature", documentPackageHash # verified)
    /\ UNCHANGED <<choice, package, hasQualifiedSignature, fieldsFromDocument, enriched,
                   idempotencyKey, loads, hashing, checking, submission, session, edgeState,
                   counters>>

\* The box that the fields are the documents'.
DeclareFields(declared) ==
    /\ step = 3 /\ fieldsFromDocument' = declared
    /\ UNCHANGED <<step, choice, package, signature, enriched, idempotencyKey, awaited,
                   submission, session, edgeState, counters, late>>

\* runEnrichment up to its call; without a session at the edge it comes to
\* nothing.
RunEnrichment ==
    /\ step = 4 /\ browser # Nil /\ live
    /\ checking = Nil /\ checking' = documentPackageHash
    /\ UNCHANGED <<step, choice, package, signature, fieldsFromDocument, enriched,
                   idempotencyKey, loads, hashing, confirming, submission, session, edgeState,
                   counters, late>>

\* check at the edge: signals about the package it was asked for, its own or
\* the gateway's; the gateway may fail.
Signals(hash) == {hash, Nil}

EnrichmentAnswers ==
    /\ step # Gone /\ checking # Nil
    /\ checking' = Nil
    /\ \E signals \in Signals(checking) :
          IF signals = Nil THEN UNCHANGED <<enrichment, late>>
          ELSE enrichment' = signals /\ TooLate("enrichment", documentPackageHash # signals)
    /\ UNCHANGED <<step, choice, package, signature, fieldsFromDocument,
                   enrichmentConfirmed, idempotencyKey, loads, hashing, confirming,
                   submission, session, edgeState, counters>>

SkipEnrichment ==
    /\ step = 4
    /\ enrichment' = Nil /\ enrichmentConfirmed' = TRUE
    /\ UNCHANGED <<step, choice, package, signature, fieldsFromDocument, idempotencyKey,
                   awaited, submission, session, edgeState, counters, late>>

\* The box that the signals were reviewed.
ReviewEnrichment(reviewed) ==
    /\ step = 4 /\ enrichment # Nil
    /\ enrichmentConfirmed' = reviewed
    /\ UNCHANGED <<step, choice, package, signature, fieldsFromDocument, enrichment,
                   idempotencyKey, awaited, submission, session, edgeState, counters, late>>
-----------------------------------------------------------------------------
(***************************************************************************)
(* Step 5: the submission.                                                 *)
(***************************************************************************)
InFlight == submission # Nil /\ submission.at # "closed"

\* The key is the page's, made when it opened, until its user edits it.
EditKey(k) ==
    /\ step = 5 /\ idempotencyKey' = k
    /\ UNCHANGED <<step, choice, package, signature, fieldsFromDocument, enriched, awaited,
                   submission, session, edgeState, counters, late>>

\* onSubmit up to its call: the values of the moment are sent, and the page
\* can be worked on while the answer is awaited.
Submit ==
    /\ step = 5 /\ browser # Nil /\ canSubmit /\ ~InFlight
    /\ starts < MaxStarts /\ starts' = starts + 1
    /\ submission' =
           [body |-> [package |-> slotFiles, type |-> assetType,
                      hash |-> documentPackageHash, verified |-> sigVerify,
                      enrichment |-> enrichment],
            key |-> idempotencyKey, by |-> browser,
            at |-> IF live THEN "sent" ELSE "failed",
            late |-> late \cup (IF loads = [t \in Type |-> 0] THEN {} ELSE {"catalogue"})]
    /\ UNCHANGED <<step, choice, package, signature, fieldsFromDocument, enriched,
                   idempotencyKey, awaited, session, edgeState, types, selections, outages,
                   backs, late>>

\* The process an institution's key stands for.
Known(by, k) == {p \in processes : p.by = by /\ p.key = k}

\* Faulty variant of EdgeAccepts: whoever repeats a key is given its process.
EdgeAcceptsAnyPayload ==
    LET p == [by |-> submission.by, key |-> submission.key, body |-> submission.body] IN
    /\ step # Gone /\ InFlight /\ submission.at = "sent"
    /\ processes' = IF Known(p.by, p.key) = {} THEN processes \cup {p} ELSE processes
    /\ \E at \in {"answered", "failed"} : submission' = [submission EXCEPT !.at = at]
    /\ UNCHANGED <<step, choice, package, signature, fieldsFromDocument, enriched,
                   idempotencyKey, awaited, session, opened, counters, late>>

\* create at the edge: a new key is a new process, a known key with the same
\* payload its process again, with another payload a refusal.  The answer may
\* be lost on the way.
EdgeAccepts ==
    LET p == [by |-> submission.by, key |-> submission.key, body |-> submission.body] IN
    /\ step # Gone /\ InFlight /\ submission.at = "sent"
    /\ \/ /\ Known(p.by, p.key) \subseteq {p}
          /\ processes' = processes \cup {p}
          /\ \E at \in {"answered", "failed"} : submission' = [submission EXCEPT !.at = at]
       \/ /\ ~(Known(p.by, p.key) \subseteq {p})
          /\ submission' = [submission EXCEPT !.at = "failed"]
          /\ UNCHANGED processes
    /\ UNCHANGED <<step, choice, package, signature, fieldsFromDocument, enriched,
                   idempotencyKey, awaited, session, opened, counters, late>>

\* An accepted submission leads to its process's page, a failed one leaves
\* the wizard where it is, its key included.
SubmissionAnswers ==
    /\ step # Gone /\ InFlight /\ submission.at # "sent"
    /\ submission' = [submission EXCEPT !.at = "closed"]
    /\ \/ /\ submission.at = "answered"
          /\ step' = Gone
          /\ \E p \in Known(submission.by, submission.key) : opened' = p
       \/ submission.at = "failed" /\ UNCHANGED <<step, opened>>
    /\ UNCHANGED <<choice, package, signature, fieldsFromDocument, enriched, idempotencyKey,
                   awaited, session, processes, counters, late>>
-----------------------------------------------------------------------------
(***************************************************************************)
(* Sessions: in the browser's storage, which its tabs share, and in the    *)
(* memory of the edge.                                                     *)
(***************************************************************************)
SessionEnds ==
    submission' = IF InFlight /\ submission.at = "sent"
                  THEN [submission EXCEPT !.at = "failed"] ELSE submission

\* Logout in another tab, or the end of the session's eight hours.
Logout ==
    /\ step # Gone /\ browser # Nil
    /\ outages < MaxOutages /\ outages' = outages + 1
    /\ browser' = Nil /\ live' = FALSE
    /\ SessionEnds
    /\ UNCHANGED <<step, choice, package, signature, fieldsFromDocument, enriched,
                   idempotencyKey, awaited, edgeState, types, selections, starts,
                   backs, late>>

SignIn(institution) ==
    /\ step # Gone /\ browser = Nil
    /\ browser' = institution /\ live' = TRUE
    /\ UNCHANGED <<step, choice, package, signature, fieldsFromDocument, enriched,
                   idempotencyKey, awaited, submission, edgeState, counters, late>>

\* The edge forgets its sessions, and the browser does not notice.
EdgeForgets ==
    /\ step # Gone /\ live
    /\ outages < MaxOutages /\ outages' = outages + 1
    /\ live' = FALSE
    /\ SessionEnds
    /\ UNCHANGED <<step, choice, package, signature, fieldsFromDocument, enriched,
                   idempotencyKey, awaited, browser, edgeState, types, selections, starts,
                   backs, late>>

\* A handler that finds no session in the storage leaves for the login page.
Redirect ==
    /\ browser = Nil
    /\ \/ step = 2 /\ confirming = Nil /\ hasQualifiedSignature
       \/ step = 4 /\ checking = Nil
       \/ step = 5 /\ canSubmit /\ ~InFlight
    /\ step' = Gone
    /\ UNCHANGED <<choice, package, signature, fieldsFromDocument, enriched, idempotencyKey,
                   awaited, submission, session, edgeState, counters, late>>

User ==
    \/ \E t \in Type : SelectType(t)
    \/ ContinueToEvidence
    \/ \E s \in Slot, f \in File \cup {Nil} : SelectFiles(s, f)
    \/ TurnPage
    \/ \E b \in BOOLEAN : TickSignature(b) \/ DeclareFields(b) \/ ReviewEnrichment(b)
    \/ BackToEvidence \/ ConfirmSignature \/ RunEnrichment \/ SkipEnrichment
    \/ \E k \in IdempotencyKey : EditKey(k)
    \/ Submit

Answers ==
    \/ \E t \in Type : CatalogueAnswers(t)
    \/ \E i \in 1..MaxFiles : Hashed(i)
    \/ SignatureAnswers \/ EnrichmentAnswers \/ EdgeAccepts \/ SubmissionAnswers

Sessions ==
    \/ Logout \/ EdgeForgets \/ Redirect
    \/ \E i \in Institution : SignIn(i)

WizardNext == User \/ Answers \/ Sessions

WizardSpec == WizardInit /\ [][WizardNext]_wizardVars
-----------------------------------------------------------------------------
\* The fingerprint that is submitted is that of the files that are submitted,
\* unless the fingerprint of files replaced since was the last to be ready.
FingerprintIsOfPackage ==
    submission # Nil /\ "hash" \notin submission.late
        => submission.body.hash = submission.body.package

\* The fingerprint that is submitted is the one whose signature was confirmed,
\* however often files were changed and pages turned, unless the confirmation
\* or a fingerprint arrived after the package it was for had been replaced.
SubmittedIsVerified ==
    submission # Nil /\ {"hash", "signature"} \cap submission.late = {}
        => submission.body.verified = submission.body.hash

\* Signals that go with a submission were asked for its package, unless they
\* or a fingerprint arrived after the package had been replaced.
SignalsAreOfPackage ==
    submission # Nil /\ {"hash", "enrichment"} \cap submission.late = {}
        => submission.body.enrichment \in {Nil, submission.body.hash}

\* The documents the submitted type requires are in the package, unless the
\* catalogue answered for a type given up since, or not yet.
EvidenceIsOfType ==
    submission # Nil /\ "catalogue" \notin submission.late
        => \A s \in Required[submission.body.type] : submission.body.package[s] # Nil

\* The process whose page the wizard opens is the submitting institution's and
\* carries what was submitted last, although earlier submissions with the same
\* key may have been accepted without the page learning of it.
OpenedIsSubmitted ==
    opened # Nil => opened.body = submission.body /\ opened.by = submission.by

\* What is submitted fits together: files, fingerprint, confirmed signature, signals and the
\* documents of the type are of one package, but for answers that came too late, each named.
SubmittedFits ==
    /\ WizardTypeOK
    /\ FingerprintIsOfPackage
    /\ SubmittedIsVerified
    /\ SignalsAreOfPackage
    /\ EvidenceIsOfType
=============================================================================
