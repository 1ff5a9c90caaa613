--------------------------- MODULE EvidenceCatalog ---------------------------
(***************************************************************************)
(* Which documents an asset of each type needs.  The catalogue is kept     *)
(* twice: at the edge (asset-evidence-catalog.ts), which answers for it    *)
(* over HTTP and checks a type by it before enrichment, and in the page    *)
(* (asset-evidence.ts), which falls back on its own copy whenever the edge *)
(* does not answer.  A slot is its name and whether it must be filled.     *)
(*                                                                         *)
(* A type that is asked for is a name, "" for none, and how it is spelled: *)
(* "exact", or with capitals or spaces, which the edge overlooks.          *)
(***************************************************************************)
EXTENDS Sequences, SequencesExt

CONSTANT NotListed      \* what is no type of the catalogue

MustHave(id) == [id |-> id, required |-> TRUE]
MayHave(id) == [id |-> id, required |-> FALSE]

\* The edge's catalogue.
ASSET_TYPE_CATALOG ==
    [real_estate |-> <<MustHave("title_registry"), MustHave("valuation_report"), MayHave("owner_id_annex")>>,
     bond |-> <<MustHave("instrument_terms"), MustHave("valuation_or_face"), MayHave("holder_statement")>>,
     investment_package |->
        <<MustHave("package_schedule"), MustHave("valuation_annex"), MayHave("beneficiary_schedule")>>,
     vehicle |-> <<MustHave("registration_cert"), MustHave("appraisal"), MayHave("lien_clear")>>,
     receivable |-> <<MustHave("underlying_contract"), MustHave("balance_statement"), MayHave("debtor_id")>>,
     equipment |-> <<MustHave("asset_register"), MustHave("appraisal"), MayHave("ownership_proof")>>,
     other |-> <<MustHave("cover_letter"), MustHave("valuation"), MayHave("supporting")>>]

\* The page's.
FALLBACK_CATALOG ==
    [real_estate |-> <<MustHave("title_registry"), MustHave("valuation_report"), MayHave("owner_id_annex")>>,
     bond |-> <<MustHave("instrument_terms"), MustHave("valuation_or_face"), MayHave("holder_statement")>>,
     investment_package |->
        <<MustHave("package_schedule"), MustHave("valuation_annex"), MayHave("beneficiary_schedule")>>,
     vehicle |-> <<MustHave("registration_cert"), MustHave("appraisal"), MayHave("lien_clear")>>,
     receivable |-> <<MustHave("underlying_contract"), MustHave("balance_statement"), MayHave("debtor_id")>>,
     equipment |-> <<MustHave("asset_register"), MustHave("appraisal"), MayHave("ownership_proof")>>,
     other |-> <<MustHave("cover_letter"), MustHave("valuation"), MayHave("supporting")>>]

IsListed(catalog, type) == type.name \in DOMAIN catalog
Requirements(catalog, type) ==
    IF IsListed(catalog, type) THEN [id |-> type.name, slots |-> catalog[type.name]] ELSE NotListed

\* getEvidenceRequirements: trimmed and in small letters.
GetEvidenceRequirements(type) == Requirements(ASSET_TYPE_CATALOG, type)

\* The page looks for the type as it is spelled.
Fallback(type) ==
    IF type.spelled = "exact" THEN Requirements(FALLBACK_CATALOG, type) ELSE NotListed

\* CatalogController.evidence
EvidenceAnswer(type, session) ==
    LET def == GetEvidenceRequirements(type) IN
    CASE ~session -> [status |-> 401]
      [] session /\ type.name = "" -> [status |-> 400]
      [] session /\ type.name # "" /\ def = NotListed -> [status |-> 404]
      [] OTHER -> [status |-> 200, def |-> def]

\* loadEvidenceForType: the answer if it is a good one.  A browser without a session
\* asks nothing; one with a session that the edge has forgotten is refused.
LoadEvidenceForType(type, held, session, arrives) ==
    LET answer == EvidenceAnswer(type, session) IN
    IF held /\ arrives /\ answer.status = 200 THEN answer.def ELSE Fallback(type)

\* requiredSlotsOk: every slot that must be has a file.
RequiredSlotsOk(slots, filled) ==
    \A i \in DOMAIN slots : slots[i].required => slots[i].id \in filled

\* EnrichmentController.check; a fingerprint may be left out, and may have capitals,
\* but no spaces.
CheckRefusal(type, session, hash) ==
    CASE ~session -> 401
      [] session /\ GetEvidenceRequirements(type) = NotListed -> 422
      [] session /\ GetEvidenceRequirements(type) # NotListed /\ hash = "other" -> 422
      [] OTHER -> 0
=============================================================================
