--------------------------- MODULE PackageEncoding ---------------------------
(***************************************************************************)
(* A process transaction is written as one package: the body is validated  *)
(* against the schema of its type and normalized, the envelope is written  *)
(* canonically and hashed, the package may be signed; a text that comes    *)
(* back is decoded.  A text stands for the object it parses to, and the    *)
(* hash of an object for the object: writing canonically loses nothing but *)
(* the order of keys, and SHA-256 does not collide.                        *)
(*                                                                         *)
(* A body maps the fields present to what was written there: a content in  *)
(* a form, "plain" as normalized, "loose" otherwise (spaces around it; a   *)
(* hash in capitals), or "empty" ('' or null), "blank", "wrong" (another   *)
(* type than string, no amount or hash, too long), "fraction" (a number    *)
(* that is not whole, which cannot be written canonically).                *)
(***************************************************************************)
EXTENDS Naturals, Functions

CONSTANTS Content,      \* what fields may say
          GoodId, BadId,\* process ids: of the pattern, and not
          Foreign       \* a field that is in no schema

Types == {"primary_tokenization", "revaluation", "ownership_transfer", "partial_release"}

\* The fields of a schema; a type without one has the institution only.
Required(type) ==
    {"institutionId"} \cup
    CASE type = "primary_tokenization" -> {"valuation", "holderId"}
      [] type = "revaluation" -> {"assetId", "previousValue", "newValue"}
      [] type = "ownership_transfer" -> {"assetId", "fromHolderId", "toHolderId", "amount"}
      [] type = "partial_release" -> {"holderId", "releaseAmount"}
      [] OTHER -> {}

Optional(type) ==
    CASE type = "primary_tokenization" -> {"assetId", "documentPackageHash"}
      [] type \in {"revaluation", "ownership_transfer"} -> {"documentPackageHash"}
      [] type = "partial_release" -> {"remintAmount", "assetId", "parentProcessId",
                                      "parentClaimId", "documentPackageHash"}
      [] OTHER -> {}

Fields(type) == Required(type) \cup Optional(type)

Written == [form : {"plain", "loose"}, says : Content]
              \cup [form : {"empty", "blank", "wrong", "fraction"}, says : {Foreign}]
Plain(c) == [form |-> "plain", says |-> c]

Says(w) == w.form \in {"plain", "loose"}
Unset(w) == w.form \in {"empty", "blank"}

\* Faulty variant of Complete: a field with nothing in it is present.
CompleteIfThere(type, body) == Required(type) \subseteq DOMAIN body

Complete(type, body) ==
    \A f \in Required(type) : f \in DOMAIN body /\ ~Unset(body[f])

Allowed(type, body) ==
    \A f \in DOMAIN body : f \in Fields(type) /\ (Unset(body[f]) \/ Says(body[f]))

Normal(body) ==
    [f \in {g \in DOMAIN body : Says(body[g])} |-> Plain(body[f].says)]

\* A transfer is between two holders.
Differ(type, body) ==
    type = "ownership_transfer" => body["fromHolderId"] # body["toHolderId"]

\* validateAndNormalize, whether it throws.
Valid(processId, type, body) ==
    /\ processId = GoodId /\ type # ""
    /\ Complete(type, body) /\ Allowed(type, body) /\ Differ(type, Normal(body))

Envelope(processId, type, body, version) ==
    [processId |-> processId, type |-> type, body |-> body, version |-> version]

\* encodeProcessTx, of an input that is valid.
Encode(processId, type, body) ==
    LET env == Envelope(processId, type, Normal(body), "current") IN
    [processId |-> processId, type |-> type, version |-> "current",
     encoded |-> env, payloadHash |-> env, body |-> Normal(body)]

\* verifyEncodedPackage
VerifyEncoded(pkg) == pkg.payloadHash = pkg.encoded
-----------------------------------------------------------------------------
(***************************************************************************)
(* Decoding.  NoHash: no hash is expected.                                 *)
(***************************************************************************)
NoHash == Envelope(BadId, "", <<>>, "none")

Thrown == [is |-> "thrown", payloadHash |-> NoHash, body |-> <<>>]
Refused == [is |-> "refused", payloadHash |-> NoHash, body |-> <<>>]

\* The hash expected is compared with that of the text and, if the text is not
\* the package it stands for, with that of the package; at the current version only.
Matches(text, again, expected) ==
    \/ expected = NoHash
    \/ expected = text /\ (text.version = "current" => expected = again)

\* decodeProcessTx: the text is hashed before it is validated and outside the try.
Decode(text, expected) ==
    LET again == Encode(text.processId, text.type, text.body) IN
    IF \E f \in DOMAIN text.body : text.body[f].form = "fraction" THEN Thrown
    ELSE IF ~Valid(text.processId, text.type, text.body) THEN Refused
    ELSE [is |-> IF Matches(text, again.payloadHash, expected) THEN "valid" ELSE "refused",
          payloadHash |-> again.payloadHash, body |-> again.body]
-----------------------------------------------------------------------------
(***************************************************************************)
(* Signing.  A signature is the signer and the digest signed.              *)
(***************************************************************************)
SigningDigest(pkg) ==
    [payloadHash |-> pkg.payloadHash, processId |-> pkg.processId, type |-> pkg.type,
     version |-> pkg.version]

SignPackage(signer, pkg) ==
    [package |-> pkg, signingDigest |-> SigningDigest(pkg), signer |-> signer,
     signature |-> [by |-> signer, over |-> SigningDigest(pkg)]]

\* verifyPackageSignature
VerifySigned(signed) ==
    /\ VerifyEncoded(signed.package)
    /\ SigningDigest(signed.package) = signed.signingDigest
    /\ signed.signature = [by |-> signed.signer, over |-> signed.signingDigest]
=============================================================================
