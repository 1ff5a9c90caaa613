--------------------------- MODULE SignedDocuments ---------------------------
(***************************************************************************)
(* The documents of a process at the edge: the confirmation of a signature *)
(* over a package (verify-signature), by attestation or by a detached      *)
(* X.509 signature, and the certificates the configuration makes trusted.  *)
(* A request says what it brings:                                          *)
(* the content of a package stands for its SHA-256; a certificate that     *)
(* does not parse is Broken, one not sent Absent.  A source of anchors is  *)
(* "unset", "missing" (set, but not there), "broken" (a certificate in it  *)
(* does not parse) or a set of certificates.                               *)
(*                                                                         *)
(* First the trust decision (x509-verify.ts): from the signer's            *)
(* certificate, the leaf, over the certificates sent along, to a           *)
(* configured trust anchor.  A certificate is an atom, known by its        *)
(* fingerprint; Signed says whose name and key another one bears.          *)
(***************************************************************************)
EXTENDS Naturals, FiniteSets, Sequences, SequencesExt

CONSTANTS Cert,
          Signed,     \* pairs <<child, issuer>>: issuerMatches and verifySignedBy
          Depth       \* a chain may have this many certificates: 6 in the code

ASSUME ChainAssumption == Signed \subseteq Cert \X Cert /\ Depth \in Nat \ {0}

Issuers(c, pool) == {d \in pool : <<c, d>> \in Signed}

Untrusted == 0

\* The leaf vouches for itself.
SelfSigned(leaf, allowSelf) == allowSelf /\ <<leaf, leaf>> \in Signed

\* Faulty variant of Levels: a certificate met before is followed no more, the
\* anchors included.
LevelsDropIssuers(leaf, mids, anchors) ==
    LET level[n \in 1..Depth] ==
            IF n = 1 THEN [seen |-> {leaf} \cup mids, now |-> {leaf}]
            ELSE LET next == (UNION {Issuers(c, mids \cup anchors) : c \in level[n - 1].now})
                                 \ level[n - 1].seen
                 IN  [seen |-> level[n - 1].seen \cup next, now |-> next]
    IN  level

\* The search: level n has the certificates first met as the n-th of a chain.
\* The direct issue and the single intermediate, which the code tries before
\* its queue, are the levels 2 and 3.
Levels(leaf, mids, anchors) ==
    LET level[n \in 1..Depth] ==
            IF n = 1 THEN [seen |-> {leaf}, now |-> {leaf}]
            ELSE LET next == (UNION {Issuers(c, mids \cup anchors) : c \in level[n - 1].now})
                                 \ level[n - 1].seen
                 IN  [seen |-> level[n - 1].seen \cup next, now |-> next]
    IN  level

\* resolveTrustAnchor: the length of the chain it accepts, or Untrusted.
ChainDepth(leaf, mids, anchors, allowSelf) ==
    LET level == Levels(leaf, mids, anchors)
        anchored == {n \in 1..Depth : level[n].now \cap anchors # {}}
    IN  IF anchored # {} THEN CHOOSE n \in anchored : \A m \in anchored : n <= m
        ELSE IF SelfSigned(leaf, allowSelf) THEN 1
        ELSE Untrusted
-----------------------------------------------------------------------------
\* Reference: c can be the n-th certificate of some chain from the leaf whose
\* further certificates are sent along or configured, repetitions allowed.
CanBeNth(leaf, pool) ==
    LET nth[n \in 1..Depth] ==
            IF n = 1 THEN {leaf}
            ELSE {c \in pool : \E d \in nth[n - 1] : <<d, c>> \in Signed}
    IN  nth

\* Reference: the lengths of the chains from the leaf to an anchor.
AnchoredLengths(leaf, mids, anchors) ==
    LET nth == CanBeNth(leaf, mids \cup anchors)
    IN  {n \in 1..Depth : nth[n] \cap anchors # {}}
-----------------------------------------------------------------------------
CONSTANTS Expired,         \* certificates not valid now
          Bound,           \* pairs <<certificate, institution>> its subject names
          Absent, Broken,  \* no certificates
          DemoAnchors      \* those of the repository's demo

Certificates(source) == IF source.kind = "some" THEN source.certs ELSE {}

\* loadTrustAnchorsFromEnv: PEMs, a file and a directory (the last two are treated
\* alike); a broken one fails the request.  The demo is taken if nothing was found,
\* whatever had been set.
Anchors(config) ==
    LET loaded == Certificates(config.pems) \cup Certificates(config.dir)
        fails == "broken" \in {config.pems.kind, config.dir.kind}
    IN  [ok |-> ~fails,
         certs |-> IF fails THEN {} ELSE IF loaded = {} /\ config.demo THEN DemoAnchors ELSE loaded]

\* subjectBindsInstitution; without an institution anything goes.
Binds(leaf, institution) == institution = Absent \/ <<leaf, institution>> \in Bound

\* verifyDetachedSignature: over the bytes of the hash, or its hexadecimal text.
Verifies(leaf, package, signature) ==
    /\ signature.by = leaf /\ signature.over = package
    /\ signature.form \in {"bytes", "hex"}

\* certValidNow, of the leaf only.
ValidNow(c) == c \in Cert /\ c \notin Expired

Check(holds, code) == [holds |-> holds, code |-> code]

\* The checks are made in turn; the first that fails decides the answer.
Decided(checks, mode) ==
    LET at == SelectInSeq(checks, LAMBDA c : ~c.holds) IN
    IF at = 0 THEN [is |-> "verified", mode |-> mode]
    ELSE [is |-> checks[at].code, mode |-> "none"]

\* verifyX509Detached
VerifyX509(req, config) ==
    LET anchors == Anchors(config)
        chain == req.chain \cap Cert
    IN  Decided(<<
            Check(req.leaf # Absent, "X509_CERT_INVALID"),
            Check(req.signature.by # Absent, "X509_SIGNATURE_INVALID"),
            Check(req.leaf # Broken, "X509_CERT_INVALID"),
            Check(ValidNow(req.leaf), "X509_CERT_EXPIRED"),
            Check(Broken \notin req.chain, "X509_CERT_INVALID"),
            Check(anchors.ok, "X509_TRUST_NOT_CONFIGURED"),
            Check(anchors.certs # {} \/ SelfSigned(req.leaf, config.allowSelf),
                  "X509_TRUST_NOT_CONFIGURED"),
            Check(ChainDepth(req.leaf, chain, anchors.certs, config.allowSelf) # Untrusted,
                  "X509_CHAIN_UNTRUSTED"),
            Check(Verifies(req.leaf, req.package, req.signature), "X509_SIGNATURE_INVALID"),
            Check(~config.bind \/ Binds(req.leaf, req.institution), "X509_INSTITUTION_MISMATCH")
        >>, "x509_detached")

\* A mode of another name is an attestation.
ModeOf(req) ==
    IF req.mode \in {"x509", "x509_detached", "qes_x509"} THEN "x509_detached"
    ELSE "institutional_attestation"

\* verify-signature of the documents' controller.
VerifySignature(req, config) ==
    LET first == Decided(<<
            Check(req.package # Absent, "MISSING_DOCUMENTS"),
            Check(req.claimed, "MISSING_QUALIFIED_SIGNATURE"),
            Check(~config.required \/ ModeOf(req) = "x509_detached", "X509_REQUIRED")
        >>, ModeOf(req))
    IN  CASE first.is # "verified" -> first
          [] ModeOf(req) = "x509_detached" /\ first.is = "verified" -> VerifyX509(req, config)
          [] OTHER -> Decided(<<Check(req.attested, "SIGNATURE_ATTESTATION_REQUIRED")>>,
                             "institutional_attestation")
=============================================================================
