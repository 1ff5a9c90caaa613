----------------------------- MODULE EdgeIdentity -----------------------------
(***************************************************************************)
(* Logging in at the edge without a password: by the subject of a client   *)
(* certificate that a proxy vouches for, looked up in a map, or by a token *)
(* of an identity provider (mtls-oidc.ts, AuthService.loginMtls and        *)
(* loginOidc).  What a session is given for the core is the token of the   *)
(* institution's account, or one that is made up if it has none.           *)
(*                                                                         *)
(* A subject is the set of the fragments it contains.  A source of the map *)
(* is "unset" (or an empty one, or a file that is not there), "broken",    *)
(* "other" (JSON, but no list) or "list", with its rows; a row is a        *)
(* fragment and an institution, or NotSent.  A token is whether it is of   *)
(* three parts, signed with the secret, a JSON object, and has run out;    *)
(* its issuer, its audiences, and its claims.                              *)
(***************************************************************************)
EXTENDS CoreAccess

CONSTANTS Fragment,
          Nameless,        \* a claim that is no name: a blank, a number
          MadeUp        \* a token of no account

ASSUME IdentityAssumption == MadeUp \notin Token /\ NotSent \notin Fragment

\* Rows without a fragment or an institution are dropped.
Usable(row) == row.contains # NotSent /\ row.institutionId # NotSent

\* loadMtlsMap: the list that is given inline, if it is one; a broken one is not
\* made up for by the file.
LoadMtlsMap(config) ==
    CASE config.inline.kind = "broken" -> <<>>
      [] config.inline.kind = "list" -> config.inline.rows
      [] OTHER -> IF config.mapFile.kind = "list" THEN config.mapFile.rows ELSE <<>>

\* subjectFromMtlsHeaders: the first of three headers that has something in it.
SubjectFrom(headers) ==
    LET at == SelectInSeq(headers, LAMBDA h : h # NotSent) IN
    IF at = 0 THEN NotSent ELSE headers[at]

\* mapSubjectToInstitution: where the first row is whose fragment is in the subject.
Mapped(subject, map) == SelectInSeq(map, LAMBDA row : Usable(row) /\ row.contains \in subject)

\* issueSession: with the token of the account, or one that is made up.
Issued(config, id) ==
    LET rows == EdgeAccounts(config)
        at == RowNaming(rows, id)
    IN
    IF at = 0 THEN [ok |-> TRUE, who |-> id, code |-> "OK", token |-> MadeUp]
    ELSE IF ~rows[at].allowlisted THEN No("AUTH_NOT_ALLOWLISTED")
    ELSE [ok |-> TRUE, who |-> id, code |-> "OK", token |-> rows[at].token]

LoginMtls(config, headers) ==
    LET subject == SubjectFrom(headers)
        map == LoadMtlsMap(config)
    IN  CASE ~config.trustProxy -> No("MTLS_PROXY_REQUIRED")
          [] config.trustProxy /\ subject = NotSent -> No("MTLS_CLIENT_MISSING")
          [] config.trustProxy /\ subject # NotSent /\ (\A i \in DOMAIN map : ~Usable(map[i])) ->
                No("MTLS_MAP_NOT_CONFIGURED")
          [] OTHER ->
                IF Mapped(subject, map) = 0 THEN No("MTLS_NOT_MAPPED")
                ELSE Issued(config, map[Mapped(subject, map)].institutionId)

\* institutionIdFromClaims: the first of the four claims that is there, which must
\* then be a name; the later ones do not make up for it.
InstitutionFromClaims(claims) ==
    LET at == SelectInSeq(claims, LAMBDA c : c # NotSent) IN
    IF at = 0 THEN NotSent ELSE IF claims[at] = Nameless THEN NotSent ELSE claims[at]

\* verifyOidcHs256
TokenDefect(config, jwt) ==
    CASE ~(jwt.parts /\ jwt.signed /\ jwt.json) -> "OIDC_INVALID"
      [] jwt.parts /\ jwt.signed /\ jwt.json /\ jwt.past -> "OIDC_EXPIRED"
      [] OTHER ->
            IF \/ config.issuer \notin {NotSent, jwt.iss}
               \/ config.audience # NotSent /\ config.audience \notin jwt.aud
            THEN "OIDC_INVALID" ELSE "none"

\* loginOidc, of a bearer token or what was NotSent as one.
LoginOidc(config, jwt) ==
    CASE ~config.secret -> No("OIDC_NOT_CONFIGURED")
      [] config.secret /\ jwt = NotSent -> No("OIDC_REQUIRED")
      [] OTHER ->
            IF TokenDefect(config, jwt) # "none" THEN No(TokenDefect(config, jwt))
            ELSE IF InstitutionFromClaims(jwt.claims) = NotSent THEN No("OIDC_NO_INSTITUTION")
            ELSE Issued(config, InstitutionFromClaims(jwt.claims))
=============================================================================
