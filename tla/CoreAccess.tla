------------------------------ MODULE CoreAccess ------------------------------
(***************************************************************************)
(* Who asks, over HTTP: the credentials of institutions as configured, at  *)
(* the core and at the edge, how a request to read says who it is, and how *)
(* a new process gets its institution.  A header is an institution or a    *)
(* token, or not sent (NotSent); names are compared in capitals and        *)
(* without spaces around.                                                  *)
(* A source of credentials is a sequence of rows, empty if it is not set,  *)
(* not there or no JSON: rows without a name or a token are dropped.       *)
(***************************************************************************)
EXTENDS Naturals, Sequences, SequencesExt

CONSTANTS Institution, Token,
          NotSent,
          BuiltIn,      \* the rows of the program itself
          EdgeBuiltIn   \* those of the edge, which a demo has

Credential == [institutionId : Institution, token : Token, allowlisted : BOOLEAN]

\* The edge's demo has every row of the core's, and one row of an institution; that is so
\* if the environment gives the edge no other token for the demo's institution.
ASSUME AccessAssumption ==
    /\ NotSent \notin Institution \cup Token
    /\ BuiltIn \in Seq(Credential) /\ EdgeBuiltIn \in Seq(Credential)
    /\ ToSet(BuiltIn) \subseteq ToSet(EdgeBuiltIn)
    /\ \A i, j \in DOMAIN EdgeBuiltIn :
          EdgeBuiltIn[i].institutionId = EdgeBuiltIn[j].institutionId => i = j

\* Of the two sources the first that has rows.
Configured(config, otherwise) ==
    CASE config.json # <<>> -> config.json
      [] config.json = <<>> /\ config.file # <<>> -> config.file
      [] OTHER -> otherwise

\* loadInstitutionCredentials at the core, loadAccounts at the edge.
Credentials(config) == Configured(config, BuiltIn)
EdgeAccounts(config) == Configured(config, IF config.demo THEN EdgeBuiltIn ELSE <<>>)

\* Where the row of an institution is, of several the last; 0 if there is none.
RowNaming(rows, id) == SelectLastInSeq(rows, LAMBDA row : row.institutionId = id)

No(code) == [ok |-> FALSE, who |-> NotSent, code |-> code]

\* authenticate, fail-closed.
Authenticate(config, id, token) ==
    LET rows == Credentials(config)
        at == RowNaming(rows, id)
    IN
    CASE id = NotSent -> No("AUTH_INSTITUTION_REQUIRED")
      [] id # NotSent /\ token = NotSent -> No("AUTH_TOKEN_REQUIRED")
      [] id # NotSent /\ token # NotSent /\ at = 0 -> No("AUTH_UNKNOWN_INSTITUTION")
      [] OTHER ->
            IF rows[at].token # token THEN No("AUTH_INVALID_TOKEN")
            ELSE IF ~rows[at].allowlisted THEN No("AUTH_NOT_ALLOWLISTED")
            ELSE [ok |-> TRUE, who |-> id, code |-> "OK"]

\* AuthService.login of the edge, by a password, if that is enough; what it lets
\* in it hands to the core as it is.
Login(config, id, token) ==
    LET accounts == EdgeAccounts(config)
        at == RowNaming(accounts, id)
    IN  CASE config.certified -> No("AUTH_PASSWORD_DISABLED")
          [] ~config.certified /\ (id = NotSent \/ token = NotSent) -> No("AUTH_REQUIRED")
          [] OTHER ->
                IF accounts = <<>> THEN No("AUTH_NOT_CONFIGURED")
                ELSE IF at = 0 \/ accounts[at].token # token THEN No("AUTH_INVALID")
                ELSE IF ~accounts[at].allowlisted THEN No("AUTH_NOT_ALLOWLISTED")
                ELSE [ok |-> TRUE, who |-> id, code |-> "OK"]

Reads(kind, who) == [kind |-> kind, who |-> who]

\* resolveReadPrincipal: the operators' token first, if there is one; then an
\* institution, if anything was sent of one.
ReadPrincipal(config, headers) ==
    LET r == Authenticate(config, headers.id, headers.token) IN
    IF config.ops # NotSent /\ headers.ops # NotSent
    THEN IF headers.ops = config.ops THEN Reads("ops", NotSent) ELSE Reads("refused", NotSent)
    ELSE IF headers.id # NotSent \/ headers.token # NotSent
    THEN IF r.ok THEN Reads("institution", r.who) ELSE Reads("refused", NotSent)
    ELSE Reads("anonymous", NotSent)

\* assertOps of the mirror's controller: open to anybody if no token is configured.
OpensMirror(config, headers) == config.ops = NotSent \/ headers.ops = config.ops

\* CoreProcessesController.create: without a token a name is enough, unless one is
\* required.
Submitter(config, headers) ==
    IF config.required \/ headers.token # NotSent
    THEN Authenticate(config, headers.id, headers.token)
    ELSE IF headers.id # NotSent THEN [ok |-> TRUE, who |-> headers.id, code |-> "OK"]
    ELSE No("FORBIDDEN")
=============================================================================
