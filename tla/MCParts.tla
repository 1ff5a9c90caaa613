------------------------------- MODULE MCParts -------------------------------
(***************************************************************************)
(* Small parts, one of them in a behaviour: the initial state chooses what *)
(* the behaviour is about, the variables of the other parts never change.  *)
(*   supply            the arithmetic of Supply over a series of values    *)
(*   trust, documents  SignedDocuments; these and the                      *)
(*   reading           next ones are questions, and there are no steps:    *)
(*   package, signing  ReadScope, PackageEncoding                          *)
(*   oracle            OracleGateway                                       *)
(*   panel, models     Governance; of one process if all agents are models *)
(*   access, velocity  CoreAccess, Velocity, questions                     *)
(*   admission, again, direct    Admission: a request at the edge, a second*)
(*                     one under its key, a body sent to the core itself   *)
(*   nodes             NodeRegistry                                        *)
(*   history, refresh, process, rows    PortalPages, one kind of fetch     *)
(*   sessions          EdgeSessions                                        *)
(*   identity          EdgeIdentity, evidence EvidenceCatalog, text and fee*)
(*                     MoneyText, questions                                *)
(***************************************************************************)
EXTENDS Supply, SignedDocuments, ReadScope, PackageEncoding, OracleGateway, Governance,
        NodeRegistry, PortalPages, EdgeSessions, EdgeIdentity, Admission, Velocity,
        MoneyText, EvidenceCatalog

\* The supply: every small map of balances and a series of valuations of the asset.
CONSTANTS Holder, MaxBalance, MaxValue, MaxSupply

VARIABLES balances, value

supplyVars == <<balances, value>>

SupplyInit ==
    /\ balances \in [Holder -> 0..MaxBalance]
    /\ value \in 1..MaxValue

\* revalueAfterPot 387-412: a supply of zero is refused.
Revalue(new, order) ==
    /\ value > 0
    /\ SumFunction(balances) > 0
    /\ RevaluedSupply(SumFunction(balances), value, new) <= MaxSupply
    /\ balances' = Apply(balances, Allocations(balances, order, value, new)).balances
    /\ value' = new

SupplyNext == \E new \in 0..MaxValue : \E order \in Orders(balances) : Revalue(new, order)

CONSTANTS MaxRows,      \* of the journal in a question to ReadScope
          MaxAttestations,
          MaxCredentials,   \* in a source
          MaxDigits         \* of a text, after the point

\* The questions name these.
ASSUME PartsAssumption ==
    /\ {"i1", "i2"} \subseteq Institution /\ {"x", "y"} \subseteq Token /\ {"a", "b"} \subseteq Fragment
    /\ 5 <= RateUnit /\ 3 <= ShareUnit
    /\ IsFiniteSet(Holder) /\ {MaxBalance, MaxValue} \subseteq Nat

VARIABLES about, question

NoQuestion == [leaf |-> 0]

\* 1 to 5 sign one another upwards; 6 signs 2, so there are two ways up; 5 and
\* 7 sign themselves and 7 signs nobody else; 3 and 4 have signed each other.
MCCert == 1..7
MCSigned == {<<1, 2>>, <<2, 3>>, <<3, 4>>, <<4, 5>>, <<2, 6>>, <<6, 5>>, <<4, 3>>,
             <<5, 5>>, <<7, 7>>}

TrustQuestions == [leaf : {1, 3, 5, 7}, mids : SUBSET (1..6),
                   anchors : SUBSET {1, 4, 5, 7}, allowSelf : BOOLEAN]

ReadingQuestions ==
    [who : Principal, journal : BoundedSeq(Row, MaxRows), wanted : 1..(PageCap + 1)]

MCBuiltIn == <<[institutionId |-> "i1", token |-> "y", allowlisted |-> TRUE]>>

\* The edge's demo has an institution that the core has not.
MCEdgeBuiltIn ==
    MCBuiltIn \o <<[institutionId |-> "i2", token |-> "x", allowlisted |-> TRUE]>>

MCBound == {<<1, "i1">>, <<2, "i1">>, <<5, "i2">>, <<7, "i1">>}

\* A good request and a good configuration, and what may be otherwise, in two
\* respects at most.
GoodRequest ==
    [package |-> "k1", claimed |-> TRUE, mode |-> "x509", attested |-> TRUE, leaf |-> 1,
     chain |-> {2, 3}, institution |-> "i1",
     signature |-> [by |-> 1, over |-> "k1", form |-> "bytes"]]

Source(kind, certs) == [kind |-> kind, certs |-> certs]
GoodConfig ==
    [required |-> FALSE, bind |-> TRUE, allowSelf |-> FALSE, demo |-> FALSE,
     pems |-> Source("some", {4}), dir |-> Source("unset", {})]

Otherwise(record, values) ==
    {[x \in DOMAIN record |-> IF x = c[1] THEN c[2] ELSE IF x = d[1] THEN d[2] ELSE record[x]] :
        c \in values, d \in values}

RequestValues ==
    {"package"} \X {Absent, "k2"} \cup {"claimed", "attested"} \X {FALSE}
        \cup {"mode"} \X {"qes_x509", "institutional", "other"}
        \cup {"leaf"} \X {2, 5, 7, Absent, Broken}
        \cup {"chain"} \X {{}, {2, 6}, {2, 3, Broken}}
        \cup {"institution"} \X {"i2", Absent}
        \cup {"signature"} \X [by : {1, 2, 5, 7, Absent}, over : {"k1", "k2"},
                               form : {"bytes", "hex", "other"}]

ConfigValues ==
    {"required", "allowSelf", "demo"} \X {TRUE} \cup {"bind"} \X {FALSE}
        \cup {"pems"} \X {Source("some", {}), Source("some", {2, 7}), Source("missing", {}),
                          Source("broken", {3})}
        \cup {"dir"} \X {Source("some", {3}), Source("missing", {}), Source("broken", {})}

DocumentQuestions ==
    [request : Otherwise(GoodRequest, RequestValues), config : Otherwise(GoodConfig, ConfigValues)]

\* Bodies that differ from a plain one in at most two fields.
PlainBody(type) == [f \in Required(type) |-> Plain("c1")]
NotThere == [form |-> "absent", says |-> Foreign]

BodiesNear(type) ==
    {LET body == [f \in Fields(type) \cup {Foreign} |->
                     IF f = d THEN v ELSE IF f = e THEN w
                     ELSE IF f \in Required(type) THEN Plain("c1") ELSE NotThere]
     IN  Restrict(body, {f \in DOMAIN body : body[f] # NotThere}) :
        d \in Fields(type) \cup {Foreign}, e \in Fields(type) \cup {Foreign},
        v \in Written \cup {NotThere}, w \in Written \cup {NotThere}}

PackageQuestions ==
    UNION {[processId : {GoodId, BadId}, type : {type}, body : BodiesNear(type),
            version : {"current", "earlier"}] : type \in Types \cup {"other", ""}}

SigningQuestions ==
    [type : Types \ {"ownership_transfer"},
     altered : SUBSET {"encoded", "payloadHash", "body", "processId", "type", "signingDigest",
                       "signer"}]

OracleQuestions ==
    [of : Subject \cup {Unnamed}, list : BoundedSeq(Attestation, MaxAttestations)]

AccessQuestions ==
    [json : BoundedSeq(Credential, MaxCredentials), file : BoundedSeq(Credential, 1),
     configuredOps : {NotSent, "o1"}, required : BOOLEAN,
     demo : BOOLEAN, id : Institution \cup {NotSent}, token : Token \cup {NotSent}, ops : {NotSent, "o1", "o2"}]

Worthy(form, arx) == [form |-> form, arx |-> arx]

GoodAsk ==
    [institution |-> TRUE, key |-> "fit", type |-> "primary_tokenization",
     valuation |-> Worthy("decimal", 2), currency |-> "c1", signature |-> TRUE,
     hash |-> "small", holder |-> "h1", asset |-> NoName, wallet |-> NoName, id |-> NoName]

AskValues ==
    {"institution", "signature"} \X {FALSE} \cup {"key"} \X {"short", "long"}
        \cup {"type"} \X {NoName, "revaluation", "ownership_transfer", "other"}
        \cup {"valuation"} \X {Worthy(f, n) : f \in {"decimal", "loose", "fine", "other", "none"},
                                              n \in {-1, 0, 1, 3}}
        \cup {"hash"} \X {"capitals", "other", "another"} \cup {"holder"} \X {NoName, Endless, "h2"}
        \cup {"asset", "currency"} \X {"c2"} \cup {"wallet"} \X (Wallets \cup {"c2"})
        \cup {"id"} \X {"good", "bad"}

DirectBodies ==
    [key : {"short", "fit", "long"}, type : {"primary_tokenization", "revaluation", "other"},
     valuation : {Worthy(f, n) : f \in {"decimal", "loose", "fine", "none"}, n \in {-1, 0, 2, 3}},
     holder : {NoName, Endless, "h1"}, id : {"good", "bad"},
     signature : BOOLEAN, documents : BOOLEAN, allowlisted : BOOLEAN]

Lives ==
    [does : {"open", "mint"}, value : {1, 2}, before : {0}, old : 0..3]
        \cup [does : {"revalue"}, value : {1, 2}, before : {1, 3}, old : 0..3]

VelocityQuestions ==
    [lives : BoundedSeq(Lives, 2), supply : {0, 1, 3}, target : {0, 1}]

\* An institution with an account, a row of the map and a token of the provider.
AccountRow(id, allowed) == [institutionId |-> id, token |-> "x", allowlisted |-> allowed]
MapSource(kind, given) == [kind |-> kind, rows |-> given]
MapRow(fragment, id) == [contains |-> fragment, institutionId |-> id]
GoodToken ==
    [parts |-> TRUE, signed |-> TRUE, json |-> TRUE, past |-> FALSE, iss |-> "a",
     aud |-> {"a"}, claims |-> <<"i1">>]

GoodIdentity ==
    [accounts |-> [json |-> <<AccountRow("i1", TRUE)>>, file |-> <<>>, demo |-> FALSE],
     certified |-> FALSE, trustProxy |-> TRUE, secret |-> TRUE, issuer |-> NotSent,
     audience |-> NotSent, inline |-> MapSource("list", <<MapRow("a", "i1")>>),
     mapFile |-> MapSource("unset", <<>>), headers |-> <<NotSent, {"a", "b"}, NotSent>>,
     jwt |-> GoodToken]

AccountValues ==
    [json : {<<>>, <<AccountRow("i2", TRUE)>>, <<AccountRow("i1", TRUE), AccountRow("i1", FALSE)>>},
     file : {<<>>, <<AccountRow("i1", TRUE)>>}, demo : BOOLEAN]

MapValues ==
    {MapSource(k, <<>>) : k \in {"unset", "broken", "other", "list"}}
        \cup {MapSource("list", given) : given \in {<<MapRow("b", "i2"), MapRow("a", "i1")>>,
                                                   <<MapRow(NotSent, "i1"), MapRow("a", "i2")>>,
                                                   <<MapRow("a", NotSent)>>}}

HeaderValues == {<<NotSent, NotSent, NotSent>>, <<{"b"}, {"a"}, NotSent>>, <<{}>>}

TokenValues ==
    {[GoodToken EXCEPT ![f] = ~@] : f \in {"parts", "signed", "json", "past"}}
        \cup {[GoodToken EXCEPT !.iss = iss, !.aud = aud, !.claims = claims] :
                 iss \in {"a", NotSent}, aud \in {{}, {"a", "b"}},
                 claims \in {<<"i1">>, <<NotSent, "i2">>, <<Nameless, "i1">>, <<>>}}

IdentityValues ==
    {"accounts"} \X AccountValues
        \cup {"certified"} \X {TRUE} \cup {"trustProxy", "secret"} \X {FALSE}
        \cup {"issuer", "audience"} \X {"a", "b"} \cup {"inline", "mapFile"} \X MapValues
        \cup {"headers"} \X HeaderValues \cup {"jwt"} \X ({NotSent} \cup TokenValues)

MCTexts ==
    {NoText} \cup [neg : BOOLEAN, whole : {0, 2}, frac : BoundedSeq(0..(Radix - 1), MaxDigits),
                   commas : BOOLEAN, spaces : BOOLEAN]

One == InDigits(FALSE, 1, <<>>)
TextQuestions ==
    [amount : MCTexts,
     rate : {One} \cup {InDigits(FALSE, n, frac) : n \in {0, 1}, frac \in {<<2>>, <<0, 1>>, <<0, 0, 0, 1>>}}]

FeeQuestions ==
    [arx : {0, 1, 2, 5, 8, 9}, rate : {0, 1, 5, RateUnit}, waived : {0, 1, ShareUnit},
     share : {0, 3, ShareUnit}, weights : BoundedSeq(0..2, 3)]

EvidenceQuestions ==
    UNION {LET own == IF type \in DOMAIN ASSET_TYPE_CATALOG
                      THEN {ASSET_TYPE_CATALOG[type][i].id : i \in 1..3} ELSE {"valuation"}
           IN  [type : {type}, spelled : {"exact", "otherwise"}, held : BOOLEAN,
                session : BOOLEAN, arrives : BOOLEAN,
                filled : SUBSET own \cup {{"cover_letter", "valuation"}},
                hash : {"none", "hex", "other"}] :
           type \in DOMAIN ASSET_TYPE_CATALOG \cup {"gold", ""}}

NoSupply == balances = [h \in Holder |-> 0] /\ value = 0

NoPanel == panel = [a \in Agents |-> "policy"]

\* The panel of policies, of the mock model, with two HTTP agents; of models.
MCPanels ==
    {[a \in Agents |-> backend] : backend \in {"policy", "mock", "model"}}
        \cup {[a \in Agents |-> IF a \in {"anomaly_watch", "intake_integrity"} THEN "http"
                                ELSE "policy"]}

MCCommittees == {<<"a", "b">>, <<"a", "a">>, <<>>}

GovernanceOfOne ==
    /\ panel = [a \in Agents |-> "model"] /\ critical = {} /\ starts = 0
    /\ warned = {} /\ silent = {} /\ unaborted = {}
    /\ \E p \in Process :
          run = [q \in Process |-> IF q = p THEN NoRun ELSE [NoRun EXCEPT !.step = "stopped"]]

MCInit ==
    /\ PagesInit /\ SessionsInit /\ RegistryInit
    /\ \/ about = "supply" /\ SupplyInit /\ question = NoQuestion
       \/ about = "trust" /\ question \in TrustQuestions
       \/ about = "documents" /\ question \in DocumentQuestions
       \/ about = "reading" /\ question \in ReadingQuestions
       \/ about = "package" /\ question \in PackageQuestions
       \/ about = "signing" /\ question \in SigningQuestions
       \/ about = "oracle" /\ question \in OracleQuestions
       \/ about = "access" /\ question \in AccessQuestions
       \/ about \in {"admission", "again"} /\ question \in Otherwise(GoodAsk, AskValues)
       \/ about = "direct" /\ question \in DirectBodies
       \/ about = "velocity" /\ question \in VelocityQuestions
       \/ about = "identity" /\ question \in Otherwise(GoodIdentity, IdentityValues)
       \/ about = "text" /\ question \in TextQuestions
       \/ about = "fee" /\ question \in FeeQuestions
       \/ about = "evidence" /\ question \in EvidenceQuestions
       \/ /\ about \in {"history", "refresh", "process", "rows", "sessions", "nodes", "panel",
                         "models"}
          /\ question = NoQuestion
    /\ about = "supply" \/ NoSupply
    /\ \/ about = "panel" /\ GovernanceInit /\ panel # [a \in Agents |-> "model"]
       \/ about = "models" /\ GovernanceOfOne
       \/ about \notin {"panel", "models"} /\ GovernanceInit /\ NoPanel

PagesStep ==
    \/ about \in {"history", "refresh", "process", "rows"} /\ Serve
    \/ about = "history" /\ (Explore \/ \E p \in Proc : RecordOf(p))
    \/ about = "refresh" /\ (FollowChain \/ RecordElse)
    \/ about = "process" /\ (FollowProcess \/ RecordOf(Visited))
    \/ about = "rows" /\ Watch

MCNext ==
    /\ UNCHANGED <<about, question>>
    /\ \/ about = "supply" /\ SupplyNext
          /\ UNCHANGED <<pagesVars, sessionVars, govVars, registryVars>>
       \/ PagesStep /\ UNCHANGED <<supplyVars, sessionVars, govVars, registryVars>>
       \/ about = "sessions" /\ SessionsNext
          /\ UNCHANGED <<supplyVars, pagesVars, govVars, registryVars>>
       \/ about \in {"panel", "models"} /\ GovernanceNext
          /\ UNCHANGED <<supplyVars, pagesVars, sessionVars, registryVars>>
       \/ about = "nodes" /\ RegistryNext
          /\ UNCHANGED <<supplyVars, pagesVars, sessionVars, govVars>>

MCSpec ==
    MCInit /\ [][MCNext]_<<about, question, supplyVars, pagesVars, sessionVars, govVars, registryVars>>

AskedDepth ==
    ChainDepth(question.leaf, question.mids, question.anchors, question.allowSelf)
-----------------------------------------------------------------------------
\* resolveTrustAnchor trusts a leaf exactly if some chain of certificates sent
\* along leads from it to a configured anchor within the permitted length, or
\* it signs itself where that is allowed: the order in which the search meets
\* certificates, and what it has visited before, lose no chain.
TrustIsReachability ==
    about = "trust" =>
        (AskedDepth # Untrusted) =
            (\/ AnchoredLengths(question.leaf, question.mids, question.anchors) # {}
             \/ question.allowSelf /\ <<question.leaf, question.leaf>> \in Signed)

\* The depth that is reported is that of a shortest chain.
DepthIsShortest ==
    about = "trust" =>
        \A n \in AnchoredLengths(question.leaf, question.mids, question.anchors) :
            AskedDepth \in 1..n

\* The list of nodes shows the newest of the rows that the reader could also
\* read one by one, and no other; it shows fewer than are wanted only if the
\* journal has more rows than the window it is filtered from.
ListIsNewestReadable ==
    about = "reading" =>
        LET who == question.who
            readable == Kept(Reverse(question.journal), {row \in Row : CanReadRecord(who, row)})
            limit == Lesser(PageCap, question.wanted)
            list == ListNodes(who, question.journal, question.wanted)
        IN  /\ IsPrefix(list, readable) /\ Len(list) <= limit
            /\ Len(list) < Lesser(limit, Len(readable)) =>
                  Len(question.journal) > Lesser(RecentCap, OverFetch * limit)

\* The records of a process that a reader may ask for are its newest ones, and
\* the reader could read each of them by itself; one who may not ask for them
\* could not, but for system records.
ProcessIsNewestReadable ==
    about = "reading" =>
        \A of \in Owner :
            LET who == question.who
                own == Kept(question.journal, {row \in Row : row.of = of})
                told == ProcessRecords(question.journal, of, question.wanted)
            IN  /\ IsSuffix(told.rows, own) /\ Len(told.rows) = Lesser(question.wanted, Len(own))
                /\ \A row \in ToSet(own) :
                      CanReadRecord(who, row) = (CanReadProcess(who, of) \/ row.system)

\* What an X.509 confirmation rests on: the leaf is valid now and has signed this
\* very package, it is anchored, or vouches for itself where that is allowed, and
\* names the institution where that is asked.
Grounds(request, config) ==
    LET anchors == Anchors(config).certs
        chain == request.chain \cap Cert
        lengths == AnchoredLengths(request.leaf, chain, anchors)
    IN  /\ request.leaf \in Cert \ Expired
        /\ request.signature.by = request.leaf /\ request.signature.over = request.package
        /\ \/ lengths # {}
           \/ config.allowSelf /\ <<request.leaf, request.leaf>> \in Signed
        /\ config.bind /\ request.institution # Absent =>
              <<request.leaf, request.institution>> \in Bound

\* Where X.509 is required, or asked for, nothing less is confirmed; elsewhere an
\* attestation is.
ConfirmedIsSigned ==
    about = "documents" =>
        LET r == VerifySignature(question.request, question.config) IN
        r.is = "verified" =>
            IF question.config.required \/ r.mode = "x509_detached"
            THEN Grounds(question.request, question.config)
            ELSE question.request.attested

\* A confirmation rests on what is configured: on no anchor at all while a source
\* is broken, and on the demo's only if no source has a certificate.
TrustIsConfigured ==
    about = "documents" =>
        LET config == question.config
            configured == Certificates(config.pems) \cup Certificates(config.dir)
            r == VerifySignature(question.request, config)
        IN  r = [is |-> "verified", mode |-> "x509_detached"] =>
                /\ "broken" \notin {config.pems.kind, config.dir.kind}
                /\ \/ AnchoredLengths(question.request.leaf, question.request.chain \cap Cert, configured) # {}
                   \/ configured = {} /\ config.demo
                   \/ config.allowSelf

Text(q) == Envelope(q.processId, q.type, q.body, q.version)
Accepted(q) == Valid(q.processId, q.type, q.body)

\* A package that was encoded decodes to itself, and is the same package however
\* what it says was written.
PackageRoundTrips ==
    about = "package" /\ Accepted(question) =>
        LET body == question.body
            said == {f \in DOMAIN body : Says(body[f])}
            pkg == Encode(question.processId, question.type, body)
        IN
        /\ VerifyEncoded(pkg)
        /\ pkg = Encode(question.processId, question.type, [f \in said |-> Plain(body[f].says)])
        /\ Decode(pkg.encoded, pkg.payloadHash) =
              [is |-> "valid", payloadHash |-> pkg.payloadHash, body |-> pkg.body]

\* A text of the current version that decodes under an expected hash stands for
\* the package with that hash; a hash of anything else is refused.
DecodedIsWhatWasHashed ==
    about = "package" /\ question.version = "current" =>
        LET text == Text(question)
            normal == [text EXCEPT !.body = Normal(@)]
        IN  \A expected \in {text, normal, [text EXCEPT !.type = "another"]} :
                LET r == Decode(text, expected) IN
                r.is = "valid" => r.payloadHash = expected

\* What decodes, under whatever hash, has every field its type requires and no
\* field that its type has not, and each says what was written.
DecodedIsComplete ==
    about = "package" =>
        LET r == Decode(Text(question), NoHash) IN
        r.is = "valid" =>
            /\ Required(question.type) \subseteq DOMAIN r.body
            /\ DOMAIN r.body \subseteq Fields(question.type)
            /\ \A f \in DOMAIN r.body : r.body[f] = Plain(question.body[f].says)

\* A signed package of which anything was exchanged for that of another package
\* is refused, but for the copy of the body beside the text, which nothing covers.
SignatureCoversPackage ==
    about = "signing" =>
        LET original == SignPackage("s1", Encode(GoodId, question.type, PlainBody(question.type)))
            other == SignPackage("s2", Encode(BadId, "other", [institutionId |-> Plain("c2")]))
            altered == question.altered
            pkg == [x \in DOMAIN original.package |->
                       IF x \in altered THEN other.package[x] ELSE original.package[x]]
            signed == [[[original EXCEPT !.package = pkg]
                          EXCEPT !.signer = IF "signer" \in altered THEN other.signer ELSE @]
                          EXCEPT !.signingDigest = IF "signingDigest" \in altered
                                                   THEN other.signingDigest ELSE @]
        IN  VerifySigned(signed) = (altered \subseteq {"body"})

\* The oracles that vouch for a process in a package; any may, if none is registered.
Vouching(of, list) ==
    {o \in IF Registered = {} THEN Oracle ELSE Registered : \E i \in DOMAIN list : list[i] = [by |-> o, of |-> of, good |-> TRUE]}

\* A package passes exactly if enough different registered oracles have signed
\* something about the process it names, however often and whatever else is in it.
OracleQuorum ==
    about = "oracle" =>
        Verify(question).ok =
            (question.of # Unnamed
             /\ Cardinality(Vouching(question.of, question.list)) >= MinOracles)

\* Whatever package lets a partial release pass, enough oracles vouch for that very
\* process; of a primary process that holds only if the package names no other.
OracleVouchesForProcess ==
    about = "oracle" =>
        \A p \in Subject :
            \/ ReleaseTakes(p, question)
            \/ question.of \in {p, Unnamed} /\ PrimaryTakes(p, FALSE, TRUE, question)
            => Cardinality(Vouching(p, question.list)) >= MinOracles

AccessConfig ==
    [json |-> question.json, file |-> question.file, ops |-> question.configuredOps,
     demo |-> question.demo, required |-> question.required, certified |-> FALSE]
AccessHeaders == [id |-> question.id, token |-> question.token, ops |-> question.ops]

\* Who is let in by its token is in the first source that has anybody, and by its
\* last word there; one of the program's own only if no source has.
LetInIsConfigured ==
    about = "access" =>
        LET r == Authenticate(AccessConfig, question.id, question.token)
            source == IF question.json # <<>> THEN question.json
                      ELSE IF question.file # <<>> THEN question.file ELSE BuiltIn
        IN  r.ok =>
            \E i \in DOMAIN source :
                /\ source[i] = [institutionId |-> r.who, token |-> question.token,
                                allowlisted |-> TRUE]
                /\ \A j \in (i + 1)..Len(source) : source[j].institutionId # r.who

\* Configured alike, the edge lets nobody in by a password whom the core would then
\* refuse, but for an institution of its own demo where nothing is configured.
LoggedInIsLetIn ==
    about = "access" =>
        LET r == Login(AccessConfig, question.id, question.token) IN
        r.ok => \/ Authenticate(AccessConfig, r.who, question.token) = r
                \/ /\ question.json = <<>> /\ question.file = <<>> /\ question.demo
                   /\ RowNaming(BuiltIn, r.who) = 0

\* A request to read that says who it is from is answered to that one or refused,
\* never as to anybody; but an operator's token counts for nothing where none is
\* configured.
FailedIsRefused ==
    about = "access" =>
        LET p == ReadPrincipal(AccessConfig, AccessHeaders) IN
        /\ p.kind = "anonymous" =>
              /\ question.id = NotSent /\ question.token = NotSent
              /\ question.ops = NotSent \/ question.configuredOps = NotSent
        /\ p.kind = "institution" => p.who = question.id /\ question.token # NotSent
        /\ p.kind = "ops" => question.ops = question.configuredOps /\ question.ops # NotSent

\* With a token, an institution can submit exactly if it can read, and as the same,
\* whether a token is required or not.
ReaderIsSubmitter ==
    about = "access" /\ question.token # NotSent =>
        LET p == ReadPrincipal(AccessConfig, [AccessHeaders EXCEPT !.ops = NotSent])
            r == Submitter(AccessConfig, AccessHeaders)
        IN  r.ok = (p.kind = "institution") /\ (r.ok => r.who = p.who)

\* What the edge lets in, and hands over, the core opens: but for a holder whose
\* name is too long for the schema, which only the core finds.
AdmittedIsOpened ==
    about = "admission" /\ EdgeRefusal(question) = "none" =>
        CoreRefusal(Handed(question)) =
            (IF question.holder = Endless THEN "ENCODING_FAILED" ELSE "none")

\* What the core opens, whoever sent it, meets the criteria of PoT: of the kind it
\* is opened as and of the kind that was asked for.
OpenedMeetsCriteria ==
    about = "direct" /\ CoreRefusal(question) = "none" =>
        /\ FailedCriteria(Evidence(question), Evidence(question).type) = {}
        /\ FailedCriteria(Evidence(question), question.type) = {}

\* What meets the criteria is emitted, if it is worth something and no more than the
\* cap: these are the two defects that are found only after the verdict.
VerifiedIsEmitted ==
    about = "direct" /\ CoreRefusal(question) = "none" =>
        (EmissionRefusal(question.valuation) = "none") =
            (question.valuation.arx \in 1..EmissionCap)

\* A request that is answered as a duplicate would have left the record of the first
\* one, but for what the fingerprint leaves out.
DuplicateIsSameClaim ==
    about = "again" /\ EdgeRefusal(question) = "none" /\ Reused(GoodAsk, question) = "duplicate" =>
        \A f \in DOMAIN EdgeRow(question) \ Unprinted : EdgeRow(question)[f] = EdgeRow(GoodAsk)[f]

\* The sum of what processes are worth, of which some record, or the mint, is recent.
WorthOf(lives, kinds) ==
    SumFunction([i \in DOMAIN lives |->
                    IF \E row \in ToSet(Left(lives[i])) : row.recent /\ row.kind \in kinds
                    THEN lives[i].value ELSE 0])

AskedVolume == Volume(FlattenSeq([i \in DOMAIN question.lives |-> Left(question.lives[i])]))
NoDevaluation == \A i \in DOMAIN question.lives : question.lives[i].value >= question.lives[i].before

\* As long as nothing is devalued, what was minted within the window is counted, and
\* no process more than three times.
VolumeWithinThrice ==
    about = "velocity" /\ NoDevaluation =>
        AskedVolume \in WorthOf(question.lives, {"mint_fact"})..
                         (3 * WorthOf(question.lives, Counted))

\* The velocity passes its target whenever more was minted within the window than
\* the target allows for what circulates, and never without a recent process.
TargetIsTurnover ==
    about = "velocity" /\ NoDevaluation =>
        LET left == FlattenSeq([i \in DOMAIN question.lives |-> Left(question.lives[i])])
            exceeds == Exceeds(left, question.supply, question.target)
        IN  /\ WorthOf(question.lives, {"mint_fact"}) > question.target * question.supply => exceeds
            /\ exceeds => WorthOf(question.lives, Counted) > 0

\* The mirror and a reader's own view agree on who is an operator, wherever an
\* operators' token is configured; where none is, the mirror is open.
MirrorIsForOperators ==
    about = "access" =>
        OpensMirror(AccessConfig, AccessHeaders) =
            (\/ question.configuredOps = NotSent
             \/ ReadPrincipal(AccessConfig, AccessHeaders).kind = "ops")

IdentityConfig ==
    [json |-> question.accounts.json, file |-> question.accounts.file,
     demo |-> question.accounts.demo, certified |-> question.certified,
     trustProxy |-> question.trustProxy, secret |-> question.secret,
     issuer |-> question.issuer, audience |-> question.audience,
     inline |-> question.inline, mapFile |-> question.mapFile]

\* However an institution logs in at the edge, it can do the same at the core: if the
\* edge has an account of it, what a password would, and nothing if it has none, also
\* if the core knows it; but for the demo that only the edge has.
SessionIsOfAccount ==
    about = "identity" =>
        LET config == IdentityConfig
            byMap == LoginMtls(config, question.headers)
            byToken == LoginOidc(config, question.jwt)
            demoOnly(id) == /\ config.demo /\ config.json = <<>> /\ config.file = <<>>
                            /\ RowNaming(BuiltIn, id) = 0
        IN  \A r \in {byMap, byToken} : r.ok =>
                LET account == RowNaming(EdgeAccounts(config), r.who) IN
                /\ Authenticate(config, r.who, r.token).ok = (account # 0 /\ ~demoOnly(r.who))
                /\ account # 0 =>
                      Login([config EXCEPT !.certified = FALSE], r.who, r.token).ok

\* Who is let in without a password is named where it was looked for: by a row of the
\* map that the subject fits, before every other such row, or by a claim of a token
\* that is good in every respect that is configured.
LetInIsNamed ==
    about = "identity" =>
        LET config == IdentityConfig
            map == IF config.inline.kind = "list" THEN config.inline.rows ELSE config.mapFile.rows
            fits(i) == map[i].contains \in SubjectFrom(question.headers) /\ map[i].institutionId # NotSent
            r == LoginMtls(config, question.headers)
            jwt == question.jwt
        IN  /\ r.ok => \E i \in DOMAIN map :
                          /\ fits(i) /\ map[i].institutionId = r.who
                          /\ \A j \in 1..(i - 1) : ~fits(j)
            /\ LoginOidc(config, jwt).ok =>
                  /\ jwt.signed /\ ~jwt.past /\ LoginOidc(config, jwt).who \in ToSet(jwt.claims)
                  /\ config.issuer = NotSent \/ jwt.iss = config.issuer
                  /\ config.audience = NotSent \/ config.audience \in jwt.aud

\* All of the digits of a text, to the page's limit.
Exactly(t) ==
    t.whole * Radix^PageDigits
        + SumFunction([i \in 1..PageDigits |->
                          IF i <= Len(t.frac) THEN t.frac[i] * Radix^(PageDigits - i) ELSE 0])

\* An amount keeps its value on its way: what the edge writes the core reads as the same,
\* and the page's figure, at a rate of one, is that amount whenever the core could read it.
\* At any rate the figure is one that both can read, never more than the amount at the
\* rate, and less only by what is below one arx.
AmountIsKept ==
    about = "text" =>
        LET t == question.amount
            rate == question.rate
            arx == ParseAro(t)
            figure == ComputeAroMintAmount(t, rate)
            unit == Radix^(2 * PageDigits - Scale)
        IN  /\ IsValid(t) =>
                  /\ ParseAro(FormatAro(arx)) = arx /\ ParseAro(Normalized(t)) = arx
                  /\ ~t.neg => Normalized(t) = FormatAro(arx)
                  /\ ComputeAroMintAmount(t, One) = FormatAro(arx)
            /\ figure # NoText =>
                  LET worth == Magnitude(ParseAro(figure))
                      exact == Exactly(t) * Exactly(rate)
                  IN  /\ ParseAro(Normalized(figure)) = ParseAro(figure)
                      /\ worth * unit <= exact
                      /\ Len(t.frac) <= Scale /\ IsValid(rate) => exact < (worth + 1) * unit

\* A fee is within the valuation and is shared to the last arx: between AST and the nodes,
\* and among the nodes, where a heavier one gets no less and the last one no less than its
\* part; nothing is left over.  Two processes pay as much as one of their joint worth, or
\* one arx less.
FeeIsShared ==
    about = "fee" =>
        LET weights == question.weights
            r == Settled(question.arx, question.rate, question.waived, question.share, weights)
            last == Len(weights)
            fee(arx) == MulRate(arx, question.rate)
        IN  /\ r.code = "settled" =>
                  /\ r.fee \in 0..question.arx /\ r.ast \in 0..r.fee /\ r.nodes + r.ast = r.fee
                  /\ SumFunction(r.payments) = r.nodes
                  /\ \A i, j \in DOMAIN r.payments :
                        /\ r.payments[i] >= 0
                        /\ i < last /\ j < last /\ weights[i] >= weights[j] =>
                              r.payments[i] >= r.payments[j]
                  /\ r.payments # <<>> =>
                        r.payments[last] * SumFunction(weights) >= r.nodes * weights[last]
            /\ \A part \in 0..question.arx :
                  fee(part) + fee(question.arx - part) \in {fee(question.arx) - 1, fee(question.arx)}

\* Whichever copy of the catalogue the page has got, a package that is complete for the
\* page is complete by the edge's, and its type is one that the edge knows when it is
\* asked for enrichment; without an answer the page lacks no type that it could offer.
CatalogueCopiesAgree ==
    about = "evidence" =>
        LET type == [name |-> question.type, spelled |-> question.spelled]
            edge == GetEvidenceRequirements(type)
            page == LoadEvidenceForType(type, question.held, question.session, question.arrives)
        IN  /\ page # NotListed =>
                  /\ edge # NotListed /\ page.id = question.type
                  /\ RequiredSlotsOk(page.slots, question.filled) =
                        RequiredSlotsOk(edge.slots, question.filled)
                  /\ question.hash # "other" =>
                        CheckRefusal(type, question.session, question.hash) \in {0, 401}
            /\ question.spelled = "exact" => (page = NotListed) = (edge = NotListed)

\* Every revaluation the balances may meet: a new value and an order of the map.
Revaluations(P(_, _)) ==
    value > 0 /\ SumFunction(balances) > 0 =>
        \A new \in 0..MaxValue : \A order \in Orders(balances) : P(new, order)

\* By how much a valuation of new changes the supply, without the sign.
Change(new) ==
    LET delta == RevaluedSupply(SumFunction(balances), value, new) - SumFunction(balances)
    IN  IF delta < 0 THEN -delta ELSE delta

Shares(new, order) == ProRata(balances, order, Change(new))

\* No arx is created or lost in the distribution: the shares are not negative
\* and add up to the change of the supply (supply.ts 61-62).
SharesSumToDelta ==
    Revaluations(LAMBDA new, order :
        LET share == Shares(new, order)
        IN  SumFunction(share) = Change(new) /\ \A i \in DOMAIN share : share[i] >= 0)

\* A share is pro rata to within one arx, the last holder's to within one arx
\* per other holder.
SharesAreFair ==
    Revaluations(LAMBDA new, order :
        LET total == SumFunction(balances)
            error(i) == Shares(new, order)[i] * total - Change(new) * balances[order[i]]
        IN  \A i \in DOMAIN order :
                IF i < Len(order) THEN error(i) \in (1 - total)..0
                ELSE error(i) \in 0..(total * (Len(order) - 1)))

\* A burn can fail only at the last holder, only among three holders or more,
\* and for want of the rounding it was given, an arx per holder beyond the
\* second; every other debit of revalueAfterPot 406-412 can be paid.
ShortfallIsRounding ==
    Revaluations(LAMBDA new, order :
        new < value =>
            \A i \in DOMAIN order :
                Shares(new, order)[i] <= balances[order[i]]
                    + IF i = Len(order) /\ i > 2 THEN i - 2 ELSE 0)

\* I7: the supply follows the value of the asset, if every debit can be paid.
SupplyFollowsValue ==
    [][\A order \in Orders(balances) :
          LET result == Apply(balances, Allocations(balances, order, value, value'))
          IN  result.ok /\ balances' = result.balances =>
                SumFunction(balances')
                    = RevaluedSupply(SumFunction(balances), value, value')]_supplyVars
-----------------------------------------------------------------------------
(***************************************************************************)
(* The parts by what they are about.                                       *)
(***************************************************************************)
\* Amounts add up: the shares of a revaluation do, are fair and can be paid, the supply
\* follows the value, and the velocity counts what was processed, no process more than three times.
AmountsAddUp ==
    /\ [](SharesSumToDelta /\ SharesAreFair /\ ShortfallIsRounding)
    /\ SupplyFollowsValue
    /\ [](VolumeWithinThrice /\ TargetIsTurnover)
    /\ []FeeIsShared

\* Trust is earned: a chain is found exactly if there is one, what is confirmed rests on a
\* signature and on the certificates that are configured, and oracles pass a package that
\* enough of them signed about that process.
TrustIsEarned ==
    /\ TrustIsReachability
    /\ DepthIsShortest
    /\ ConfirmedIsSigned
    /\ TrustIsConfigured
    /\ OracleQuorum
    /\ OracleVouchesForProcess

\* The rules of access agree: whoever may read one record is listed it, whoever logs in at
\* the edge or submits may read, and whoever fails to say who it is gets nothing.
AccessRulesAgree ==
    /\ ListIsNewestReadable
    /\ ProcessIsNewestReadable
    /\ LetInIsConfigured
    /\ LoggedInIsLetIn
    /\ FailedIsRefused
    /\ ReaderIsSubmitter
    /\ MirrorIsForOperators
    /\ SessionIsOfAccount
    /\ LetInIsNamed

\* The places a request passes agree on it: what one lets through the next one takes, but for
\* the named defects that only a later one finds; and a package, encoded, hashed, decoded or
\* signed, stands for the same complete transaction at each, and nothing else passes for it.
PlacesAgree ==
    /\ AdmittedIsOpened
    /\ OpenedMeetsCriteria
    /\ VerifiedIsEmitted
    /\ DuplicateIsSameClaim
    /\ AmountIsKept
    /\ CatalogueCopiesAgree
    /\ PackageRoundTrips
    /\ DecodedIsWhatWasHashed
    /\ DecodedIsComplete
    /\ SignatureCoversPackage
=============================================================================
