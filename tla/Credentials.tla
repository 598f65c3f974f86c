---------------------------- MODULE Credentials ----------------------------
(***************************************************************************)
(* What a client sends, where, and with which credentials (client.py): the *)
(* options are resolved once and kept; each call finds its engine, asking  *)
(* the API for the project when a region or no engine is configured; then  *)
(* it opens a control channel, dials a private stream or lists the         *)
(* inventory.  The engine of an open channel asks for proxy connections,   *)
(* to itself or to another endpoint.                                       *)
(*                                                                         *)
(* One call runs at a time: calls share `resolved` only, which is computed *)
(* without a suspension.  Proxy connections may come during a call, and    *)
(* the token may expire at any time.                                       *)
(***************************************************************************)
EXTENDS ClientConfig

CONSTANTS
    Inputs,      \* [o, p, f]: arguments, process environment, config file
    Projects,    \* what the API may answer about the project
    Advertised,  \* hosts an engine may name for its mTLS API
    Endpoints,   \* values of proxy_endpoint, None when it is absent
    Secrets,     \* values of the secret of a ProxyConnReq, None when absent
    DialTokens,  \* values of the token argument of dial()
    Expiring     \* tokens that carry an expiry

\* The contexts of a file have the fields of one; None is neither options, a
\* project, nor an address.
ASSUME CredentialsAssumption ==
    /\ \A x \in Inputs :
         /\ Resolved(x.o, ReadEnv(x.p), LoadConfig(x.f)) # None
         /\ \A i \in DOMAIN x.f.contexts : DOMAIN x.f.contexts[i] = DOMAIN NoContext
    /\ None \notin Projects
    /\ {None, Blank} \cap Advertised = {}
    /\ None \notin Expiring

VARIABLES
    input,     \* what the client is configured with
    resolved,  \* Client._resolved
    op,        \* the running call: [kind, stage, engine]
    control,   \* engine of the open control channel, or None
    sent,      \* what the last step wrote: [kind, to, token, cert], or None
    outcome,   \* how the last call failed; "ok" when it did not, or runs
    project,   \* the last answer of the API, or None
    assigned,  \* history: [by, to], the addresses that the API or the document of
               \* an engine named, with who named them
    expired,   \* tokens whose expiry has passed
    expiredBefore \* history: those that had expired when the options were resolved

clockVars == <<expired, expiredBefore>>
credentialVars ==
    <<input, resolved, op, control, sent, outcome, project, assigned, clockVars>>

Idle == [kind |-> "none", stage |-> "idle", engine |-> None]

FileEnv == ReadEnv(input.p)
File == LoadConfig(input.f)

---------------------------------------------------------------------------
(* api.py: the engine of a project, in a region or not. *)

InRegion(p, region) ==
    {i \in DOMAIN p.regional : NormalRegion(p.regional[i].region) = region}

\* The address as the API spells it: of the region, or the public one.
ProjectAddress(p, region) ==
    IF region = None THEN OrElse(Strip(p.engine), p.url)
    ELSE IF InRegion(p, region) = {} THEN None
    ELSE p.regional[CHOOSE i \in InRegion(p, region) : TRUE].engine

ProjectRefusals(p, region) ==
    << RaiseIf(region # None /\ InRegion(p, region) = {}, "REGION_UNAVAILABLE"),
       RaiseIf(region # None /\ \E i, j \in InRegion(p, region) : i # j, "REGION_AMBIGUOUS"),
       RaiseIf(InvalidEngine(ProjectAddress(p, region)), "INVALID_ENGINE"),
       RaiseIf(NormalEngine(ProjectAddress(p, region)) = None, "ENGINE_RESOLUTION") >>

ProjectRefusal(p, region) == FirstRefusal(ProjectRefusals(p, region))

EngineFromProject(p, region) == NormalEngine(ProjectAddress(p, region))

---------------------------------------------------------------------------
(* TLS: only a pair of files can be loaded. *)

UnsupportedPair(tls) ==
    /\ tls # None /\ (tls.certFile = None \/ tls.keyFile = None)
    /\ tls.cert # None \/ tls.key # None

LoadedPair(tls) ==
    IF tls # None /\ tls.certFile # None /\ tls.keyFile # None
    THEN <<tls.certFile, tls.keyFile>> ELSE None

\* The test of the discovery, not that of the configuration.
NamesCertificate(tls) == tls # None /\ (tls.certFile # None \/ tls.cert # None)

Request(kind, to, token, tls) ==
    [kind |-> kind, to |-> to, token |-> token, cert |-> LoadedPair(tls)]

OwnToken == IF resolved.noToken THEN None ELSE resolved.token

---------------------------------------------------------------------------
(* A call resolves the options unless they are kept, and finds its engine. *)

Settings == IF resolved # None THEN resolved ELSE Resolved(input.o, FileEnv, File)

Refusal == IF resolved # None THEN "accepted" ELSE Verdict(input.o, input.p, input.f, expired)

\* Mutant: a configured engine is used whatever the region.
UsesProjectLast(r) == r.engine = None

UsesProject(r) == r.region # None \/ r.engine = None

Fails(code) == outcome' = code /\ op' = Idle /\ sent' = None

Refused ==
    /\ op = Idle /\ Refusal # "accepted"
    /\ Fails(Refusal)
    /\ UNCHANGED <<input, resolved, control, project, assigned>>

\* Mutant: the call is not ended.
WithoutEngineStays ==
    /\ op = Idle /\ Refusal = "accepted"
    /\ UsesProject(Settings) /\ Settings.project = None
    /\ resolved' = Settings
    /\ op' = [op EXCEPT !.stage = "failed"]
    /\ outcome' = "ENGINE_REQUIRED" /\ sent' = None
    /\ UNCHANGED <<input, control, project, assigned>>

WithoutEngine ==
    /\ op = Idle /\ Refusal = "accepted"
    /\ UsesProject(Settings) /\ Settings.project = None
    /\ resolved' = Settings
    /\ Fails("ENGINE_REQUIRED")
    /\ UNCHANGED <<input, control, project, assigned>>

AskProject(kind) ==
    /\ op = Idle /\ Refusal = "accepted"
    /\ UsesProject(Settings) /\ Settings.project # None
    /\ resolved' = Settings
    /\ sent' = Request("project", Settings.api, Settings.token, None)
    /\ op' = [kind |-> kind, stage |-> "asking", engine |-> None]
    /\ outcome' = "ok"
    /\ UNCHANGED <<input, control, project, assigned>>

UseEngine(kind) ==
    /\ op = Idle /\ Refusal = "accepted" /\ ~UsesProject(Settings)
    /\ resolved' = Settings
    /\ op' = [kind |-> kind, stage |-> "ready", engine |-> Settings.engine]
    /\ outcome' = "ok" /\ sent' = None
    /\ UNCHANGED <<input, control, project, assigned>>

\* A stable hostname is under the public domain, wherever the region's engine is.
ProjectEngine(p) ==
    EngineFromProject(p, IF op.kind = "hostname" THEN None ELSE resolved.region)

ProjectAnswers ==
    /\ op.stage = "asking"
    /\ \E p \in Projects :
         LET refusal == ProjectRefusal(p, resolved.region)
             public == IF op.kind = "hostname" THEN ProjectRefusal(p, None) ELSE "accepted"
         IN  \/ /\ refusal = "accepted" /\ public = "accepted"
                /\ op' = [op EXCEPT !.stage = "ready", !.engine = ProjectEngine(p)]
                /\ project' = p
                /\ assigned' = assigned \cup {[by |-> resolved.api, to |-> ProjectEngine(p)]}
                /\ sent' = None
                /\ UNCHANGED outcome
             \/ /\ refusal # "accepted" \/ public # "accepted"
                /\ Fails(IF refusal # "accepted" THEN refusal ELSE public)
                /\ UNCHANGED <<project, assigned>>
    /\ UNCHANGED <<input, resolved, control>>

ProjectFails ==
    /\ op.stage = "asking" /\ Fails("API_HTTP")
    /\ UNCHANGED <<input, resolved, control, project, assigned>>

---------------------------------------------------------------------------
(* The call itself.  A certificate that cannot be loaded stops it first. *)

CannotLoad ==
    /\ op.stage \in {"ready", "targeted"} /\ op.kind # "hostname"
    /\ op.kind = "inventory" /\ NamesCertificate(resolved.tls) => op.stage = "targeted"
    /\ UnsupportedPair(resolved.tls)
    /\ Fails("UNSUPPORTED_MTLS_STORAGE")
    /\ UNCHANGED <<input, resolved, control, project, assigned>>

Writes(request) ==
    /\ sent' = request /\ op' = Idle
    /\ UNCHANGED outcome

\* The engine answers ok or not; only then is there a control channel.
Connect ==
    /\ op.kind = "connect" /\ op.stage = "ready" /\ ~UnsupportedPair(resolved.tls)
    /\ Writes(Request("open", op.engine, OwnToken, resolved.tls))
    /\ control' \in {control, op.engine}
    /\ UNCHANGED <<input, resolved, project, assigned>>

Dial ==
    /\ op.kind = "dial" /\ op.stage = "ready" /\ ~UnsupportedPair(resolved.tls)
    /\ \E t \in DialTokens \cup {None} :
         Writes(Request("stream", op.engine, OrElse(t, OwnToken), resolved.tls))
    /\ UNCHANGED <<input, resolved, control, project, assigned>>

\* The document of the engine is read without credentials.
Discover ==
    /\ op.kind = "inventory" /\ op.stage = "ready" /\ NamesCertificate(resolved.tls)
    /\ sent' = Request("discovery", op.engine, None, None)
    /\ \E host \in Advertised :
         /\ op' = [op EXCEPT !.stage = "targeted", !.engine = host]
         /\ assigned' = assigned \cup {[by |-> op.engine, to |-> host]}
    /\ UNCHANGED <<input, resolved, control, outcome, project>>

DiscoveryFails ==
    /\ op.kind = "inventory" /\ op.stage = "ready" /\ NamesCertificate(resolved.tls)
    /\ Fails("ENGINE_DISCOVERY")
    /\ UNCHANGED <<input, resolved, control, project, assigned>>

Inventory ==
    /\ op.kind = "inventory" /\ ~UnsupportedPair(resolved.tls)
    /\ \/ op.stage = "targeted"
       \/ op.stage = "ready" /\ ~NamesCertificate(resolved.tls)
    /\ Writes(Request("inventory", op.engine, OwnToken, resolved.tls))
    /\ UNCHANGED <<input, resolved, control, project, assigned>>

StableHostname ==
    /\ op.kind = "hostname" /\ op.stage = "ready"
    /\ op' = Idle /\ sent' = None
    /\ UNCHANGED <<input, resolved, control, outcome, project, assigned>>

---------------------------------------------------------------------------
(* A ProxyConnReq of the engine: dialed with the credentials it brings. *)

RefusesProxy(secret, endpoint) ==
    /\ endpoint # None
    /\ Strip(secret) = None \/ Strip(endpoint) = None

ProxyTarget(endpoint) == IF endpoint = None THEN control ELSE endpoint

ProxyConnection ==
    /\ control # None /\ ~UnsupportedPair(resolved.tls)
    /\ \E secret \in Secrets, endpoint \in Endpoints :
         /\ ~RefusesProxy(secret, endpoint)
         /\ sent' = Request("proxy", ProxyTarget(endpoint), secret, resolved.tls)
    /\ UNCHANGED <<input, resolved, op, control, outcome, project, assigned>>

---------------------------------------------------------------------------
(* Time.  Only the resolution of the options compares an expiry with it.   *)

\* The expiry of the token of this client passes.
TokenExpires ==
    LET token == Token(input.o, FileEnv, File)
    IN  /\ token \in Expiring \ expired
        /\ expired' = expired \cup {token}
        /\ expiredBefore' = IF resolved = None THEN expired' ELSE expiredBefore
        /\ sent' = None
        /\ UNCHANGED <<input, resolved, op, control, outcome, project, assigned>>

---------------------------------------------------------------------------
CredentialsInit ==
    /\ input \in Inputs
    /\ resolved = None /\ op = Idle /\ control = None /\ sent = None
    /\ outcome = "ok" /\ project = None /\ assigned = {}
    /\ expired = {} /\ expiredBefore = {}

ClientStep ==
    \/ Refused \/ WithoutEngine
    \/ \E kind \in {"connect", "dial", "inventory", "hostname"} :
         AskProject(kind) \/ UseEngine(kind)
    \/ ProjectAnswers \/ ProjectFails \/ CannotLoad
    \/ Connect \/ Dial \/ Discover \/ DiscoveryFails \/ Inventory \/ StableHostname
    \/ ProxyConnection

CredentialsNext ==
    \/ TokenExpires
    \/ ClientStep /\ UNCHANGED clockVars

CredentialsSpec == CredentialsInit /\ [][CredentialsNext]_credentialVars

---------------------------------------------------------------------------
(* Properties. *)

Kinds == {"project", "open", "stream", "discovery", "inventory", "proxy"}

CredentialsTypeOK ==
    /\ op.kind \in {"none", "connect", "dial", "inventory", "hostname"}
    /\ op.stage \in {"idle", "asking", "ready", "targeted"}
    /\ op.stage # "idle" \/ control # None => resolved # None
    /\ sent # None => sent.kind \in Kinds /\ sent.to \notin {None, Blank}
    /\ \A a \in assigned : a.to \notin {None, Blank}
    /\ expiredBefore \subseteq expired /\ expired \subseteq Expiring

Selected == FileContext(input.o, FileEnv, File)

\* The API of the selected context.  A context may be bound to none, and goes
\* with the one that is selected; api_url="" selects DEFAULT_API_URL whatever the
\* API of the context.
HomeApi ==
    IF Selected.api = None \/ input.o.api = Blank
    THEN Api(input.o, FileEnv, File) ELSE Selected.api

NamedBy(places) == {a.to : a \in {x \in assigned : x.by \in places}}

\* Where the selected context belongs: its API, its engine, the engines this API
\* named, and the hosts that the documents of these engines named.
Home ==
    LET own == {HomeApi, NormalEngine(Selected.engine)}
        near == own \cup NamedBy(own)
    IN  near \cup NamedBy(near)

\* Whom a request serves: the engine that asked, if it is a proxy connection.
Recipient == IF sent.kind = "proxy" THEN control ELSE sent.to

GivenTokens == {None, input.o.token, FileEnv.token} \cup DialTokens \cup Secrets

GivenFiles ==
    {FileEnv.cert, FileEnv.key}
      \cup (IF input.o.tls = None THEN {} ELSE {input.o.tls.certFile, input.o.tls.keyFile})

\* An inline pair in the tls argument, which cannot be loaded, stands for a
\* certificate of the caller when the explicit engine is checked, and the stored
\* files are merged under it: this combination is not refused.
InlinePairOverrides ==
    /\ input.o.tls # None /\ input.o.tls.cert # None /\ input.o.tls.key # None
    /\ Overrides(input.o, FileEnv, Selected)

\* A token or a certificate that neither the caller, the environment nor the
\* engine gave comes from the config file.  It is sent to the API and the engine
\* of its context and to the addresses these named, and for proxy connections
\* these asked for, whatever engine, API, region, project or certificate the
\* caller combines it with - but for the stored files an inline pair lets pass.
\* (docs/001-configuration.md:62-64; config.py:428-449, 605, client.py:500-525)
StoredCredentialsStayHome ==
    sent # None =>
      /\ sent.token \notin GivenTokens => Recipient \in Home
      /\ /\ sent.cert # None /\ ~({sent.cert[1], sent.cert[2]} \subseteq GivenFiles)
         /\ ~InlinePairOverrides
         => Recipient \in Home

\* What was asked for is what happens: with an explicit engine every channel and
\* private stream goes to it; with a region, to an engine the project has there;
\* a request to the engine of the configuration never carries a token and a
\* certificate at once; under no_token no token of the configuration is sent; and
\* none that had expired when the options were resolved, by whichever call.  (A
\* token that expires later goes on being sent: the options are resolved once.)
RequestsFollowOptions ==
    sent # None =>
      /\ sent.kind \in {"open", "stream"} /\ ExplicitEngine(input.o, FileEnv) # None
           => sent.to = NormalEngine(ExplicitEngine(input.o, FileEnv))
      /\ sent.kind \in {"open", "stream"} /\ resolved.region # None
           => /\ project # None
              /\ \E i \in DOMAIN project.regional :
                   /\ NormalRegion(project.regional[i].region) = resolved.region
                   /\ sent.to = NormalEngine(project.regional[i].engine)
      /\ sent.kind \in {"open", "inventory"} => sent.token = None \/ sent.cert = None
      /\ input.o.noToken = TRUE => sent.token \in {None} \cup DialTokens \cup Secrets
      /\ sent.token \in expiredBefore => sent.token \in DialTokens \cup Secrets
===========================================================================
