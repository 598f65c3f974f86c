--------------------------- MODULE ClientConfig ---------------------------
(***************************************************************************)
(* Resolution of the options of a client (config.py): arguments, process   *)
(* environment, one context and one environment of the config file, and    *)
(* defaults.  No state: the `...Refusals` list the checks in the order of  *)
(* the code, `Resolved` is the result when none fails.  Every operator     *)
(* is total, so the order matters only for which refusal is reported.      *)
(*                                                                         *)
(* Parameters: o the arguments, e the environment as _read_env() returns   *)
(* it, f the config file as _load_config() returns it, past the tokens     *)
(* whose expiry has passed at that moment.                                 *)
(***************************************************************************)
EXTENDS Checks

CONSTANTS
    Blank,       \* the empty string, which _normalize_optional() takes for None
    DefaultApi,  \* DEFAULT_API_URL
    Apis,        \* the absolute HTTP(S) URLs among the API URLs
    Canonical,   \* host[:port] as written -> its normal form
    RegionForm   \* region as written -> its normal form, None for "auto"

ASSUME ConfigAssumption ==
    /\ None # Blank
    /\ DefaultApi \in Apis
    /\ {None, Blank} \cap (Apis \cup DOMAIN Canonical \cup DOMAIN RegionForm) = {}
    /\ \A v \in DOMAIN Canonical : Canonical[v] \notin {None, Blank}

---------------------------------------------------------------------------
(* Values that may be absent. *)

Strip(v) == IF v = Blank THEN None ELSE v

\* _first_defined(): an empty string is defined, and masks what follows.
OrElse(v, w) == IF v # None THEN v ELSE w

NormalEngine(v) == IF v \in DOMAIN Canonical THEN Canonical[v] ELSE None

InvalidEngine(v) == Strip(v) # None /\ v \notin DOMAIN Canonical

NormalRegion(v) == IF v \in DOMAIN RegionForm THEN RegionForm[v] ELSE None

InvalidRegion(v) == Strip(v) # None /\ v \notin DOMAIN RegionForm

InvalidApi(v) == Strip(v) # None /\ v \notin Apis

HasCertificate(tls) ==
    /\ tls # None
    /\ \/ tls.certFile # None /\ tls.keyFile # None
       \/ tls.cert # None /\ tls.key # None

NoTLS == [certFile |-> None, keyFile |-> None, cert |-> None, key |-> None]

MergeTLS(inherited, explicit) ==
    IF inherited = None THEN explicit
    ELSE IF explicit = None THEN inherited
    ELSE [k \in DOMAIN NoTLS |-> OrElse(explicit[k], inherited[k])]

---------------------------------------------------------------------------
(* The process environment and the config file. *)

ReadEnv(p) ==
    [ api |-> Strip(p.api), context |-> Strip(p.context),
      engine |-> Strip(OrElse(p.engine, p.engineAddress)),
      token |-> Strip(p.token), cert |-> Strip(p.cert), key |-> Strip(p.key),
      region |-> Strip(p.region), transport |-> Strip(p.transport),
      quic |-> Strip(p.quic) ]

EnvHasMTLS(e) == e.cert # None \/ e.key # None

ContextConfig(c) ==
    [c EXCEPT !.api = Strip(@), !.engine = Strip(@), !.project = Strip(@),
              !.region = Strip(@)]

LoadConfig(raw) ==
    [ default |-> Strip(raw.default),
      contexts |-> [i \in {i \in DOMAIN raw.contexts : Strip(raw.contexts[i].name) # None}
                      |-> ContextConfig(raw.contexts[i])],
      environments |-> [i \in {i \in DOMAIN raw.environments : Strip(raw.environments[i].api) # None}
                          |-> raw.environments[i]] ]

InvalidFile(raw) ==
    \/ \E i \in DOMAIN raw.contexts : InvalidApi(raw.contexts[i].api)
    \/ \E i \in DOMAIN raw.environments : InvalidApi(raw.environments[i].api)

NoContext ==
    [ name |-> None, api |-> None, engine |-> None, project |-> None, region |-> None,
      token |-> None, mtls |-> None, transport |-> None ]

NoEnvironment == [api |-> None, token |-> None, mtls |-> None, transport |-> None]

ExplicitApi(o, e) == Strip(OrElse(o.api, e.api))

ExplicitEngine(o, e) == Strip(OrElse(o.engine, e.engine))

ContextName(o, e, f) == Strip(OrElse(o.context, OrElse(e.context, f.default)))

\* Mutant: the API of a context is not looked at.
MatchesAnyApi(o, e, f) ==
    { i \in DOMAIN f.contexts :
        ContextName(o, e, f) # None /\ f.contexts[i].name = ContextName(o, e, f) }

\* Places in the file of the contexts that are meant; more than one is refused.
Matches(o, e, f) ==
    { i \in DOMAIN f.contexts :
        /\ ContextName(o, e, f) # None /\ f.contexts[i].name = ContextName(o, e, f)
        /\ ExplicitApi(o, e) = None \/ f.contexts[i].api \in {None, ExplicitApi(o, e)} }

FindContext(o, e, f) ==
    IF Matches(o, e, f) = {} THEN NoContext
    ELSE f.contexts[CHOOSE i \in Matches(o, e, f) : TRUE]

ApiOf(o, e, c) == OrElse(OrElse(ExplicitApi(o, e), c.api), DefaultApi)

FindEnvironment(o, e, f) ==
    LET c == FindContext(o, e, f)
        found == {i \in DOMAIN f.environments : f.environments[i].api = ApiOf(o, e, c)}
    IN  IF c.api = None \/ found = {} THEN NoEnvironment
        ELSE f.environments[CHOOSE i \in found : \A j \in found : i <= j]

---------------------------------------------------------------------------
(* Stored credentials: those of the context, or else of its environment. *)

StoredToken(c, n) == OrElse(c.token, n.token)

StoredMTLS(c, n) == OrElse(c.mtls, n.mtls)

\* Nothing stored is looked up when the caller or the environment brings
\* credentials of its own, but for the token argument.
LooksUpToken(o, e) ==
    o.noToken # TRUE /\ e.token = None /\ ~EnvHasMTLS(e) /\ ~HasCertificate(o.tls)

UnsupportedTokenStorage(o, e, c, n) ==
    /\ LooksUpToken(o, e) /\ StoredToken(c, n) # None
    /\ Strip(StoredToken(c, n).provider) \notin {None, "inline", "env"}

ConfigToken(o, e, c, n) ==
    IF o.noToken = TRUE THEN None
    ELSE IF LooksUpToken(o, e) /\ StoredToken(c, n) # None
         THEN StoredToken(c, n).value
         ELSE e.token

IncompletePair(cert, key) == (cert = None) # (key = None)

IncompleteMTLS(e, c, n) ==
    IF EnvHasMTLS(e) THEN IncompletePair(e.cert, e.key)
    ELSE LET m == StoredMTLS(c, n)
         IN  /\ m # None
             /\ \/ IncompletePair(m.certFile, m.keyFile)
                \/ m.certFile = None /\ m.keyFile = None /\ IncompletePair(m.cert, m.key)

UnsupportedMTLSStorage(e, c, n) ==
    ~EnvHasMTLS(e) /\ StoredMTLS(c, n) # None /\ StoredMTLS(c, n).external

ConfigTLS(e, c, n) ==
    LET m == StoredMTLS(c, n)
    IN  IF EnvHasMTLS(e) THEN [NoTLS EXCEPT !.certFile = e.cert, !.keyFile = e.key]
        ELSE IF m = None THEN None
        ELSE IF m.certFile # None
             THEN [NoTLS EXCEPT !.certFile = m.certFile, !.keyFile = m.keyFile]
        ELSE IF m.cert # None THEN [NoTLS EXCEPT !.cert = m.cert, !.key = m.key]
        ELSE None

\* An explicit engine is the context's own when their normal forms agree.
Overrides(o, e, c) ==
    /\ ExplicitEngine(o, e) # None
    /\ \/ NormalEngine(c.engine) = None
       \/ NormalEngine(c.engine) # NormalEngine(ExplicitEngine(o, e))

OverridesWithStoredToken(o, e, c, n) ==
    /\ Overrides(o, e, c) /\ ConfigToken(o, e, c, n) # None
    /\ o.token = None /\ e.token = None

OverridesWithStoredMTLS(o, e, c, n) ==
    /\ Overrides(o, e, c) /\ HasCertificate(ConfigTLS(e, c, n))
    /\ ~EnvHasMTLS(e) /\ ~HasCertificate(o.tls)

\* Comparing the two engines normalises both, and refuses one that is malformed.
ComparesInvalidEngine(o, e, c) ==
    InvalidEngine(c.engine) \/ InvalidEngine(ExplicitEngine(o, e))

---------------------------------------------------------------------------
(* Transport: only TLS is implemented. *)

Modes == {"auto", "tls", "quic"}

InvalidMode(t) == t # None /\ t.mode # None /\ t.mode \notin Modes

UnsupportedTransport(t) == t # None /\ t.other

InvalidQuic(t) == t # None /\ t.mode = None /\ t.useQuic \notin {None, "true", "false"}

ModeFromConfig(t) ==
    IF t = None THEN None
    ELSE IF t.mode # None THEN t.mode
    ELSE IF t.useQuic = None THEN None
    ELSE IF t.useQuic = "true" THEN "quic" ELSE "tls"

ConfigMode(c, n) == OrElse(ModeFromConfig(c.transport), ModeFromConfig(n.transport))

TunnelTransport(o, e, c, n) ==
    IF OrElse(o.transport, e.transport) # None THEN OrElse(o.transport, e.transport)
    ELSE IF e.quic # None THEN IF e.quic = "1" THEN "quic" ELSE "tls"
    ELSE OrElse(ConfigMode(c, n), "auto")

---------------------------------------------------------------------------
(* _resolve_config() *)

\* What it takes from the file: nothing when the file is not to be read.
FileContext(o, e, f) == IF o.readFile THEN FindContext(o, e, f) ELSE NoContext

FileEnvironment(o, e, f) == IF o.readFile THEN FindEnvironment(o, e, f) ELSE NoEnvironment

\* Without the file the environment's token and certificate are not read here;
\* resolve_client_options() adds the token, nobody the certificate.
FileToken(o, e, c, n) == IF o.readFile THEN ConfigToken(o, e, c, n) ELSE None

FileTLS(o, e, c, n) == IF o.readFile THEN ConfigTLS(e, c, n) ELSE None

ConfigRefusals(o, e, f) ==
    LET c == FindContext(o, e, f)
        n == FindEnvironment(o, e, f)
        token == OverridesWithStoredToken(o, e, c, n)
        mtls == OverridesWithStoredMTLS(o, e, c, n)
        late(t) == o.readFile /\ t
    IN  << RaiseIf(late(InvalidApi(ExplicitApi(o, e))), "INVALID_API_URL"),
           RaiseIf(late(ContextName(o, e, f) # None /\ Matches(o, e, f) = {}), "CONTEXT_NOT_FOUND"),
           RaiseIf(late(\E i, j \in Matches(o, e, f) : i # j), "CONTEXT_AMBIGUOUS"),
           RaiseIf(late(UnsupportedTokenStorage(o, e, c, n)), "UNSUPPORTED_TOKEN_STORAGE"),
           RaiseIf(late(token /\ ComparesInvalidEngine(o, e, c)), "INVALID_ENGINE"),
           RaiseIf(late(token), "STORED_TOKEN_ENGINE_OVERRIDE"),
           RaiseIf(late(UnsupportedMTLSStorage(e, c, n)), "UNSUPPORTED_MTLS_STORAGE"),
           RaiseIf(late(IncompleteMTLS(e, c, n)), "MTLS_INCOMPLETE"),
           RaiseIf(late(mtls /\ ComparesInvalidEngine(o, e, c)), "INVALID_ENGINE"),
           RaiseIf(late(mtls), "STORED_MTLS_ENGINE_OVERRIDE"),
           RaiseIf(late(InvalidMode(n.transport)), "INVALID_CONFIG"),
           RaiseIf(late(UnsupportedTransport(n.transport)), "UNSUPPORTED_TRANSPORT"),
           RaiseIf(late(InvalidMode(c.transport)), "INVALID_CONFIG"),
           RaiseIf(late(UnsupportedTransport(c.transport)), "UNSUPPORTED_TRANSPORT"),
           RaiseIf(late(InvalidQuic(c.transport)), "INVALID_CONFIG"),
           RaiseIf(late(ModeFromConfig(c.transport) = None /\ InvalidQuic(n.transport)), "INVALID_CONFIG") >>

---------------------------------------------------------------------------
(* resolve_client_options() *)

Token(o, e, f) ==
    IF o.noToken = TRUE THEN None
    ELSE OrElse(o.token, OrElse(e.token,
           IF EnvHasMTLS(e) \/ HasCertificate(o.tls) THEN None
           ELSE FileToken(o, e, FileContext(o, e, f), FileEnvironment(o, e, f))))

TLS(o, e, f) ==
    MergeTLS(FileTLS(o, e, FileContext(o, e, f), FileEnvironment(o, e, f)), o.tls)

Region(o, e, f) == OrElse(o.region, OrElse(e.region, FileContext(o, e, f).region))

Project(o, e, f) == Strip(OrElse(o.project, FileContext(o, e, f).project))

\* The selected API of the file is DefaultApi at least; an empty argument hides
\* it, and then gives way to the default.
Api(o, e, f) ==
    LET selected == IF o.readFile THEN ApiOf(o, e, FileContext(o, e, f)) ELSE None
        chosen == OrElse(o.api, OrElse(e.api, selected))
    IN  IF chosen \in {None, Blank} THEN DefaultApi ELSE chosen

Engine(o, e, f) ==
    OrElse(o.engine, OrElse(e.engine, FileContext(o, e, f).engine))

Transport(o, e, f) ==
    TunnelTransport(o, e, FileContext(o, e, f), FileEnvironment(o, e, f))

\* The interval in microseconds must be a number of milliseconds, after
\* rounding to the nearest, within the limits.
RoundToMs(us) == (us + 500) \div 1000

InvalidInterval(us) ==
    \/ RoundToMs(us) * 1000 # us
    \/ RoundToMs(us) \notin 1000 .. 300000

OptionRefusals(o, e, f, past) ==
    << RaiseIf(Token(o, e, f) # None /\ HasCertificate(TLS(o, e, f)), "AUTH_CONFLICT"),
       RaiseIf(Token(o, e, f) \in past, "TOKEN_EXPIRED"),
       RaiseIf(Transport(o, e, f) \notin Modes, "INVALID_CONFIG"),
       RaiseIf(Transport(o, e, f) = "quic", "UNSUPPORTED_TRANSPORT"),
       RaiseIf(o.requireToken /\ Token(o, e, f) = None /\ ~HasCertificate(TLS(o, e, f)), "AUTH_REQUIRED"),
       RaiseIf(o.timeout <= 0, "INVALID_TIMEOUT"),
       RaiseIf(o.heartbeat /\ InvalidInterval(o.interval), "INVALID_CONFIG"),
       RaiseIf(InvalidRegion(Region(o, e, f)), "INVALID_REGION"),
       RaiseIf(NormalRegion(Region(o, e, f)) # None /\ ExplicitEngine(o, e) # None, "REGION_ENGINE_CONFLICT"),
       RaiseIf(NormalRegion(Region(o, e, f)) # None /\ Project(o, e, f) = None, "PROJECT_ENDPOINT_REQUIRED"),
       RaiseIf(InvalidEngine(Engine(o, e, f)), "INVALID_ENGINE") >>

\* The environment and the file are read, and may be refused, before anything.
Unreadable(o, p, raw) ==
    << RaiseIf(InvalidApi(p.api), "INVALID_API_URL"),
       RaiseIf(o.readFile /\ InvalidFile(raw), "INVALID_API_URL") >>

Verdict(o, p, raw, past) ==
    LET e == ReadEnv(p)
        f == LoadConfig(raw)
    IN  FirstRefusal(<<FirstRefusal(Unreadable(o, p, raw)),
                       FirstRefusal(ConfigRefusals(o, e, f)),
                       FirstRefusal(OptionRefusals(o, e, f, past))>>)

Resolved(o, e, f) ==
    [ api |-> Api(o, e, f), engine |-> NormalEngine(Engine(o, e, f)),
      region |-> NormalRegion(Region(o, e, f)), project |-> Project(o, e, f),
      token |-> Token(o, e, f), tls |-> TLS(o, e, f),
      noToken |-> IF o.noToken # None THEN o.noToken
                  ELSE Token(o, e, f) = None /\ ~HasCertificate(TLS(o, e, f)) ]
===========================================================================
