------------------------------ MODULE MCInputs ------------------------------
(***************************************************************************)
(* Inputs of the client in slices, each about questions that meet in the   *)
(* code: credentials with engines, API with contexts and regions, and the  *)
(* remaining checks one at a time.                                         *)
(***************************************************************************)
EXTENDS Inputs, TLC

---------------------------------------------------------------------------
(* The client. *)

MCCanonical == [A |-> "a", a |-> "a", b |-> "b", r |-> "r", s |-> "s"]
MCRegions == [EU |-> "eu", eu |-> "eu", us |-> "us", auto |-> None]

Args ==
    [ api |-> None, context |-> None, engine |-> None, token |-> None, noToken |-> None,
      requireToken |-> FALSE, tls |-> None, transport |-> None, region |-> None,
      project |-> None, readFile |-> TRUE, timeout |-> 1, heartbeat |-> FALSE, interval |-> 0 ]

Environ ==
    [ api |-> None, context |-> None, engine |-> None, engineAddress |-> None,
      token |-> None, cert |-> None, key |-> None, region |-> None,
      transport |-> None, quic |-> None ]

Ctx == [NoContext EXCEPT !.name = "c"]
StoredIn(provider, value) == [provider |-> provider, value |-> value]
Stored(tls, external) == [external |-> external] @@ tls
Files(c, k) == [NoTLS EXCEPT !.certFile = c, !.keyFile = k]
Inline(c, k) == [NoTLS EXCEPT !.cert = c, !.key = k]
OneContext(c, environments) ==
    [default |-> "c", contexts |-> <<c>>, environments |-> environments]

Given3(o, p, f) == [o |-> o, p |-> p, f |-> f]

\* Who gives an engine, a token, a certificate: the caller, the environment, the file.
CredentialInputs ==
    { Given3([Args EXCEPT !.engine = x[1], !.token = x[2], !.noToken = x[3], !.tls = x[4]],
             [Environ EXCEPT !.engine = x[5], !.token = x[6], !.cert = x[7], !.key = x[7]],
             OneContext([Ctx EXCEPT !.engine = x[8], !.project = "p", !.token = x[9], !.mtls = x[10]], <<>>)) :
      x \in {None, Blank, "A", "b"} \X {None, "arg"} \X {None, TRUE}
            \X {None, Files("arg.crt", "arg.key"), Files("arg.crt", None), Inline("arg", "arg")}
            \X {None, "b"} \X {None, "env"} \X {None, "env.pem"}
            \X {None, "a"} \X {None, StoredIn(None, "stored")}
            \X {None, Stored(Files("stored.crt", "stored.key"), FALSE),
                Stored(Inline("stored", "stored"), FALSE)} }

\* Which API, context, environment and region are meant.
Corp == [NoEnvironment EXCEPT !.api = "corp", !.token = StoredIn("env", "corp")]
ContextSets ==
    { <<[Ctx EXCEPT !.engine = e, !.project = "p", !.api = a, !.region = g]>> :
        e \in {None, "a"}, a \in {None, "corp"}, g \in {None, "eu"} }
      \cup { <<[Ctx EXCEPT !.api = "corp", !.project = "p"],
               [Ctx EXCEPT !.api = a, !.engine = "a", !.token = StoredIn("inline", "stored")]>> :
             a \in {None, "io"} }
      \cup { <<[Ctx EXCEPT !.api = "corp", !.project = "p", !.token = StoredIn(None, "stored")]>> }
      \cup { <<[Ctx EXCEPT !.api = "bad"]>>, <<[Ctx EXCEPT !.name = Blank]>> }

PlaceInputs ==
    { Given3([Args EXCEPT !.api = x[1], !.context = x[2], !.engine = x[3], !.region = x[4]],
             [Environ EXCEPT !.api = x[5]],
             [default |-> "c", contexts |-> x[6], environments |-> <<Corp>>]) :
      x \in {None, Blank, "corp", "bad"} \X {None, "d"} \X {None, Blank, "A"}
            \X {None, "EU"} \X {None, "io"} \X ContextSets }
      \cup
    { Given3([Args EXCEPT !.region = x[1], !.project = x[2], !.engine = x[3]],
             [Environ EXCEPT !.region = x[4], !.engine = x[5]],
             OneContext([Ctx EXCEPT !.region = x[6], !.project = x[7], !.engine = "a"], <<>>)) :
      x \in {None, Blank, "EU", "auto", "??"} \X {None, "q"} \X {None, "A"}
            \X {None, "us"} \X {None, "b"} \X {None, "eu"} \X {None, "p"} }

\* The checks that meet no other.
Reads == [mode |-> None, useQuic |-> None, other |-> FALSE]
Transports ==
    { None, [Reads EXCEPT !.mode = "auto"], [Reads EXCEPT !.mode = "quic"],
      [Reads EXCEPT !.mode = "??"], [Reads EXCEPT !.useQuic = "true"],
      [Reads EXCEPT !.useQuic = "??"], [Reads EXCEPT !.other = TRUE] }

TransportInputs ==
    { Given3([Args EXCEPT !.engine = "a", !.noToken = TRUE, !.transport = x[1]],
             [Environ EXCEPT !.quic = x[2]],
             OneContext([Ctx EXCEPT !.api = "corp", !.transport = x[3]],
                        <<[NoEnvironment EXCEPT !.api = "corp", !.transport = x[4]]>>)) :
      x \in {None, "auto", "quic", "??"} \X {None, "0", "1"} \X Transports \X Transports }

OtherInputs ==
    { Given3([Args EXCEPT !.engine = x[1], !.requireToken = x[2], !.readFile = x[3], !.token = x[4]],
             [Environ EXCEPT !.engineAddress = x[5], !.cert = x[6], !.key = "env.key"],
             OneContext([Ctx EXCEPT !.token = x[7], !.mtls = x[8]], <<>>)) :
      x \in {None, "a", "bad"} \X BOOLEAN \X BOOLEAN \X {None, "old"}
            \X {None, Blank, "b"} \X {None, "env.crt"}
            \X {None, StoredIn(None, "old"), StoredIn("keychain", None)} \X {None, Stored(NoTLS, TRUE), Stored(Files("c", None), FALSE)} }
      \cup
    { Given3([Args EXCEPT !.engine = "a", !.timeout = t, !.heartbeat = TRUE, !.interval = us],
             Environ, OneContext(Ctx, <<>>)) :
        t \in {0, 1}, us \in {999500, 999999, 1000000, 1000499, 1000500, 300000000, 300000500} }

MCClientInputs == CredentialInputs \cup PlaceInputs \cup TransportInputs \cup OtherInputs

At(region, engine) == [region |-> region, engine |-> engine]
MCProjects ==
    { [engine |-> "r", url |-> None, regional |-> <<At("eu", "s")>>],
      [engine |-> Blank, url |-> "bad", regional |-> <<At("eu", "s"), At("EU", "b")>>] }

---------------------------------------------------------------------------
(* Webhooks and tunnels. *)

MCTolerances == {-1, 0, 1}
MCPayloads == [whole |-> EventParts, partial |-> EventParts \ {"id"}]

Some(field) ==
    CASE field \in Booleans -> {None, TRUE, FALSE}
      [] field = "protocol" -> {None, "tcp", "http", "tls"}
      [] field = "type" -> {None, "datagram"}
      [] field = "tlsMode" -> {None, "terminated"}
      [] field = "port" -> {None, 0, 22}
      [] field = "httpVersion" -> {None, "h2", "h3"}
      [] OTHER -> {None, "given"}

Auths == {None} \cup [token : {None, TRUE}, rstream : {None, FALSE}, challenge : {None, TRUE}]

\* Every choice of protocol, publication, port and browser rules, with at most
\* one further option.
Placed(field, value, auth) ==
    { [NoOptions EXCEPT !.protocol = x[1], !.publish = x[2], !.port = x[3],
                        !.httpCors = x[4], ![field] = value, !.auth = auth] :
      x \in Some("protocol") \X Some("publish") \X Some("port") \X Some("httpCors") }

OptionSets ==
    UNION { UNION {Placed(field, value, None) : value \in Some(field)} :
              field \in Fields \ {"protocol", "publish", "port", "httpCors"} }
      \cup UNION {Placed("tokenAuth", value, auth) : value \in Some("tokenAuth"), auth \in Auths}

MCTunnelCalls ==
    { [object |-> None, keywords |-> o] : o \in OptionSets }
      \cup { [object |-> o, keywords |-> k] :
               o \in Placed("hostname", "given", None),
               k \in {NoOptions, [NoOptions EXCEPT !.hostname = "other"]} }
=============================================================================
