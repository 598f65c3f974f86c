---------------------------- MODULE TunnelOptions ----------------------------
(***************************************************************************)
(* The options of create_tunnel() (control.py), what is sent of them, and  *)
(* what the client shows of the engine's answer (protocol.py).  Names,     *)
(* labels and address filters pass through as hostname does, the other TLS *)
(* options as tlsMode and tlsAlpns do; they are left out.  None stands for  *)
(* an empty sequence too.                                                  *)
(***************************************************************************)
EXTENDS Checks

CONSTANTS
    TunnelCalls   \* [object, keywords]: an options object or None, and keywords

VARIABLES
    call,         \* the arguments of create_tunnel()
    wire,         \* tunnel_properties of the request sent, or None
    shown,        \* properties of the tunnel that was opened, or None
    refusal       \* why create_tunnel() raised, or "accepted"

tunnelOptionVars == <<call, wire, shown, refusal>>

NoOptions ==
    [ type |-> None, publish |-> None, protocol |-> None, hostname |-> None,
      port |-> None, tlsMode |-> None, tlsAlpns |-> None, mtlsAuth |-> None,
      httpVersion |-> None, upstreamTls |-> None, tokenAuth |-> None,
      rstreamAuth |-> None, challengeMode |-> None, httpCors |-> None, auth |-> None ]

Fields == DOMAIN NoOptions \ {"auth"}

Given(options, field) == options[field] # None

---------------------------------------------------------------------------
(* create_tunnel() and _normalize_bytestream_options() *)

Options(c) == IF c.object # None THEN c.object ELSE c.keywords

\* A TCP tunnel has no edge that could use these.
EdgeOptions ==
    { "hostname", "tlsMode", "tlsAlpns", "mtlsAuth", "httpVersion", "upstreamTls",
      "tokenAuth", "rstreamAuth", "challengeMode", "auth" }

Ports == 1 .. 65535

TunnelRefusals(c, o) ==
    << RaiseIf(c.object # None /\ c.keywords # NoOptions, "TWO_FORMS"),
       RaiseIf(o.type \notin {None, "bytestream"}, "UNSUPPORTED_TUNNEL"),
       RaiseIf(o.httpVersion = "h3", "UNSUPPORTED_TUNNEL"),
       RaiseIf(Given(o, "httpCors") /\ (o.publish = FALSE \/ o.protocol \notin {None, "http"}), "CORS"),
       RaiseIf(Given(o, "port") /\ o.protocol # "tcp", "PORT_NEEDS_TCP"),
       RaiseIf(Given(o, "port") /\ o.port \notin Ports, "PORT_RANGE"),
       RaiseIf(o.protocol = "tcp" /\ o.publish = FALSE, "TCP_PUBLISHED"),
       RaiseIf(o.protocol = "tcp" /\ \E field \in EdgeOptions : Given(o, field), "TCP_EDGE") >>

TunnelRefusal(c) == FirstRefusal(TunnelRefusals(c, Options(c)))

\* Options that the auth object may give instead.
AuthPart == [tokenAuth |-> "token", rstreamAuth |-> "rstream", challengeMode |-> "challenge"]

\* An option of its own wins over the auth object, also when it is FALSE.
Merged(o, field) ==
    IF Given(o, field) \/ o.auth = None THEN o[field] ELSE o.auth[AuthPart[field]]

Normalize(o) ==
    [ field \in Fields |->
        CASE field = "type" -> "bytestream"
          [] field = "publish" -> IF o.protocol = "tcp" THEN TRUE ELSE o.publish
          [] field \in DOMAIN AuthPart -> Merged(o, field)
          [] OTHER -> o[field] ]

---------------------------------------------------------------------------
(* The message has the fields that were given: a wrapper is there or not,  *)
(* whatever it holds.                                                      *)

Booleans ==
    {"publish", "mtlsAuth", "upstreamTls", "tokenAuth", "rstreamAuth", "challengeMode"}

\* Mutant: a wrapper is written for a value that is true.
PropertiesToMessageTruthy(properties) ==
    [ field \in {f \in Fields : /\ Given(properties, f)
                                /\ f \in Booleans => properties[f]} |-> properties[field] ]

PropertiesToMessage(properties) ==
    [field \in {f \in Fields : Given(properties, f)} |-> properties[field]]

\* Values this version does not know read as None.
Known(field, value) ==
    CASE field = "protocol" -> value \in {"tls", "tcp", "dtls", "quic", "http"}
      [] field = "tlsMode" -> value \in {"passthrough", "terminated"}
      [] field = "httpVersion" -> value \in {"http/1.1", "h2", "h2c", "h3"}
      [] field = "type" -> value \in {"bytestream", "datagram"}
      [] OTHER -> TRUE

PropertiesFromMessage(message) ==
    [ field \in Fields |->
        IF field \in DOMAIN message
        THEN IF Known(field, message[field]) THEN message[field] ELSE None
        ELSE NoOptions[field] ]

---------------------------------------------------------------------------
\* publish is a boolean, enumerations have values of this version, and None is
\* neither a value of an option nor a message.
ASSUME TunnelOptionsAssumption ==
    /\ None \notin BOOLEAN /\ None \notin {"bytestream", "tcp"}
    /\ \A c \in TunnelCalls :
         /\ PropertiesToMessage(Normalize(Options(c))) # None
         /\ Options(c).publish \in {None, TRUE, FALSE}
         /\ \A field \in Fields : Given(Options(c), field) => Known(field, Options(c)[field])

CreateTunnel ==
    /\ refusal = "none"
    /\ refusal' = TunnelRefusal(call)
    /\ wire' = IF refusal' = "accepted"
               THEN PropertiesToMessage(Normalize(Options(call))) ELSE None
    /\ UNCHANGED <<call, shown>>

With(message, field, value) ==
    [f \in DOMAIN message \cup {field} |-> IF f = field THEN value ELSE message[f]]

\* The engine answers with what it was asked for, a default it filled in, or a
\* value of a later version.
Answers(message) ==
    {message, With(message, "httpVersion", "h9")}
      \cup (IF "publish" \in DOMAIN message THEN {} ELSE {With(message, "publish", FALSE)})

EngineOpens ==
    /\ wire # None /\ shown = None
    /\ \E answer \in Answers(wire) : shown' = PropertiesFromMessage(answer)
    /\ UNCHANGED <<call, wire, refusal>>

TunnelOptionsInit ==
    call \in TunnelCalls /\ wire = None /\ shown = None /\ refusal = "none"

TunnelOptionsNext == CreateTunnel \/ EngineOpens

---------------------------------------------------------------------------
\* The engine is asked for the tunnel the caller described, and the caller is
\* shown the tunnel the engine described: every option given reaches the wire
\* with its value, FALSE as well as TRUE, with the options of an auth object
\* where no option of its own overrides them; nothing else does, but the type
\* and the publication of a TCP tunnel; the engine never gets a TCP tunnel with
\* edge options, a port without TCP or browser rules for another protocol; and
\* what the engine did not change is shown.
\* (control.py:499-585, protocol.py:99-234)
TunnelAsAsked ==
    wire # None =>
      LET o == Options(call)
          asked(field) == \/ Given(o, field)
                          \/ /\ field \in DOMAIN AuthPart /\ o.auth # None
                             /\ o.auth[AuthPart[field]] # None
          has(field) == field \in DOMAIN wire
      IN  /\ \A field \in Fields : asked(field) => has(field)
          /\ \A field \in DOMAIN wire \ {"type", "publish"} :
               /\ asked(field)
               /\ Given(o, field) => wire[field] = o[field]
               /\ ~Given(o, field) => wire[field] = o.auth[AuthPart[field]]
          /\ has("publish") =>
               wire.publish = IF Given(o, "publish") THEN o.publish ELSE o.protocol = "tcp"
          /\ o.protocol = "tcp" => has("publish") /\ DOMAIN wire \subseteq {"type", "publish", "protocol", "port"}
          /\ has("port") => o.protocol = "tcp" /\ wire.port \in Ports
          /\ has("httpCors") => o.protocol \in {None, "http"} /\ (has("publish") => wire.publish)
          /\ shown # None =>
               \A field \in DOMAIN wire \ {"httpVersion"} : shown[field] = wire[field]
==============================================================================
