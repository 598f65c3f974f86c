---------------------------- MODULE InputsProofs ----------------------------
(***************************************************************************)
(* Proofs about the decisions of the library on what it is given, for any  *)
(* inputs, contexts, projects, deliveries and options that satisfy the     *)
(* named assumptions of the modules.                                       *)
(***************************************************************************)
EXTENDS Inputs, TLAPS, WellFoundedInduction, FiniteSetTheorems

---------------------------------------------------------------------------
(* A sequence of checks. *)

\* Numbers of checks have a smallest one, so that CHOOSE finds the first.
LEMMA SmallestIndex ==
  ASSUME NEW S \in SUBSET Nat, S # {}
  PROVE  \E i \in S : \A j \in S : i <= j
<1> DEFINE Less == {ss \in Nat \X Nat : ss[1] < ss[2]}
<1>1. OpToRel(<, Nat) = Less
  BY Zenon DEF OpToRel
<1>2. IsWellFoundedOn(Less, Nat)
  BY <1>1, NatLessThanWellFounded, Zenon
<1> HIDE DEF Less
<1>3. PICK x \in S : \A y \in S : ~(<<y, x>> \in Less)
  BY <1>2, WFMin, Zenon
<1>4. \A y \in S : x <= y
  <2> SUFFICES ASSUME NEW y \in S, y < x PROVE FALSE
    OBVIOUS
  <2>1. <<y, x>> \in Nat \X Nat /\ <<y, x>>[1] < <<y, x>>[2]
    OBVIOUS
  <2>2. <<y, x>> \in Less
    BY <2>1, Zenon DEF Less
  <2> QED BY <2>2, <1>3
<1> QED BY <1>4

\* What is accepted passed every check.
LEMMA PassedAll ==
  ASSUME NEW checks, DOMAIN checks \in SUBSET Nat,
         FirstRefusal(checks) = "accepted"
  PROVE  \A i \in DOMAIN checks : checks[i] = "accepted"
<1> DEFINE raised == {i \in DOMAIN checks : checks[i] # "accepted"}
           first == CHOOSE i \in raised : \A j \in raised : i <= j
<1> SUFFICES ASSUME raised # {} PROVE FALSE
  OBVIOUS
<1>1. \E i \in raised : \A j \in raised : i <= j
  BY SmallestIndex
<1>2. first \in raised
  BY <1>1
<1>3. FirstRefusal(checks) = checks[first]
  BY Zenon DEF FirstRefusal
<1> QED BY <1>2, <1>3

\* What passes every check is accepted.
LEMMA AcceptedIfPassed ==
  ASSUME NEW checks, \A i \in DOMAIN checks : checks[i] = "accepted"
  PROVE  FirstRefusal(checks) = "accepted"
BY DEF FirstRefusal

---------------------------------------------------------------------------
(* The options of a tunnel. *)

\* The checks of create_tunnel() that its properties are about.
LEMMA OptionChecks ==
  ASSUME NEW c, NEW o
  PROVE  LET checks == TunnelRefusals(c, o)
         IN  /\ DOMAIN checks = 1 .. 8
             /\ checks[4] = RaiseIf(
                    Given(o, "httpCors") /\ (o.publish = FALSE \/ o.protocol \notin {None, "http"}),
                    "CORS")
             /\ checks[5] = RaiseIf(
                    Given(o, "port") /\ o.protocol # "tcp",
                    "PORT_NEEDS_TCP")
             /\ checks[6] = RaiseIf(
                    Given(o, "port") /\ o.port \notin Ports,
                    "PORT_RANGE")
             /\ checks[7] = RaiseIf(
                    o.protocol = "tcp" /\ o.publish = FALSE,
                    "TCP_PUBLISHED")
             /\ checks[8] = RaiseIf(
                    o.protocol = "tcp" /\ \E field \in EdgeOptions : Given(o, field),
                    "TCP_EDGE")
<1> DEFINE checks == TunnelRefusals(c, o)
<1>0. DOMAIN checks = 1 .. 8
  BY DEF TunnelRefusals
<1>4. checks[4] = RaiseIf(
         Given(o, "httpCors") /\ (o.publish = FALSE \/ o.protocol \notin {None, "http"}),
         "CORS")
  BY DEF TunnelRefusals
<1>5. checks[5] = RaiseIf(Given(o, "port") /\ o.protocol # "tcp", "PORT_NEEDS_TCP")
  BY DEF TunnelRefusals
<1>6. checks[6] = RaiseIf(Given(o, "port") /\ o.port \notin Ports, "PORT_RANGE")
  BY DEF TunnelRefusals
<1>7. checks[7] = RaiseIf(o.protocol = "tcp" /\ o.publish = FALSE, "TCP_PUBLISHED")
  BY DEF TunnelRefusals
<1>8. checks[8] = RaiseIf(
         o.protocol = "tcp" /\ \E field \in EdgeOptions : Given(o, field),
         "TCP_EDGE")
  BY DEF TunnelRefusals
<1> QED BY <1>0, <1>4, <1>5, <1>6, <1>7, <1>8, Zenon

\* An accepted call passed them.
LEMMA OptionPassed ==
  ASSUME NEW c, NEW o,
         FirstRefusal(TunnelRefusals(c, o)) = "accepted"
  PROVE  /\ ~(Given(o, "httpCors") /\ (o.publish = FALSE \/ o.protocol \notin {None, "http"}))
         /\ ~(Given(o, "port") /\ o.protocol # "tcp")
         /\ ~(Given(o, "port") /\ o.port \notin Ports)
         /\ ~(o.protocol = "tcp" /\ o.publish = FALSE)
         /\ ~(o.protocol = "tcp" /\ \E field \in EdgeOptions : Given(o, field))
<1> DEFINE checks == TunnelRefusals(c, o)
<1>1. DOMAIN checks = 1 .. 8
  BY OptionChecks, Zenon
<1>2. \A i \in 1 .. 8 : checks[i] = "accepted"
  BY <1>1, PassedAll
<1>3. \A i \in {4, 5, 6, 7, 8} : checks[i] = "accepted"
  BY <1>2
<1>4. /\ checks[4] = RaiseIf(
             Given(o, "httpCors") /\ (o.publish = FALSE \/ o.protocol \notin {None, "http"}),
             "CORS")
      /\ checks[5] = RaiseIf(
             Given(o, "port") /\ o.protocol # "tcp",
             "PORT_NEEDS_TCP")
      /\ checks[6] = RaiseIf(Given(o, "port") /\ o.port \notin Ports, "PORT_RANGE")
      /\ checks[7] = RaiseIf(
             o.protocol = "tcp" /\ o.publish = FALSE,
             "TCP_PUBLISHED")
      /\ checks[8] = RaiseIf(
             o.protocol = "tcp" /\ \E field \in EdgeOptions : Given(o, field),
             "TCP_EDGE")
  BY OptionChecks, Zenon
<1> HIDE DEF checks
<1> QED BY <1>3, <1>4, Zenon DEF RaiseIf

\* A message has exactly the fields with a value, and that value.
LEMMA MessageFields ==
  ASSUME NEW o, NEW message, message = PropertiesToMessage(Normalize(o))
  PROVE  /\ DOMAIN message = {field \in Fields : Normalize(o)[field] # None}
         /\ \A field \in DOMAIN message : message[field] = Normalize(o)[field]
BY DEF PropertiesToMessage, Given

\* What the fields of the normal form are.
LEMMA NormalFields ==
  ASSUME NEW o, NEW field \in Fields
  PROVE  /\ field = "type" => Normalize(o)[field] = "bytestream"
         /\ field = "publish" => Normalize(o)[field] = IF o.protocol = "tcp" THEN TRUE ELSE o.publish
         /\ field \in DOMAIN AuthPart => Normalize(o)[field] = Merged(o, field)
         /\ field \notin {"type", "publish"} \cup DOMAIN AuthPart => Normalize(o)[field] = o[field]
BY DEF Normalize, AuthPart

---------------------------------------------------------------------------
(* The invariant of the tunnel options: the message on the wire is that of *)
(* an accepted call, and what was shown of it is what it says.             *)

\* A field that an option or the auth object gives.
Asked(o, field) ==
    \/ Given(o, field)
    \/ /\ field \in DOMAIN AuthPart /\ o.auth # None
       /\ o.auth[AuthPart[field]] # None

TunnelInv ==
    /\ part = "tunnel" => call \in TunnelCalls /\ (wire # None) = (refusal = "accepted")
    /\ part # "tunnel" => wire = None
    /\ shown # None => wire # None
    /\ wire # None =>
         /\ call \in TunnelCalls /\ TunnelRefusal(call) = "accepted"
         /\ wire = PropertiesToMessage(Normalize(Options(call)))
         /\ shown # None => \A field \in DOMAIN wire \ {"httpVersion"} : shown[field] = wire[field]

\* What an accepted call asks of the engine.
LEMMA AcceptedAsAsked ==
  ASSUME NEW c \in TunnelCalls, TunnelRefusal(c) = "accepted",
         NEW message, message = PropertiesToMessage(Normalize(Options(c))),
         NEW o, o = Options(c)
  PROVE  /\ \A field \in Fields : Asked(o, field) => field \in DOMAIN message
         /\ \A field \in DOMAIN message \ {"type", "publish"} :
               /\ Asked(o, field)
               /\ Given(o, field) => message[field] = o[field]
               /\ ~Given(o, field) => message[field] = o.auth[AuthPart[field]]
         /\ "publish" \in DOMAIN message =>
               message.publish = IF Given(o, "publish") THEN o.publish ELSE o.protocol = "tcp"
         /\ o.protocol = "tcp" => /\ "publish" \in DOMAIN message
                                  /\ DOMAIN message \subseteq {"type", "publish", "protocol", "port"}
         /\ "port" \in DOMAIN message => o.protocol = "tcp" /\ message.port \in Ports
         /\ "httpCors" \in DOMAIN message =>
               o.protocol \in {None, "http"} /\ ("publish" \in DOMAIN message => message.publish)
<1>1. /\ ~(Given(o, "httpCors") /\ (o.publish = FALSE \/ o.protocol \notin {None, "http"}))
      /\ ~(Given(o, "port") /\ o.protocol # "tcp")
      /\ ~(Given(o, "port") /\ o.port \notin Ports)
      /\ ~(o.protocol = "tcp" /\ o.publish = FALSE)
      /\ ~(o.protocol = "tcp" /\ \E field \in EdgeOptions : Given(o, field))
  BY OptionPassed, Zenon DEF TunnelRefusal
<1>2. /\ DOMAIN message = {field \in Fields : Normalize(o)[field] # None}
      /\ \A field \in DOMAIN message : message[field] = Normalize(o)[field]
  BY MessageFields, Zenon
<1>3. /\ None \notin BOOLEAN /\ None # "bytestream" /\ None # "tcp"
      /\ o.publish \in {None, TRUE, FALSE}
  BY TunnelOptionsAssumption
<1>4. DOMAIN AuthPart = {"tokenAuth", "rstreamAuth", "challengeMode"}
  BY DEF AuthPart
<1>5. Fields = { "type", "publish", "protocol", "hostname", "port", "tlsMode", "tlsAlpns",
                 "mtlsAuth", "httpVersion", "upstreamTls", "tokenAuth", "rstreamAuth",
                 "challengeMode", "httpCors" }
  BY DEF Fields, NoOptions
<1>6. \A field \in Fields \ ({"type", "publish"} \cup DOMAIN AuthPart) : Normalize(o)[field] = o[field]
  BY NormalFields
<1>7. \A field \in DOMAIN AuthPart : Normalize(o)[field] = Merged(o, field)
  <2> TAKE field \in DOMAIN AuthPart
  <2>1. field \in Fields
    BY <1>4, <1>5
  <2> QED BY <2>1, NormalFields, Zenon
<1>8. /\ Normalize(o)["type"] = "bytestream"
      /\ Normalize(o)["publish"] = IF o.protocol = "tcp" THEN TRUE ELSE o.publish
  BY <1>5, NormalFields
<1>10. ASSUME NEW field \in Fields, Asked(o, field)
       PROVE  field \in DOMAIN message
  <2>1. CASE field = "type"
    BY <1>2, <1>3, <1>8, <2>1
  <2>2. CASE field = "publish"
    BY <1>2, <1>3, <1>4, <1>8, <1>10, <2>2 DEF Asked, Given
  <2>3. CASE field \in DOMAIN AuthPart
    BY <1>2, <1>7, <1>10, <2>3 DEF Asked, Given, Merged
  <2>4. CASE field \notin {"type", "publish"} \cup DOMAIN AuthPart
    BY <1>2, <1>6, <1>10, <2>4 DEF Asked, Given
  <2> QED BY <2>1, <2>2, <2>3, <2>4
<1>11. ASSUME NEW field \in DOMAIN message \ {"type", "publish"}
       PROVE  /\ Asked(o, field)
              /\ Given(o, field) => message[field] = o[field]
              /\ ~Given(o, field) => message[field] = o.auth[AuthPart[field]]
  <2>1. field \in Fields /\ Normalize(o)[field] # None /\ message[field] = Normalize(o)[field]
    BY <1>2
  <2>2. CASE field \in DOMAIN AuthPart
    BY <1>7, <2>1, <2>2 DEF Asked, Given, Merged
  <2>3. CASE field \notin DOMAIN AuthPart
    BY <1>6, <2>1, <2>3 DEF Asked, Given
  <2> QED BY <2>2, <2>3
<1>12. ASSUME "publish" \in DOMAIN message
       PROVE  message.publish = IF Given(o, "publish") THEN o.publish ELSE o.protocol = "tcp"
  BY <1>1, <1>2, <1>3, <1>8, <1>12 DEF Given
<1>13. ASSUME o.protocol = "tcp"
       PROVE  /\ "publish" \in DOMAIN message
              /\ DOMAIN message \subseteq {"type", "publish", "protocol", "port"}
  <2>1. "publish" \in DOMAIN message
    BY <1>2, <1>3, <1>5, <1>8, <1>13
  <2>2. \A field \in EdgeOptions : ~Given(o, field)
    BY <1>1, <1>13
  <2>3. ~Given(o, "httpCors")
    BY <1>1, <1>3, <1>13
  <2>4. ASSUME NEW field \in DOMAIN message
        PROVE  field \in {"type", "publish", "protocol", "port"}
    <3>1. field \in Fields /\ Normalize(o)[field] # None
      BY <1>2
    <3>2. CASE field \in DOMAIN AuthPart
      <4>1. ~Given(o, "auth") /\ ~Given(o, field)
        BY <1>4, <2>2, <3>2 DEF EdgeOptions
      <4> QED BY <1>7, <3>1, <3>2, <4>1 DEF Given, Merged
    <3>3. CASE field \notin DOMAIN AuthPart \cup {"type", "publish", "protocol", "port"}
      <4>1. Normalize(o)[field] = o[field]
        BY <1>6, <3>1, <3>3
      <4>2. field \in EdgeOptions \/ field = "httpCors"
        BY <1>4, <1>5, <3>1, <3>3 DEF EdgeOptions
      <4> QED BY <2>2, <2>3, <3>1, <4>1, <4>2 DEF Given
    <3> QED BY <3>2, <3>3
  <2> QED BY <2>1, <2>4
<1>14. ASSUME "port" \in DOMAIN message
       PROVE  o.protocol = "tcp" /\ message.port \in Ports
  BY <1>1, <1>2, <1>4, <1>6, <1>14 DEF Given
<1>15. ASSUME "httpCors" \in DOMAIN message
       PROVE  /\ o.protocol \in {None, "http"}
              /\ "publish" \in DOMAIN message => message.publish
  <2>1. Given(o, "httpCors")
    BY <1>2, <1>4, <1>6, <1>15 DEF Given
  <2>2. o.publish # FALSE /\ o.protocol \in {None, "http"}
    BY <1>1, <2>1
  <2>3. ASSUME "publish" \in DOMAIN message PROVE message.publish = TRUE
    BY <1>2, <1>3, <1>8, <2>2, <2>3
  <2> QED BY <2>2, <2>3
<1> QED BY <1>10, <1>11, <1>12, <1>13, <1>14, <1>15

\* The fields of an answer that the engine did not set.
LEMMA WithKeeps ==
  ASSUME NEW message, NEW other, NEW value, NEW field \in DOMAIN message, field # other
  PROVE  /\ field \in DOMAIN With(message, other, value)
         /\ With(message, other, value)[field] = message[field]
BY DEF With

\* What is read back of an answer shows every field the engine did not change.
LEMMA AnswerIsShown ==
  ASSUME NEW c \in TunnelCalls, NEW message,
         message = PropertiesToMessage(Normalize(Options(c))),
         NEW answer \in Answers(message)
  PROVE  \A field \in DOMAIN message \ {"httpVersion"} :
            PropertiesFromMessage(answer)[field] = message[field]
<1> DEFINE o == Options(c)
<1> SUFFICES ASSUME NEW field \in DOMAIN message \ {"httpVersion"}
             PROVE  PropertiesFromMessage(answer)[field] = message[field]
  OBVIOUS
<1>1. field \in Fields /\ Normalize(o)[field] # None /\ message[field] = Normalize(o)[field]
  BY MessageFields
<1>2. field \in DOMAIN answer /\ answer[field] = message[field]
  <2>1. CASE answer = message
    BY <2>1
  <2>2. CASE answer = With(message, "httpVersion", "h9")
    BY <2>2, WithKeeps
  <2>3. CASE "publish" \notin DOMAIN message /\ answer = With(message, "publish", FALSE)
    <3>1. field # "publish"
      BY <2>3
    <3> QED BY <2>3, <3>1 DEF With
  <2> QED BY <2>1, <2>2, <2>3 DEF Answers
<1>3. Known(field, message[field])
  <2>1. CASE field \in {"protocol", "tlsMode"}
    <3>1. message[field] = o[field]
      BY <1>1, <2>1, NormalFields DEF AuthPart
    <3>2. Given(o, field)
      BY <1>1, <3>1 DEF Given
    <3> QED BY <1>1, <3>1, <3>2, TunnelOptionsAssumption
  <2>2. CASE field = "type"
    BY <1>1, <2>2, NormalFields DEF Known
  <2>3. CASE field \notin {"protocol", "tlsMode", "type"}
    BY <2>3 DEF Known
  <2> QED BY <2>1, <2>2, <2>3
<1> QED BY <1>1, <1>2, <1>3 DEF PropertiesFromMessage

\* create_tunnel() sends the message of a call it accepts, and nothing otherwise.
LEMMA CreateKeepsTunnel ==
  ASSUME TunnelInv, CreateTunnel, part' = part, part = "tunnel"
  PROVE  TunnelInv'
<1>1. /\ refusal = "none" /\ refusal' = TunnelRefusal(call)
      /\ wire' = IF refusal' = "accepted"
                 THEN PropertiesToMessage(Normalize(Options(call))) ELSE None
      /\ call' = call /\ shown' = shown
  BY DEF CreateTunnel
<1>2. wire = None /\ shown = None /\ call \in TunnelCalls
  BY <1>1 DEF TunnelInv
<1>3. PropertiesToMessage(Normalize(Options(call))) # None
  BY <1>2, TunnelOptionsAssumption
<1>4. (wire' # None) = (refusal' = "accepted")
  BY <1>1, <1>3
<1> QED BY <1>1, <1>2, <1>4, Zenon DEF TunnelInv

\* What the engine answers changes no more than what is shown.
LEMMA AnswerKeepsTunnel ==
  ASSUME TunnelInv, EngineOpens, part' = part, part = "tunnel"
  PROVE  TunnelInv'
<1>1. call' = call /\ wire' = wire /\ refusal' = refusal /\ wire # None
  BY DEF EngineOpens
<1>2. PICK answer \in Answers(wire) : shown' = PropertiesFromMessage(answer)
  BY DEF EngineOpens
<1>3. call \in TunnelCalls /\ wire = PropertiesToMessage(Normalize(Options(call)))
  BY <1>1 DEF TunnelInv
<1>5. \A field \in DOMAIN wire \ {"httpVersion"} : shown'[field] = wire[field]
  BY <1>2, <1>3, AnswerIsShown
<1> QED BY <1>1, <1>5, Zenon DEF TunnelInv

\* A message made of accepted options is what the caller asked for.
LEMMA TunnelInvMeans == TunnelInv => TunnelAsAsked
<1> SUFFICES ASSUME TunnelInv, wire # None PROVE TunnelAsAsked
  BY DEF TunnelAsAsked
<1>1. /\ call \in TunnelCalls /\ TunnelRefusal(call) = "accepted"
      /\ wire = PropertiesToMessage(Normalize(Options(call)))
      /\ shown # None => \A field \in DOMAIN wire \ {"httpVersion"} : shown[field] = wire[field]
  BY DEF TunnelInv
<1>0. PICK o : o = Options(call)
  OBVIOUS
<1>2. /\ \A field \in Fields : Asked(o, field) => field \in DOMAIN wire
      /\ \A field \in DOMAIN wire \ {"type", "publish"} :
            /\ Asked(o, field)
            /\ Given(o, field) => wire[field] = o[field]
            /\ ~Given(o, field) => wire[field] = o.auth[AuthPart[field]]
      /\ "publish" \in DOMAIN wire =>
            wire.publish = IF Given(o, "publish") THEN o.publish ELSE o.protocol = "tcp"
      /\ o.protocol = "tcp" => /\ "publish" \in DOMAIN wire
                               /\ DOMAIN wire \subseteq {"type", "publish", "protocol", "port"}
      /\ "port" \in DOMAIN wire => o.protocol = "tcp" /\ wire.port \in Ports
      /\ "httpCors" \in DOMAIN wire =>
            o.protocol \in {None, "http"} /\ ("publish" \in DOMAIN wire => wire.publish)
  BY <1>0, <1>1, AcceptedAsAsked
<1> QED BY <1>0, <1>1, <1>2, Zenon DEF TunnelAsAsked, Asked

---------------------------------------------------------------------------
(* Webhooks. *)

\* The checks of verify_event().
LEMMA WebhookChecks ==
  ASSUME NEW payload, NEW header, NEW key, NEW tolerance, NEW now
  PROVE  LET checks == VerifyRefusals(payload, header, key, tolerance, now)
         IN  /\ DOMAIN checks = 1 .. 8
             /\ checks[1] = RaiseIf(key = BlankKey, "SECRET_REQUIRED")
             /\ checks[2] = RaiseIf(tolerance < 0, "TOLERANCE")
             /\ checks[3] = RaiseIf(header = <<>>, "NO_HEADER")
             /\ checks[4] = RaiseIf(InvalidTime(header), "TIMESTAMP")
             /\ checks[5] = RaiseIf(
                    Times(header) = {} \/ Signatures(header) = {},
                    "FORMAT")
             /\ checks[6] = RaiseIf(
                    Outside(now, HeaderTime(header), tolerance),
                    "OUTSIDE_TOLERANCE")
             /\ checks[7] = RaiseIf(
                    ~SignatureMatches(header, key, payload),
                    "MISMATCH")
             /\ checks[8] = RaiseIf(
                    ~(EventParts \subseteq Payloads[payload]),
                    "PAYLOAD")
<1> DEFINE checks == VerifyRefusals(payload, header, key, tolerance, now)
<1>0. DOMAIN checks = 1 .. 8
  BY DEF VerifyRefusals
<1>1. checks[1] = RaiseIf(key = BlankKey, "SECRET_REQUIRED")
  BY DEF VerifyRefusals
<1>2. checks[2] = RaiseIf(tolerance < 0, "TOLERANCE")
  BY DEF VerifyRefusals
<1>3. checks[3] = RaiseIf(header = <<>>, "NO_HEADER")
  BY DEF VerifyRefusals
<1>4. checks[4] = RaiseIf(InvalidTime(header), "TIMESTAMP")
  BY DEF VerifyRefusals
<1>5. checks[5] = RaiseIf(Times(header) = {} \/ Signatures(header) = {}, "FORMAT")
  BY DEF VerifyRefusals
<1>6. checks[6] = RaiseIf(
         Outside(now, HeaderTime(header), tolerance),
         "OUTSIDE_TOLERANCE")
  BY DEF VerifyRefusals
<1>7. checks[7] = RaiseIf(~SignatureMatches(header, key, payload), "MISMATCH")
  BY DEF VerifyRefusals
<1>8. checks[8] = RaiseIf(~(EventParts \subseteq Payloads[payload]), "PAYLOAD")
  BY DEF VerifyRefusals
<1> QED BY <1>0, <1>1, <1>2, <1>3, <1>4, <1>5, <1>6, <1>7, <1>8, Zenon

\* An accepted delivery is in time and bears a signature of the key, the
\* payload and the time of the header.
LEMMA WebhookPassed ==
  ASSUME NEW payload, NEW header, NEW key, NEW tolerance, NEW now,
         FirstRefusal(VerifyRefusals(payload, header, key, tolerance, now)) = "accepted"
  PROVE  /\ ~(Outside(now, HeaderTime(header), tolerance))
         /\ ~(~SignatureMatches(header, key, payload))
<1> DEFINE checks == VerifyRefusals(payload, header, key, tolerance, now)
<1>1. DOMAIN checks = 1 .. 8
  BY WebhookChecks
<1>2. \A i \in 1 .. 8 : checks[i] = "accepted"
  BY <1>1, PassedAll
<1>3. \A i \in {6, 7} : checks[i] = "accepted"
  BY <1>2
<1>4. /\ checks[6] = RaiseIf(
             Outside(now, HeaderTime(header), tolerance),
             "OUTSIDE_TOLERANCE")
      /\ checks[7] = RaiseIf(~SignatureMatches(header, key, payload), "MISMATCH")
  BY WebhookChecks
<1> HIDE DEF checks
<1> QED BY <1>3, <1>4, Zenon DEF RaiseIf

\* One that fails none is accepted.
LEMMA WebhookAccepted ==
  ASSUME NEW payload, NEW header, NEW key, NEW tolerance, NEW now,
         ~(key = BlankKey),
         ~(tolerance < 0),
         ~(header = <<>>),
         ~(InvalidTime(header)),
         ~(Times(header) = {} \/ Signatures(header) = {}),
         ~(Outside(now, HeaderTime(header), tolerance)),
         ~(~SignatureMatches(header, key, payload)),
         ~(~(EventParts \subseteq Payloads[payload]))
  PROVE  VerifyEvent(payload, header, key, tolerance, now) = "accepted"
<1> DEFINE checks == VerifyRefusals(payload, header, key, tolerance, now)
<1>1. /\ checks[1] = "accepted" /\ checks[2] = "accepted" /\ checks[3] = "accepted"
      /\ checks[4] = "accepted" /\ checks[5] = "accepted" /\ checks[6] = "accepted"
      /\ checks[7] = "accepted" /\ checks[8] = "accepted"
  <2>1. /\ checks[1] = RaiseIf(key = BlankKey, "SECRET_REQUIRED")
        /\ checks[2] = RaiseIf(tolerance < 0, "TOLERANCE")
        /\ checks[3] = RaiseIf(header = <<>>, "NO_HEADER")
        /\ checks[4] = RaiseIf(InvalidTime(header), "TIMESTAMP")
        /\ checks[5] = RaiseIf(Times(header) = {} \/ Signatures(header) = {}, "FORMAT")
        /\ checks[6] = RaiseIf(Outside(now, HeaderTime(header), tolerance), "OUTSIDE_TOLERANCE")
        /\ checks[7] = RaiseIf(~SignatureMatches(header, key, payload), "MISMATCH")
        /\ checks[8] = RaiseIf(~(EventParts \subseteq Payloads[payload]), "PAYLOAD")
    BY WebhookChecks
  <2> HIDE DEF checks
  <2> QED BY <2>1, Zenon DEF RaiseIf
<1>2. DOMAIN checks = 1 .. 8
  BY WebhookChecks
<1> HIDE DEF checks
<1>3. \A i \in DOMAIN checks : checks[i] = "accepted"
  <2>1. \A i \in 1 .. 8 : i = 1 \/ i = 2 \/ i = 3 \/ i = 4 \/ i = 5 \/ i = 6 \/ i = 7 \/ i = 8
    OBVIOUS
  <2> QED BY <1>1, <1>2, <2>1
<1>4. FirstRefusal(checks) = "accepted"
  BY <1>3, AcceptedIfPassed
<1> QED BY <1>4 DEF checks, VerifyEvent

---------------------------------------------------------------------------
(* Headers of a delivery. *)

\* A header as sign_payload() makes it.
LEMMA OneSignature ==
  ASSUME NEW s
  PROVE  /\ Times(HeaderOf(s)) = {1} /\ Signatures(HeaderOf(s)) = {2}
         /\ HeaderOf(s)[1].value = s.at /\ HeaderOf(s)[2].value = s
         /\ HeaderOf(s) # <<>>
BY DEF HeaderOf, Times, Signatures, Part

\* A header with two signatures of one time.
LEMMA TwoSignatures ==
  ASSUME NEW s, NEW r
  PROVE  /\ Times(Rotated(s, r)) = {1} /\ Signatures(Rotated(s, r)) = {2, 3}
         /\ Rotated(s, r)[1].value = s.at
         /\ Rotated(s, r)[2].value = s /\ Rotated(s, r)[3].value = r
         /\ Rotated(s, r) # <<>>
BY DEF Rotated, Times, Signatures, Part

\* With one timestamp, that is the time of the header.
LEMMA OneTime ==
  ASSUME NEW header, Times(header) = {1}
  PROVE  HeaderTime(header) = header[1].value
<1>1. (CHOOSE i \in {1} : \A j \in {1} : j <= i) = 1
  OBVIOUS
<1> QED BY <1>1 DEF HeaderTime

\* The parts of a header made of two.
LEMMA JoinedParts ==
  ASSUME NEW a, NEW b, NEW c, NEW d
  PROVE  LET four == <<a, b>> \o <<c, d>>
             three == <<a>> \o <<c, d>>
         IN  /\ DOMAIN four = 1 .. 4
             /\ four[1] = a /\ four[2] = b /\ four[3] = c /\ four[4] = d
             /\ DOMAIN three = 1 .. 3
             /\ three[1] = a /\ three[2] = c /\ three[3] = d
<1> DEFINE S == {a, b, c, d}
<1>1. <<a, b>> \in Seq(S) /\ <<c, d>> \in Seq(S) /\ <<a>> \in Seq(S)
  OBVIOUS
<1> QED BY <1>1

\* What a delivery is.
LEMMA DeliveredHeaders ==
  ASSUME NEW header \in Delivered
  PROVE  \/ \E s \in signed : header = HeaderOf(s)
         \/ \E s, r \in signed : header = Rotated(s, r) /\ s.at = r.at
         \/ \E s, r \in signed : header = HeaderOf(s) \o HeaderOf(r)
         \/ \E s \in signed : header \in {<<>>, <<Part("t", s.at)>>, <<Part("v1", s)>>}
         \/ \E s \in signed : header = <<Part("t", -1)>> \o HeaderOf(s)
<1>1. CASE header \in {HeaderOf(s) : s \in signed}
  BY <1>1
<1>2. CASE header \in {Rotated(x[1], x[2]) : x \in {x \in signed \X signed : x[1].at = x[2].at}}
  <2>1. PICK x \in signed \X signed : x[1].at = x[2].at /\ header = Rotated(x[1], x[2])
    BY <1>2
  <2>2. x[1] \in signed /\ x[2] \in signed
    OBVIOUS
  <2> QED BY <2>1, <2>2, Zenon
<1>3. CASE header \in {HeaderOf(x[1]) \o HeaderOf(x[2]) : x \in signed \X signed}
  <2>1. PICK x \in signed \X signed : header = HeaderOf(x[1]) \o HeaderOf(x[2])
    BY <1>3
  <2>2. x[1] \in signed /\ x[2] \in signed
    OBVIOUS
  <2> QED BY <2>1, <2>2, Zenon
<1>4. CASE header \in UNION {{<<>>, <<Part("t", s.at)>>, <<Part("v1", s)>>,
                              <<Part("t", -1)>> \o HeaderOf(s)} : s \in signed}
  <2>1. PICK s \in signed : header \in {<<>>, <<Part("t", s.at)>>, <<Part("v1", s)>>,
                                        <<Part("t", -1)>> \o HeaderOf(s)}
    BY <1>4
  <2>2. \/ header \in {<<>>, <<Part("t", s.at)>>, <<Part("v1", s)>>}
        \/ header = <<Part("t", -1)>> \o HeaderOf(s)
    BY <2>1, Zenon
  <2> QED BY <2>2, Zenon
<1> QED BY <1>1, <1>2, <1>3, <1>4, Zenon DEF Delivered

\* A delivery bears only signatures that were made.
LEMMA SignaturesWereMade ==
  ASSUME NEW header \in Delivered, NEW i \in Signatures(header)
  PROVE  header[i].value \in signed
<1>1. i \in DOMAIN header /\ header[i].name = "v1"
  BY DEF Signatures
<1>2. CASE \E s \in signed : header = HeaderOf(s)
  BY <1>1, <1>2 DEF HeaderOf, Part
<1>3. CASE \E s, r \in signed : header = Rotated(s, r)
  BY <1>1, <1>3 DEF Rotated, Part
<1>4. CASE \E s, r \in signed : header = HeaderOf(s) \o HeaderOf(r)
  <2>1. PICK s \in signed, r \in signed : header = HeaderOf(s) \o HeaderOf(r)
    BY <1>4
  <2>2. /\ DOMAIN header = 1 .. 4
        /\ header[1] = Part("t", s.at) /\ header[2] = Part("v1", s)
        /\ header[3] = Part("t", r.at) /\ header[4] = Part("v1", r)
    BY <2>1, JoinedParts DEF HeaderOf
  <2> QED BY <1>1, <2>2 DEF Part
<1>5. CASE \E s \in signed : header \in {<<>>, <<Part("t", s.at)>>, <<Part("v1", s)>>}
  BY <1>1, <1>5 DEF Part
<1>6. CASE \E s \in signed : header = <<Part("t", -1)>> \o HeaderOf(s)
  <2>1. PICK s \in signed : header = <<Part("t", -1)>> \o HeaderOf(s)
    BY <1>6
  <2>2. /\ DOMAIN header = 1 .. 3 /\ header[1] = Part("t", -1)
        /\ header[2] = Part("t", s.at) /\ header[3] = Part("v1", s)
    BY <2>1, JoinedParts DEF HeaderOf
  <2> QED BY <1>1, <2>2 DEF Part
<1> QED BY <1>2, <1>3, <1>4, <1>5, <1>6, DeliveredHeaders

\* Two signatures share a header only when they share its time.
LEMMA RotatedTogether ==
  ASSUME NEW r, NEW s, Rotated(r, s) \in Delivered
  PROVE  r.at = s.at
<1> DEFINE header == Rotated(r, s)
<1>1. header = <<Part("t", r.at), Part("v1", r), Part("v1", s)>>
  BY DEF Rotated
<1>2. /\ DOMAIN header = 1 .. 3 /\ header[2] = Part("v1", r) /\ header[3] = Part("v1", s)
  BY <1>1
<1> HIDE DEF header
<1>3. ASSUME NEW x, header = HeaderOf(x) PROVE FALSE
  BY <1>2, <1>3 DEF HeaderOf
<1>4. ASSUME NEW x, NEW y, header = Rotated(x, y), x.at = y.at PROVE r.at = s.at
  BY <1>2, <1>4 DEF Rotated, Part
<1>5. ASSUME NEW x, NEW y, header = HeaderOf(x) \o HeaderOf(y) PROVE FALSE
  <2>1. DOMAIN header = 1 .. 4
    BY <1>5, JoinedParts DEF HeaderOf
  <2> QED BY <1>2, <2>1
<1>6. ASSUME NEW x, header \in {<<>>, <<Part("t", x.at)>>, <<Part("v1", x)>>} PROVE FALSE
  BY <1>2, <1>6, SMTT(30)
<1>7. ASSUME NEW x, header = <<Part("t", -1)>> \o HeaderOf(x) PROVE FALSE
  <2>1. header[2] = Part("t", x.at)
    BY <1>7, JoinedParts DEF HeaderOf
  <2>2. header[2].name = "t"
    BY <2>1 DEF Part
  <2> QED BY <1>2, <2>2 DEF Part
<1>8. \/ \E x \in signed : header = HeaderOf(x)
      \/ \E x, y \in signed : header = Rotated(x, y) /\ x.at = y.at
      \/ \E x, y \in signed : header = HeaderOf(x) \o HeaderOf(y)
      \/ \E x \in signed : header \in {<<>>, <<Part("t", x.at)>>, <<Part("v1", x)>>}
      \/ \E x \in signed : header = <<Part("t", -1)>> \o HeaderOf(x)
  BY DeliveredHeaders, Zenon DEF header
<1>9. CASE \E x \in signed : header = HeaderOf(x)
  BY <1>3, <1>9
<1>10. CASE \E x, y \in signed : header = Rotated(x, y) /\ x.at = y.at
  BY <1>4, <1>10
<1>11. CASE \E x, y \in signed : header = HeaderOf(x) \o HeaderOf(y)
  BY <1>5, <1>11
<1>12. CASE \E x \in signed : header \in {<<>>, <<Part("t", x.at)>>, <<Part("v1", x)>>}
  BY <1>6, <1>12
<1>13. CASE \E x \in signed : header = <<Part("t", -1)>> \o HeaderOf(x)
  BY <1>7, <1>13
<1> QED BY <1>8, <1>9, <1>10, <1>11, <1>12, <1>13

---------------------------------------------------------------------------
(* The invariant of webhooks: signatures are made with a secret at a time  *)
(* of the clock, and the one call of verify_event() had its arguments from *)
(* a delivery.                                                             *)

Made == [key : Keys \ {BlankKey}, at : 0 .. Horizon, payload : DOMAIN Payloads]

Called ==
    /\ verified.header \in Delivered
    /\ verified.tolerance \in Int /\ verified.now \in Int
    /\ verified.result = VerifyEvent(verified.payload, verified.header, verified.key,
                                     verified.tolerance, verified.now)

WebhookInv ==
    /\ signed \subseteq Made
    /\ IsFiniteSet(signed) /\ Cardinality(signed) <= MaxSigned
    /\ verified # NotCalled => Called

\* One more signature, of a key that is not blank.
LEMMA SignKeepsWebhooks ==
  ASSUME WebhookInv, verified = NotCalled, Cardinality(signed) < MaxSigned,
         NEW key \in Keys, NEW at \in 0 .. Horizon, NEW payload \in DOMAIN Payloads,
         Sign(key, at, payload)
  PROVE  WebhookInv'
<1> DEFINE s == Signature(key, at, payload)
<1>1. s \in Made
  BY DEF Made, Signature, Sign
<1>2. signed' = signed \cup {s} /\ verified' = verified
  BY DEF Sign
<1>3. IsFiniteSet(signed) /\ Cardinality(signed) \in Nat /\ MaxSigned \in Nat
  BY FS_CardinalityType, WebhookAssumption DEF WebhookInv
<1> HIDE DEF s
<1>4. /\ IsFiniteSet(signed \cup {s})
      /\ Cardinality(signed \cup {s}) \in {Cardinality(signed), Cardinality(signed) + 1}
  BY <1>3, FS_AddElement
<1>5. IsFiniteSet(signed') /\ Cardinality(signed') <= MaxSigned
  BY <1>2, <1>3, <1>4
<1>6. signed' \subseteq Made
  BY <1>1, <1>2 DEF WebhookInv
<1>7. verified' = NotCalled
  BY <1>2
<1> QED BY <1>5, <1>6, <1>7, Zenon DEF WebhookInv

\* A delivery is verified as it came.
LEMMA VerifyKeepsWebhooks ==
  ASSUME WebhookInv, NEW payload, NEW header \in Delivered, NEW key,
         NEW tolerance \in Tolerances, NEW now \in 0 .. Horizon,
         Verify(payload, header, key, tolerance, now)
  PROVE  WebhookInv'
<1>1. /\ signed' = signed
      /\ verified' = [ payload |-> payload, header |-> header, key |-> key,
                       tolerance |-> tolerance, now |-> now,
                       result |-> VerifyEvent(payload, header, key, tolerance, now) ]
  BY DEF Verify
<1>2. /\ verified'.payload = payload /\ verified'.header = header /\ verified'.key = key
      /\ verified'.tolerance = tolerance /\ verified'.now = now
      /\ verified'.result = VerifyEvent(payload, header, key, tolerance, now)
  BY <1>1
<1>3. tolerance \in Int /\ now \in Int
  BY WebhookAssumption
<1>4. Delivered' = Delivered
  BY <1>1 DEF Delivered
<1>5. Called'
  BY <1>2, <1>3, <1>4, Zenon DEF Called
<1> QED BY <1>1, <1>5, Zenon DEF WebhookInv

\* An accepted delivery bears a signature that was made, with the key, for the
\* payload, and in time.
LEMMA AcceptedWasSigned ==
  ASSUME NEW payload, NEW header \in Delivered, NEW key, NEW tolerance \in Int, NEW now \in Int,
         signed \subseteq Made,
         VerifyEvent(payload, header, key, tolerance, now) = "accepted"
  PROVE  \E s \in signed : /\ s.key = key /\ s.payload = payload
                           /\ now - s.at \in -tolerance .. tolerance
<1> DEFINE s == Signature(key, HeaderTime(header), payload)
<1>1. ~Outside(now, HeaderTime(header), tolerance) /\ SignatureMatches(header, key, payload)
  BY WebhookPassed, Zenon DEF VerifyEvent
<1>2. PICK i \in Signatures(header) : header[i].value = s
  BY <1>1 DEF SignatureMatches
<1>3. s \in signed
  BY <1>2, SignaturesWereMade
<1>4. s.key = key /\ s.payload = payload /\ s.at = HeaderTime(header)
  BY DEF Signature
<1>5. s.at \in Int
  BY <1>3, WebhookAssumption DEF Made
<1> HIDE DEF s
<1>6. ~(now - s.at > tolerance) /\ ~(s.at - now > tolerance)
  BY <1>1, <1>4 DEF Outside
<1>7. now - s.at \in -tolerance .. tolerance
  BY <1>5, <1>6
<1> QED BY <1>3, <1>4, <1>7

\* A signature that was made for it, in time, is enough, also beside another
\* that shares its time.
LEMMA SignedIsAccepted ==
  ASSUME NEW payload, NEW header \in Delivered, NEW key, NEW tolerance \in Int, NEW now \in Int,
         signed \subseteq Made,
         NEW s \in signed, s.key = key, s.payload = payload,
         now - s.at \in -tolerance .. tolerance,
         \/ header = HeaderOf(s)
         \/ \E r \in signed : header \in {Rotated(s, r), Rotated(r, s)},
         EventParts \subseteq Payloads[payload]
  PROVE  VerifyEvent(payload, header, key, tolerance, now) = "accepted"
<1>1. s.at \in Nat /\ s.key # BlankKey /\ s = Signature(key, s.at, payload)
  BY WebhookAssumption DEF Made, Signature
<1>2. /\ Times(header) = {1} /\ Signatures(header) # {} /\ header # <<>>
      /\ header[1].value = s.at
      /\ \E i \in Signatures(header) : header[i].value = s
  <2>1. CASE header = HeaderOf(s)
    BY <2>1, OneSignature
  <2>2. CASE \E r \in signed : header = Rotated(s, r)
    BY <2>2, TwoSignatures
  <2>3. CASE \E r \in signed : header = Rotated(r, s)
    <3>1. PICK r \in signed : header = Rotated(r, s)
      BY <2>3
    <3>2. r.at = s.at
      BY <3>1, RotatedTogether
    <3> QED BY <3>1, <3>2, TwoSignatures
  <2>4. \/ header = HeaderOf(s) \/ \E r \in signed : header = Rotated(s, r)
        \/ \E r \in signed : header = Rotated(r, s)
    OBVIOUS
  <2> QED BY <2>1, <2>2, <2>3, <2>4
<1>3. HeaderTime(header) = s.at
  BY <1>2, OneTime
<1>4. ~InvalidTime(header)
  BY <1>1, <1>2 DEF InvalidTime
<1>5. ~(Times(header) = {} \/ Signatures(header) = {})
  BY <1>2
<1>6. ~(tolerance < 0) /\ ~Outside(now, s.at, tolerance)
  BY <1>1 DEF Outside
<1>7. SignatureMatches(header, key, payload)
  BY <1>1, <1>2, <1>3 DEF SignatureMatches
<1>8. ~(key = BlankKey) /\ ~(header = <<>>)
  BY <1>1, <1>2
<1>9. ~Outside(now, HeaderTime(header), tolerance)
  BY <1>3, <1>6
<1> QED BY <1>4, <1>5, <1>6, <1>7, <1>8, <1>9, WebhookAccepted, Zenon

\* So the verdict on the delivery is right either way.
LEMMA WebhookInvMeans == WebhookInv => WebhookVerdicts
<1> DEFINE v == verified
           InTime(s) == /\ s.key = v.key /\ s.payload = v.payload
                        /\ v.now - s.at \in -v.tolerance .. v.tolerance
<1> SUFFICES ASSUME WebhookInv, verified # NotCalled PROVE WebhookVerdicts
  BY DEF WebhookVerdicts
<1>1. Called /\ signed \subseteq Made
  BY DEF WebhookInv
<1>2. ASSUME v.result = "accepted" PROVE \E s \in signed : InTime(s)
  <2>1. /\ v.header \in Delivered /\ v.tolerance \in Int /\ v.now \in Int
        /\ VerifyEvent(v.payload, v.header, v.key, v.tolerance, v.now) = "accepted"
    BY <1>1, <1>2 DEF Called
  <2>2. \E s \in signed : /\ s.key = v.key /\ s.payload = v.payload
                          /\ v.now - s.at \in -v.tolerance .. v.tolerance
    BY <1>1, <2>1, AcceptedWasSigned
  <2> QED BY <2>2
<1>3. v.result = "accepted" => v.payload \in {s.payload : s \in signed}
  BY <1>2
<1>4. ASSUME NEW s \in signed, InTime(s),
             v.header = HeaderOf(s) \/ \E r \in signed : v.header \in {Rotated(s, r), Rotated(r, s)},
             EventParts \subseteq Payloads[v.payload]
      PROVE  v.result = "accepted"
  BY <1>1, <1>4, SignedIsAccepted, Zenon DEF Called
<1> QED BY <1>2, <1>3, <1>4 DEF WebhookVerdicts

---------------------------------------------------------------------------
(* The options of a client. *)

\* The checks of _resolve_config() that its properties are about.
LEMMA FileChecks ==
  ASSUME NEW o, NEW e, NEW f
  PROVE  LET c == FindContext(o, e, f)
             n == FindEnvironment(o, e, f)
             checks == ConfigRefusals(o, e, f)
         IN  /\ DOMAIN checks = 1 .. 16
             /\ checks[6] = RaiseIf(
                    o.readFile /\ OverridesWithStoredToken(o, e, c, n),
                    "STORED_TOKEN_ENGINE_OVERRIDE")
             /\ checks[8] = RaiseIf(
                    o.readFile /\ IncompleteMTLS(e, c, n),
                    "MTLS_INCOMPLETE")
             /\ checks[10] = RaiseIf(
                    o.readFile /\ OverridesWithStoredMTLS(o, e, c, n),
                    "STORED_MTLS_ENGINE_OVERRIDE")
<1> DEFINE c == FindContext(o, e, f)
           n == FindEnvironment(o, e, f)
           checks == ConfigRefusals(o, e, f)
<1>0. DOMAIN checks = 1 .. 16
  BY DEF ConfigRefusals
<1>6. checks[6] = RaiseIf(
         o.readFile /\ OverridesWithStoredToken(o, e, c, n),
         "STORED_TOKEN_ENGINE_OVERRIDE")
  BY DEF ConfigRefusals
<1>8. checks[8] = RaiseIf(o.readFile /\ IncompleteMTLS(e, c, n), "MTLS_INCOMPLETE")
  BY DEF ConfigRefusals
<1>10. checks[10] = RaiseIf(
         o.readFile /\ OverridesWithStoredMTLS(o, e, c, n),
         "STORED_MTLS_ENGINE_OVERRIDE")
  BY DEF ConfigRefusals
<1> QED BY <1>0, <1>6, <1>8, <1>10, Zenon

\* What is accepted passed them.
LEMMA FilePassed ==
  ASSUME NEW o, NEW e, NEW f,
         FirstRefusal(ConfigRefusals(o, e, f)) = "accepted"
  PROVE  LET c == FindContext(o, e, f)
             n == FindEnvironment(o, e, f)
         IN  /\ ~(o.readFile /\ OverridesWithStoredToken(o, e, c, n))
             /\ ~(o.readFile /\ IncompleteMTLS(e, c, n))
             /\ ~(o.readFile /\ OverridesWithStoredMTLS(o, e, c, n))
<1> DEFINE c == FindContext(o, e, f)
           n == FindEnvironment(o, e, f)
           checks == ConfigRefusals(o, e, f)
<1>1. DOMAIN checks = 1 .. 16
  BY FileChecks, Zenon
<1>2. \A i \in 1 .. 16 : checks[i] = "accepted"
  BY <1>1, PassedAll
<1>3. \A i \in {6, 8, 10} : checks[i] = "accepted"
  BY <1>2
<1>4. /\ checks[6] = RaiseIf(
             o.readFile /\ OverridesWithStoredToken(o, e, c, n),
             "STORED_TOKEN_ENGINE_OVERRIDE")
      /\ checks[8] = RaiseIf(
             o.readFile /\ IncompleteMTLS(e, c, n),
             "MTLS_INCOMPLETE")
      /\ checks[10] = RaiseIf(
             o.readFile /\ OverridesWithStoredMTLS(o, e, c, n),
             "STORED_MTLS_ENGINE_OVERRIDE")
  BY FileChecks, Zenon
<1> HIDE DEF checks
<1> QED BY <1>3, <1>4, Zenon DEF RaiseIf

\* The checks of resolve_client_options() that its properties are about.
LEMMA ClientChecks ==
  ASSUME NEW o, NEW e, NEW f, NEW past
  PROVE  LET checks == OptionRefusals(o, e, f, past)
         IN  /\ DOMAIN checks = 1 .. 11
             /\ checks[1] = RaiseIf(
                    Token(o, e, f) # None /\ HasCertificate(TLS(o, e, f)),
                    "AUTH_CONFLICT")
             /\ checks[2] = RaiseIf(Token(o, e, f) \in past, "TOKEN_EXPIRED")
             /\ checks[9] = RaiseIf(
                    NormalRegion(Region(o, e, f)) # None /\ ExplicitEngine(o, e) # None,
                    "REGION_ENGINE_CONFLICT")
             /\ checks[11] = RaiseIf(
                    InvalidEngine(Engine(o, e, f)),
                    "INVALID_ENGINE")
<1> DEFINE checks == OptionRefusals(o, e, f, past)
<1>0. DOMAIN checks = 1 .. 11
  BY DEF OptionRefusals
<1>1. checks[1] = RaiseIf(
         Token(o, e, f) # None /\ HasCertificate(TLS(o, e, f)),
         "AUTH_CONFLICT")
  BY DEF OptionRefusals
<1>2. checks[2] = RaiseIf(Token(o, e, f) \in past, "TOKEN_EXPIRED")
  BY DEF OptionRefusals
<1>9. checks[9] = RaiseIf(
         NormalRegion(Region(o, e, f)) # None /\ ExplicitEngine(o, e) # None,
         "REGION_ENGINE_CONFLICT")
  BY DEF OptionRefusals
<1>11. checks[11] = RaiseIf(InvalidEngine(Engine(o, e, f)), "INVALID_ENGINE")
  BY DEF OptionRefusals
<1> QED BY <1>0, <1>1, <1>2, <1>9, <1>11, Zenon

\* What is accepted passed them.
LEMMA ClientPassed ==
  ASSUME NEW o, NEW e, NEW f, NEW past,
         FirstRefusal(OptionRefusals(o, e, f, past)) = "accepted"
  PROVE  /\ ~(Token(o, e, f) # None /\ HasCertificate(TLS(o, e, f)))
         /\ ~(Token(o, e, f) \in past)
         /\ ~(NormalRegion(Region(o, e, f)) # None /\ ExplicitEngine(o, e) # None)
         /\ ~(InvalidEngine(Engine(o, e, f)))
<1> DEFINE checks == OptionRefusals(o, e, f, past)
<1>1. DOMAIN checks = 1 .. 11
  BY ClientChecks, Zenon
<1>2. \A i \in 1 .. 11 : checks[i] = "accepted"
  BY <1>1, PassedAll
<1>3. \A i \in {1, 2, 9, 11} : checks[i] = "accepted"
  BY <1>2
<1>4. /\ checks[1] = RaiseIf(
             Token(o, e, f) # None /\ HasCertificate(TLS(o, e, f)),
             "AUTH_CONFLICT")
      /\ checks[2] = RaiseIf(Token(o, e, f) \in past, "TOKEN_EXPIRED")
      /\ checks[9] = RaiseIf(
             NormalRegion(Region(o, e, f)) # None /\ ExplicitEngine(o, e) # None,
             "REGION_ENGINE_CONFLICT")
      /\ checks[11] = RaiseIf(InvalidEngine(Engine(o, e, f)), "INVALID_ENGINE")
  BY ClientChecks
<1> HIDE DEF checks
<1> QED BY <1>3, <1>4, Zenon DEF RaiseIf

\* An accepted configuration passed each of the three groups of checks.
LEMMA VerdictPassed ==
  ASSUME NEW o, NEW p, NEW raw, NEW past, Verdict(o, p, raw, past) = "accepted"
  PROVE  /\ FirstRefusal(ConfigRefusals(o, ReadEnv(p), LoadConfig(raw))) = "accepted"
         /\ FirstRefusal(OptionRefusals(o, ReadEnv(p), LoadConfig(raw), past)) = "accepted"
<1>0. PICK x, y, z : /\ x = FirstRefusal(Unreadable(o, p, raw))
                     /\ y = FirstRefusal(ConfigRefusals(o, ReadEnv(p), LoadConfig(raw)))
                     /\ z = FirstRefusal(OptionRefusals(o, ReadEnv(p), LoadConfig(raw), past))
  OBVIOUS
<1>1. FirstRefusal(<<x, y, z>>) = "accepted"
  BY <1>0, Zenon DEF Verdict
<1>2. DOMAIN <<x, y, z>> \in SUBSET Nat
  OBVIOUS
<1>3. \A i \in DOMAIN <<x, y, z>> : <<x, y, z>>[i] = "accepted"
  BY <1>1, <1>2, PassedAll, Zenon
<1>4. y = "accepted" /\ z = "accepted"
  BY <1>3
<1> QED BY <1>0, <1>4, Zenon

\* The environment is read without empty strings.
LEMMA EnvironmentStripped ==
  ASSUME NEW p
  PROVE  ReadEnv(p).api # Blank /\ ReadEnv(p).engine # Blank
BY ConfigAssumption DEF ReadEnv, Strip

\* So is the API of the context that is meant.
LEMMA ContextStripped ==
  ASSUME NEW o, NEW e, NEW raw,
         \A i \in DOMAIN raw.contexts : DOMAIN raw.contexts[i] = DOMAIN NoContext
  PROVE  FileContext(o, e, LoadConfig(raw)).api # Blank
<1> DEFINE f == LoadConfig(raw)
           kept == {i \in DOMAIN raw.contexts : Strip(raw.contexts[i].name) # None}
<1>1. f.contexts = [i \in kept |-> ContextConfig(raw.contexts[i])]
  BY DEF LoadConfig
<1> HIDE DEF f
<1>2. ASSUME NEW c, DOMAIN c = DOMAIN NoContext
      PROVE  ContextConfig(c).api # Blank
  BY <1>2, ConfigAssumption DEF ContextConfig, Strip, NoContext
<1>3. NoContext.api # Blank
  BY ConfigAssumption DEF NoContext
<1>4. ASSUME NEW i \in DOMAIN f.contexts
      PROVE  f.contexts[i].api # Blank
  <2>1. i \in DOMAIN raw.contexts /\ f.contexts[i] = ContextConfig(raw.contexts[i])
    BY <1>1, <1>4
  <2> QED BY <2>1, <1>2
<1>5. FindContext(o, e, f).api # Blank
  <2>1. CASE Matches(o, e, f) = {}
    BY <2>1, <1>3 DEF FindContext
  <2>2. CASE Matches(o, e, f) # {}
    <3>1. PICK i \in Matches(o, e, f) : FindContext(o, e, f) = f.contexts[i]
      BY <2>2, Zenon DEF FindContext
    <3>2. i \in DOMAIN f.contexts
      BY DEF Matches
    <3> QED BY <3>1, <3>2, <1>4
  <2> QED BY <2>1, <2>2
<1> QED BY <1>3, <1>5 DEF FileContext, f

\* An engine that the caller or the environment names is the one that is used.
LEMMA ExplicitEngineUsed ==
  ASSUME NEW o, NEW e, NEW f, e.engine # Blank, ExplicitEngine(o, e) # None
  PROVE  Engine(o, e, f) = ExplicitEngine(o, e)
BY ConfigAssumption DEF ExplicitEngine, Engine, OrElse, Strip

\* Otherwise there is one of the context, or none.
LEMMA OtherwiseOfContext ==
  ASSUME NEW o, NEW e, NEW f, e.engine # Blank, ExplicitEngine(o, e) = None
  PROVE  NormalEngine(Engine(o, e, f)) \in {None, NormalEngine(FileContext(o, e, f).engine)}
BY ConfigAssumption DEF ExplicitEngine, Engine, OrElse, Strip, NormalEngine

\* When no other engine overrides that of the context, it is the one used.
LEMMA EngineOfContext ==
  ASSUME NEW o, NEW e, NEW f, e.engine # Blank, ~Overrides(o, e, FileContext(o, e, f))
  PROVE  NormalEngine(Engine(o, e, f)) \in {None, NormalEngine(FileContext(o, e, f).engine)}
<1>1. CASE ExplicitEngine(o, e) = None
  BY <1>1, OtherwiseOfContext
<1>2. CASE ExplicitEngine(o, e) # None
  <2>1. NormalEngine(FileContext(o, e, f).engine) = NormalEngine(ExplicitEngine(o, e))
    BY <1>2 DEF Overrides
  <2> QED BY <1>2, <2>1, ExplicitEngineUsed
<1> QED BY <1>1, <1>2

\* The API that is asked is that of the context, if it is bound to one and no
\* empty api_url hides it: a context of another API than the explicit one is not
\* found.
LEMMA ApiOfContext ==
  ASSUME NEW o, NEW e, NEW f, o.api # Blank, e.api # Blank,
         FileContext(o, e, f).api \notin {None, Blank}
  PROVE  Api(o, e, f) = FileContext(o, e, f).api
<1>0. PICK c : c = FileContext(o, e, f)
  OBVIOUS
<1>1. o.readFile /\ c = FindContext(o, e, f)
  BY <1>0 DEF FileContext, NoContext
<1>2. Matches(o, e, f) # {}
  BY <1>0, <1>1 DEF FindContext, NoContext
<1>3. PICK i \in Matches(o, e, f) : c = f.contexts[i]
  BY <1>1, <1>2, Zenon DEF FindContext
<1>4. ExplicitApi(o, e) \in {None, c.api}
  BY <1>0, <1>3 DEF Matches
<1>5. ExplicitApi(o, e) = OrElse(o.api, e.api)
  BY DEF ExplicitApi, Strip, OrElse
<1>6. ApiOf(o, e, c) = c.api
  BY <1>0, <1>4 DEF ApiOf, OrElse
<1>7. OrElse(o.api, OrElse(e.api, c.api)) = c.api
  BY <1>4, <1>5 DEF OrElse
<1> QED BY <1>0, <1>1, <1>6, <1>7 DEF Api

\* There is always an API to ask.
LEMMA ApiGiven ==
  ASSUME NEW o, NEW e, NEW f
  PROVE  Api(o, e, f) \notin {None, Blank}
BY ConfigAssumption DEF Api

\* A token that neither the caller nor the environment gave was stored, and is
\* not combined with another engine.
LEMMA StoredTokenKeepsEngine ==
  ASSUME NEW o, NEW e, NEW f,
         FirstRefusal(ConfigRefusals(o, e, f)) = "accepted",
         Token(o, e, f) \notin {None, o.token, e.token}
  PROVE  o.readFile /\ ~Overrides(o, e, FileContext(o, e, f))
<1> DEFINE c == FileContext(o, e, f)
           n == FileEnvironment(o, e, f)
<1>1. o.token = None /\ e.token = None /\ Token(o, e, f) = FileToken(o, e, c, n)
  BY DEF Token, OrElse
<1>2. o.readFile /\ ConfigToken(o, e, c, n) # None
  BY <1>1 DEF FileToken
<1>3. c = FindContext(o, e, f) /\ n = FindEnvironment(o, e, f)
  BY <1>2 DEF FileContext, FileEnvironment
<1>4. ~OverridesWithStoredToken(o, e, c, n)
  BY <1>2, <1>3, FilePassed
<1> QED BY <1>1, <1>2, <1>4 DEF OverridesWithStoredToken

\* The files of a certificate that neither the caller nor the environment gave
\* were stored, and are not combined with another engine.
LEMMA StoredFilesKeepEngine ==
  ASSUME NEW o, NEW e, NEW f,
         FirstRefusal(ConfigRefusals(o, e, f)) = "accepted",
         LoadedPair(TLS(o, e, f)) # None,
         o.tls # None => o.tls.cert = None \/ o.tls.key = None,
         ~({LoadedPair(TLS(o, e, f))[1], LoadedPair(TLS(o, e, f))[2]}
             \subseteq {e.cert, e.key}
                         \cup (IF o.tls = None THEN {} ELSE {o.tls.certFile, o.tls.keyFile}))
  PROVE  o.readFile /\ ~Overrides(o, e, FileContext(o, e, f))
<1> DEFINE c == FileContext(o, e, f)
           n == FileEnvironment(o, e, f)
           given == {e.cert, e.key} \cup (IF o.tls = None THEN {} ELSE {o.tls.certFile, o.tls.keyFile})
<1>0. PICK tls, stored : tls = TLS(o, e, f) /\ stored = FileTLS(o, e, c, n)
  OBVIOUS
<1>1. tls # None /\ tls.certFile # None /\ tls.keyFile # None
  BY <1>0 DEF LoadedPair
<1>2. LoadedPair(tls) = <<tls.certFile, tls.keyFile>>
  BY <1>1 DEF LoadedPair
<1>3. ~({tls.certFile, tls.keyFile} \subseteq given)
  BY <1>0, <1>2
<1>4. tls = MergeTLS(stored, o.tls)
  BY <1>0 DEF TLS
<1>5. stored # None
  BY <1>1, <1>3, <1>4 DEF MergeTLS
<1>6. o.readFile /\ stored = ConfigTLS(e, c, n)
  BY <1>0, <1>5 DEF FileTLS
<1>7. c = FindContext(o, e, f) /\ n = FindEnvironment(o, e, f)
  BY <1>6 DEF FileContext, FileEnvironment
<1>8. ~IncompleteMTLS(e, c, n) /\ ~OverridesWithStoredMTLS(o, e, c, n)
  BY <1>6, <1>7, FilePassed
<1> HIDE DEF c, n
<1>9. /\ o.tls = None => tls = stored
      /\ o.tls # None => /\ tls.certFile = OrElse(o.tls.certFile, stored.certFile)
                         /\ tls.keyFile = OrElse(o.tls.keyFile, stored.keyFile)
  BY <1>4, <1>5 DEF MergeTLS, NoTLS
<1>10. ~EnvHasMTLS(e)
  <2> SUFFICES ASSUME EnvHasMTLS(e) PROVE FALSE
    OBVIOUS
  <2>1. stored.certFile = e.cert /\ stored.keyFile = e.key
    BY <1>6 DEF ConfigTLS, NoTLS
  <2> QED BY <2>1, <1>3, <1>9 DEF OrElse
<1>11. StoredMTLS(c, n) # None /\ StoredMTLS(c, n).certFile # None
  <2> SUFFICES ASSUME ~(StoredMTLS(c, n) # None /\ StoredMTLS(c, n).certFile # None) PROVE FALSE
    OBVIOUS
  <2>1. stored.certFile = None /\ stored.keyFile = None
    BY <1>5, <1>6, <1>10 DEF ConfigTLS, NoTLS
  <2> QED BY <2>1, <1>1, <1>3, <1>9 DEF OrElse
<1>12. StoredMTLS(c, n).keyFile # None
  BY <1>8, <1>10, <1>11 DEF IncompleteMTLS, IncompletePair
<1>13. stored.certFile # None /\ stored.keyFile # None
  BY <1>6, <1>10, <1>11, <1>12 DEF ConfigTLS, NoTLS
<1>14. ~HasCertificate(o.tls)
  <2> SUFFICES ASSUME HasCertificate(o.tls) PROVE FALSE
    OBVIOUS
  <2>1. o.tls # None /\ o.tls.certFile # None /\ o.tls.keyFile # None
    BY DEF HasCertificate
  <2> QED BY <2>1, <1>3, <1>9 DEF OrElse
<1>15. HasCertificate(ConfigTLS(e, c, n))
  BY <1>5, <1>6, <1>13 DEF HasCertificate
<1> QED BY <1>6, <1>8, <1>10, <1>14, <1>15 DEF OverridesWithStoredMTLS, c

---------------------------------------------------------------------------
(* What the options of a client were resolved to. *)

\* The parts of it that its properties are about.
Sound(r) ==
    /\ r.api = HomeApi
    /\ r.token \notin {None, input.o.token, FileEnv.token} =>
         r.engine \in {None, NormalEngine(Selected.engine)}
    /\ /\ LoadedPair(r.tls) # None
       /\ ~({LoadedPair(r.tls)[1], LoadedPair(r.tls)[2]} \subseteq GivenFiles)
       /\ ~InlinePairOverrides
       => r.engine \in {None, NormalEngine(Selected.engine)}
    /\ ExplicitEngine(input.o, FileEnv) # None =>
         r.region = None /\ r.engine # None /\ r.engine = NormalEngine(ExplicitEngine(input.o, FileEnv))
    /\ r.token = None \/ LoadedPair(r.tls) = None
    /\ input.o.noToken = TRUE => r.token = None
    /\ r.token \notin expiredBefore
    /\ r.api \notin {None, Blank} /\ r.engine # Blank

\* Options that are accepted resolve to that.
LEMMA ResolvedSound ==
  ASSUME input \in Inputs, Verdict(input.o, input.p, input.f, expiredBefore) = "accepted"
  PROVE  Sound(Resolved(input.o, FileEnv, File))
<1>0. PICK o, e, f, r, past :
         o = input.o /\ e = FileEnv /\ f = File /\ r = Resolved(o, e, f) /\ past = expiredBefore
  OBVIOUS
<1>1. /\ FirstRefusal(ConfigRefusals(o, e, f)) = "accepted"
      /\ FirstRefusal(OptionRefusals(o, e, f, past)) = "accepted"
  BY <1>0, VerdictPassed, Zenon DEF FileEnv, File
<1>2. /\ r.api = Api(o, e, f) /\ r.engine = NormalEngine(Engine(o, e, f))
      /\ r.region = NormalRegion(Region(o, e, f))
      /\ r.token = Token(o, e, f) /\ r.tls = TLS(o, e, f)
  BY <1>0 DEF Resolved
<1>3. Selected = FileContext(o, e, f)
  BY <1>0, Zenon DEF Selected
<1>4. e.api # Blank /\ e.engine # Blank
  BY <1>0, EnvironmentStripped DEF FileEnv
<1>5. Selected.api # Blank
  BY <1>0, <1>3, ContextStripped, CredentialsAssumption DEF File
<1>6. ~InvalidEngine(Engine(o, e, f))
  BY <1>1, ClientPassed
<1>7. r.api = HomeApi
  <2>1. CASE Selected.api = None \/ o.api = Blank
    BY <2>1, <1>0, <1>2, Zenon DEF HomeApi
  <2>2. CASE ~(Selected.api = None \/ o.api = Blank)
    <3>1. Api(o, e, f) = Selected.api
      BY <2>2, <1>3, <1>4, <1>5, ApiOfContext
    <3> QED BY <2>2, <3>1, <1>0, <1>2, Zenon DEF HomeApi
  <2> QED BY <2>1, <2>2
<1>8. r.token \notin {None, o.token, e.token} =>
         r.engine \in {None, NormalEngine(Selected.engine)}
  <2> SUFFICES ASSUME r.token \notin {None, o.token, e.token}
               PROVE  r.engine \in {None, NormalEngine(Selected.engine)}
    OBVIOUS
  <2>1. ~Overrides(o, e, FileContext(o, e, f))
    BY <1>1, <1>2, StoredTokenKeepsEngine
  <2> QED BY <2>1, <1>2, <1>3, <1>4, EngineOfContext
<1>9. (/\ LoadedPair(r.tls) # None
       /\ ~({LoadedPair(r.tls)[1], LoadedPair(r.tls)[2]} \subseteq GivenFiles)
       /\ ~InlinePairOverrides)
      => r.engine \in {None, NormalEngine(Selected.engine)}
  <2> SUFFICES ASSUME LoadedPair(r.tls) # None,
                      ~({LoadedPair(r.tls)[1], LoadedPair(r.tls)[2]} \subseteq GivenFiles),
                      ~InlinePairOverrides
               PROVE  r.engine \in {None, NormalEngine(Selected.engine)}
    OBVIOUS
  <2>1. GivenFiles = {e.cert, e.key} \cup (IF o.tls = None THEN {} ELSE {o.tls.certFile, o.tls.keyFile})
    BY <1>0, Zenon DEF GivenFiles
  <2>2. CASE o.tls # None => o.tls.cert = None \/ o.tls.key = None
    <3>1. ~Overrides(o, e, FileContext(o, e, f))
      BY <2>1, <2>2, <1>1, <1>2, StoredFilesKeepEngine
    <3> QED BY <3>1, <1>2, <1>3, <1>4, EngineOfContext
  <2>3. CASE o.tls # None /\ o.tls.cert # None /\ o.tls.key # None
    <3>1. ~Overrides(o, e, FileContext(o, e, f))
      BY <2>3, <1>0, <1>3, Zenon DEF InlinePairOverrides
    <3> QED BY <3>1, <1>2, <1>3, <1>4, EngineOfContext
  <2> QED BY <2>2, <2>3
<1>10. ExplicitEngine(o, e) # None =>
         r.region = None /\ r.engine # None /\ r.engine = NormalEngine(ExplicitEngine(o, e))
  <2> SUFFICES ASSUME ExplicitEngine(o, e) # None
               PROVE  r.region = None /\ r.engine # None /\ r.engine = NormalEngine(ExplicitEngine(o, e))
    OBVIOUS
  <2>1. Engine(o, e, f) = ExplicitEngine(o, e)
    BY <1>4, ExplicitEngineUsed
  <2>2. r.region = None
    BY <1>1, <1>2, ClientPassed
  <2>3. Strip(ExplicitEngine(o, e)) # None
    BY ConfigAssumption DEF ExplicitEngine, Strip
  <2>4. NormalEngine(ExplicitEngine(o, e)) # None
    BY <2>1, <2>3, <1>6, ConfigAssumption DEF InvalidEngine, NormalEngine
  <2> QED BY <2>1, <2>2, <2>4, <1>2
<1>11. r.token = None \/ LoadedPair(r.tls) = None
  BY <1>1, <1>2, ClientPassed DEF LoadedPair, HasCertificate
<1>12. o.noToken = TRUE => r.token = None
  BY <1>2 DEF Token
<1>13. r.token \notin past
  BY <1>1, <1>2, ClientPassed
<1>14. r.api \notin {None, Blank} /\ r.engine # Blank
  BY <1>2, ApiGiven, ConfigAssumption DEF NormalEngine
<1> QED BY <1>0, <1>7, <1>8, <1>9, <1>10, <1>11, <1>12, <1>13, <1>14, Zenon DEF Sound

---------------------------------------------------------------------------
(* The engine of a project. *)

\* The checks of engine_from_project().
LEMMA ProjectChecks ==
  ASSUME NEW p, NEW region
  PROVE  /\ DOMAIN ProjectRefusals(p, region) = 1 .. 4
         /\ ProjectRefusals(p, region)[1] = RaiseIf(region # None /\ InRegion(p, region) = {}, "REGION_UNAVAILABLE")
         /\ ProjectRefusals(p, region)[4] = RaiseIf(NormalEngine(ProjectAddress(p, region)) = None, "ENGINE_RESOLUTION")
BY DEF ProjectRefusals

\* An accepted project has an engine, in the region if there is one.
LEMMA ProjectPassed ==
  ASSUME NEW p, NEW region, ProjectRefusal(p, region) = "accepted"
  PROVE  /\ EngineFromProject(p, region) \notin {None, Blank}
         /\ region # None =>
              \E i \in DOMAIN p.regional :
                 /\ NormalRegion(p.regional[i].region) = region
                 /\ EngineFromProject(p, region) = NormalEngine(p.regional[i].engine)
<1> DEFINE checks == ProjectRefusals(p, region)
<1>1. DOMAIN checks = 1 .. 4
  BY ProjectChecks, Zenon
<1>2. \A i \in 1 .. 4 : checks[i] = "accepted"
  BY <1>1, PassedAll DEF ProjectRefusal
<1>3. checks[1] = "accepted" /\ checks[4] = "accepted"
  BY <1>2
<1>4. ~(region # None /\ InRegion(p, region) = {}) /\ NormalEngine(ProjectAddress(p, region)) # None
  BY <1>3, ProjectChecks, Zenon DEF RaiseIf
<1>5. EngineFromProject(p, region) \notin {None, Blank}
  BY <1>4, ConfigAssumption DEF EngineFromProject, NormalEngine
<1>6. ASSUME region # None
      PROVE  \E i \in DOMAIN p.regional :
                /\ NormalRegion(p.regional[i].region) = region
                /\ EngineFromProject(p, region) = NormalEngine(p.regional[i].engine)
  <2>1. PICK i \in InRegion(p, region) : ProjectAddress(p, region) = p.regional[i].engine
    BY <1>4, <1>6, Zenon DEF ProjectAddress
  <2>2. i \in DOMAIN p.regional /\ NormalRegion(p.regional[i].region) = region
    BY DEF InRegion
  <2> QED BY <2>1, <2>2 DEF EngineFromProject
<1> QED BY <1>5, <1>6

---------------------------------------------------------------------------
(* The invariant of a client: what was resolved is kept with the verdict   *)
(* that accepted it, and a call that knows its engine got it from there,   *)
(* from the project it asked, or from the engine's document.               *)

Kept ==
    /\ resolved = None => expiredBefore = expired
    /\ resolved # None =>
         /\ resolved = Resolved(input.o, FileEnv, File)
         /\ Verdict(input.o, input.p, input.f, expiredBefore) = "accepted"

\* An engine the client may talk to: the configured one, or one the API named.
KnownEngine(v) ==
    \/ ~UsesProject(resolved) /\ v = resolved.engine
    \/ UsesProject(resolved) /\ [by |-> resolved.api, to |-> v] \in assigned

\* The engine of a call, by the way it was found, and that of the channel.
EngineFound ==
    /\ op.stage \in {"asking", "ready", "targeted"} => op.kind # "none"
    /\ op.stage = "asking" => UsesProject(resolved)
    /\ op.stage = "ready" => KnownEngine(op.engine)
    /\ op.stage = "ready" /\ UsesProject(resolved) =>
         /\ project # None
         /\ op.kind # "hostname" =>
              /\ ProjectRefusal(project, resolved.region) = "accepted"
              /\ op.engine = EngineFromProject(project, resolved.region)
    /\ op.stage = "targeted" =>
         /\ op.kind = "inventory"
         /\ \E v : v # None /\ KnownEngine(v) /\ [by |-> v, to |-> op.engine] \in assigned
    /\ control # None => KnownEngine(control)

ClientInv ==
    /\ input \in Inputs
    /\ op = [kind |-> op.kind, stage |-> op.stage, engine |-> op.engine]
    /\ control # Blank
    /\ CredentialsTypeOK /\ Kept /\ EngineFound
    /\ StoredCredentialsStayHome /\ RequestsFollowOptions

\* What is kept is sound.
LEMMA KeptIsSound ==
  ASSUME ClientInv, resolved # None
  PROVE  Sound(resolved)
BY ResolvedSound, Zenon DEF ClientInv, Kept

\* So are the settings of a call that is not refused, kept or not yet.
LEMMA SettingsSound ==
  ASSUME ClientInv, Refusal = "accepted"
  PROVE  /\ Settings # None /\ Sound(Settings)
         /\ Settings = Resolved(input.o, FileEnv, File)
         /\ Verdict(input.o, input.p, input.f, expiredBefore) = "accepted"
<1>1. CASE resolved # None
  <2>1. Settings = resolved
    BY <1>1 DEF Settings
  <2> QED BY <1>1, <2>1, KeptIsSound, Zenon DEF ClientInv, Kept
<1>2. CASE resolved = None
  <2>1. Settings = Resolved(input.o, FileEnv, File)
    BY <1>2 DEF Settings
  <2>2. expiredBefore = expired
    BY <1>2 DEF ClientInv, Kept
  <2>3. Verdict(input.o, input.p, input.f, expiredBefore) = "accepted"
    BY <1>2, <2>2, Zenon DEF Refusal
  <2>4. input \in Inputs
    BY DEF ClientInv
  <2>5. Resolved(input.o, FileEnv, File) # None
    BY <2>4, CredentialsAssumption, Zenon DEF FileEnv, File
  <2> QED BY <2>1, <2>3, <2>4, <2>5, ResolvedSound, Zenon
<1> QED BY <1>1, <1>2

\* A call that knows its engine has an address.
LEMMA FoundIsAddress ==
  ASSUME ClientInv, op.stage \in {"ready", "targeted"}
  PROVE  resolved # None /\ op.engine \notin {None, Blank}
<1>1. resolved # None /\ \A a \in assigned : a.to \notin {None, Blank}
  BY DEF ClientInv, CredentialsTypeOK
<1>2. Sound(resolved)
  BY <1>1, KeptIsSound
<1>3. \A by : [by |-> by, to |-> op.engine] \in assigned => op.engine \notin {None, Blank}
  <2> SUFFICES ASSUME NEW by, [by |-> by, to |-> op.engine] \in assigned
               PROVE  op.engine \notin {None, Blank}
    OBVIOUS
  <2>1. [by |-> by, to |-> op.engine].to \notin {None, Blank}
    BY <1>1, Zenon
  <2> QED BY <2>1
<1>4. resolved.engine # Blank
  BY <1>2 DEF Sound
<1>5. ~UsesProject(resolved) => resolved.engine # None
  BY DEF UsesProject
<1>6. CASE op.stage = "ready"
  <2>1. KnownEngine(op.engine)
    BY <1>6 DEF ClientInv, EngineFound
  <2> QED BY <1>1, <1>3, <1>4, <1>5, <2>1 DEF KnownEngine
<1>7. CASE op.stage = "targeted"
  <2>1. \E v : [by |-> v, to |-> op.engine] \in assigned
    BY <1>7 DEF ClientInv, EngineFound
  <2> QED BY <1>1, <1>3, <2>1
<1> QED BY <1>1, <1>6, <1>7

\* What someone at home names is home, at two removes.
LEMMA NamedIsHome ==
  ASSUME NEW own, NEW v, NEW w
  PROVE  /\ v \in own /\ [by |-> v, to |-> w] \in assigned => w \in NamedBy(own)
         /\ v \in own \cup NamedBy(own) /\ [by |-> v, to |-> w] \in assigned
              => w \in NamedBy(own \cup NamedBy(own))
<1>1. ASSUME NEW places, v \in places, [by |-> v, to |-> w] \in assigned
      PROVE  w \in NamedBy(places)
  <2> DEFINE a == [by |-> v, to |-> w]
  <2>1. a \in {x \in assigned : x.by \in places} /\ w = a.to
    BY <1>1
  <2> QED BY <2>1, Zenon DEF NamedBy
<1> QED BY <1>1

\* An engine of a client whose engine is not another than that of the context.
LEMMA KnownIsHome ==
  ASSUME Sound(resolved), resolved.engine \in {None, NormalEngine(Selected.engine)},
         NEW v, v # None, KnownEngine(v)
  PROVE  /\ v \in Home
         /\ \A w : [by |-> v, to |-> w] \in assigned => w \in Home
<1>0. PICK own : own = {HomeApi, NormalEngine(Selected.engine)}
  OBVIOUS
<1>1. Home = own \cup NamedBy(own) \cup NamedBy(own \cup NamedBy(own))
  BY <1>0, Zenon DEF Home
<1>2. resolved.api \in own
  BY <1>0 DEF Sound
<1>3. v \in own \cup NamedBy(own)
  <2>1. CASE ~UsesProject(resolved)
    BY <2>1, <1>0 DEF KnownEngine
  <2>2. CASE UsesProject(resolved)
    <3>1. [by |-> resolved.api, to |-> v] \in assigned
      BY <2>2 DEF KnownEngine
    <3> QED BY <3>1, <1>2, NamedIsHome
  <2> QED BY <2>1, <2>2
<1>4. \A w : [by |-> v, to |-> w] \in assigned => w \in NamedBy(own \cup NamedBy(own))
  BY <1>3, NamedIsHome
<1> QED BY <1>1, <1>3, <1>4

---------------------------------------------------------------------------
(* What a step writes. *)

\* The two properties, of one request.
HomeOk(s) ==
    /\ s.token \notin GivenTokens => s.to \in Home
    /\ /\ s.cert # None /\ ~({s.cert[1], s.cert[2]} \subseteq GivenFiles)
       /\ ~InlinePairOverrides
       => s.to \in Home

FollowOk(s, r) ==
    /\ s.kind \in {"open", "stream"} /\ ExplicitEngine(input.o, FileEnv) # None
         => s.to = NormalEngine(ExplicitEngine(input.o, FileEnv))
    /\ s.kind \in {"open", "stream"} /\ r.region # None
         => /\ project # None
            /\ \E i \in DOMAIN project.regional :
                 /\ NormalRegion(project.regional[i].region) = r.region
                 /\ s.to = NormalEngine(project.regional[i].engine)
    /\ s.kind \in {"open", "inventory"} => s.token = None \/ s.cert = None
    /\ input.o.noToken = TRUE => s.token \in {None} \cup DialTokens \cup Secrets
    /\ s.token \in expiredBefore => s.token \in DialTokens \cup Secrets

\* The input does not change, and the addresses that were named only grow.
LEMMA InputsFixed ==
  ASSUME input' = input, assigned \subseteq assigned'
  PROVE  /\ FileEnv' = FileEnv /\ File' = File /\ Selected' = Selected
         /\ Home \subseteq Home' /\ GivenTokens' = GivenTokens /\ GivenFiles' = GivenFiles
         /\ InlinePairOverrides' = InlinePairOverrides
<1>1. FileEnv' = FileEnv /\ File' = File
  BY Zenon DEF FileEnv, File
<1>2. Selected' = Selected
  BY <1>1, Zenon DEF Selected
<1>3. GivenTokens' = GivenTokens
  BY <1>1, Zenon DEF GivenTokens
<1>4. GivenFiles' = GivenFiles
  BY <1>1, Zenon DEF GivenFiles
<1>5. InlinePairOverrides' = InlinePairOverrides
  BY <1>1, <1>2, Zenon DEF InlinePairOverrides
<1>6. HomeApi' = HomeApi
  BY <1>1, <1>2, Zenon DEF HomeApi
<1>7. ASSUME NEW P, NEW Q, P \subseteq Q
      PROVE  {a.to : a \in {x \in assigned : x.by \in P}}
                \subseteq {a.to : a \in {x \in assigned' : x.by \in Q}}
  BY <1>7
<1>8. Home \subseteq Home'
  <2>0. PICK own : own = {HomeApi, NormalEngine(Selected.engine)}
    OBVIOUS
  <2> DEFINE now(P) == {a.to : a \in {x \in assigned : x.by \in P}}
             next(P) == {a.to : a \in {x \in assigned' : x.by \in P}}
  <2>1. Home = own \cup now(own) \cup now(own \cup now(own))
    BY <2>0, Zenon DEF Home, NamedBy
  <2>2. Home' = own \cup next(own) \cup next(own \cup next(own))
    BY <2>0, <1>2, <1>6, Zenon DEF Home, NamedBy
  <2>3. now(own) \subseteq next(own)
    BY <1>7
  <2>4. now(own \cup now(own)) \subseteq next(own \cup next(own))
    BY <2>3, <1>7
  <2> QED BY <2>1, <2>2, <2>3, <2>4, Zenon
<1> QED BY <1>1, <1>2, <1>3, <1>4, <1>5, <1>8

\* A step that writes such a request keeps the two properties.
LEMMA WritesKeep ==
  ASSUME input' = input, assigned \subseteq assigned', project' = project,
         expiredBefore' = expiredBefore,
         NEW s, sent' = s, s.kind # "proxy", HomeOk(s), FollowOk(s, resolved')
  PROVE  StoredCredentialsStayHome' /\ RequestsFollowOptions'
<1>1. /\ FileEnv' = FileEnv /\ Home \subseteq Home'
      /\ GivenTokens' = GivenTokens /\ GivenFiles' = GivenFiles
      /\ InlinePairOverrides' = InlinePairOverrides
  BY InputsFixed
<1>2. StoredCredentialsStayHome'
  <2>0. Recipient' = s.to
    BY DEF Recipient
  <2>1. sent'.token \notin GivenTokens' => Recipient' \in Home'
    BY <1>1, <2>0 DEF HomeOk
  <2>2. (/\ sent'.cert # None /\ ~({sent'.cert[1], sent'.cert[2]} \subseteq GivenFiles')
         /\ ~InlinePairOverrides')
        => Recipient' \in Home'
    BY <1>1, <2>0 DEF HomeOk
  <2> QED BY <2>1, <2>2, Zenon DEF StoredCredentialsStayHome
<1>3. RequestsFollowOptions'
  BY <1>1, Zenon DEF RequestsFollowOptions, FollowOk
<1> QED BY <1>2, <1>3

\* So does a step that writes nothing.
LEMMA SilenceKeeps ==
  ASSUME sent' = None
  PROVE  StoredCredentialsStayHome' /\ RequestsFollowOptions'
BY DEF StoredCredentialsStayHome, RequestsFollowOptions

\* The requests to the engine of a call are such requests.
LEMMA EngineRequestOk ==
  ASSUME ClientInv, op.stage \in {"ready", "targeted"},
         NEW kind \in {"open", "stream", "inventory"},
         kind \in {"open", "stream"} => op.stage = "ready" /\ op.kind # "hostname",
         NEW token \in DialTokens \cup {OwnToken}, kind # "stream" => token = OwnToken
  PROVE  /\ HomeOk(Request(kind, op.engine, token, resolved.tls))
         /\ FollowOk(Request(kind, op.engine, token, resolved.tls), resolved)
<1> DEFINE s == Request(kind, op.engine, token, resolved.tls)
<1>1. /\ s.kind = kind /\ s.to = op.engine /\ s.token = token
      /\ s.cert = LoadedPair(resolved.tls)
  BY DEF Request
<1> HIDE DEF s
<1>2. resolved # None /\ op.engine \notin {None, Blank}
  BY FoundIsAddress
<1>3. Sound(resolved)
  BY <1>2, KeptIsSound
<1>4. OwnToken \in {None, resolved.token}
  BY DEF OwnToken
<1>5. resolved.engine \in {None, NormalEngine(Selected.engine)} => op.engine \in Home
  <2> SUFFICES ASSUME resolved.engine \in {None, NormalEngine(Selected.engine)}
               PROVE  op.engine \in Home
    OBVIOUS
  <2>1. CASE op.stage = "ready"
    <3>1. KnownEngine(op.engine)
      BY <2>1 DEF ClientInv, EngineFound
    <3> QED BY <3>1, <1>2, <1>3, KnownIsHome
  <2>2. CASE op.stage = "targeted"
    <3>1. PICK v : v # None /\ KnownEngine(v) /\ [by |-> v, to |-> op.engine] \in assigned
      BY <2>2, Zenon DEF ClientInv, EngineFound
    <3> QED BY <3>1, <1>3, KnownIsHome
  <2> QED BY <2>1, <2>2
<1>6. DialTokens \subseteq GivenTokens /\ {None, input.o.token, FileEnv.token} \subseteq GivenTokens
  BY DEF GivenTokens
<1>7. s.token \notin GivenTokens => s.to \in Home
  <2> SUFFICES ASSUME token \notin GivenTokens PROVE op.engine \in Home
    BY <1>1
  <2>1. resolved.token \notin {None, input.o.token, FileEnv.token}
    BY <1>4, <1>6
  <2>2. resolved.engine \in {None, NormalEngine(Selected.engine)}
    BY <2>1, <1>3, Zenon DEF Sound
  <2> QED BY <2>2, <1>5
<1>8. (/\ s.cert # None /\ ~({s.cert[1], s.cert[2]} \subseteq GivenFiles)
       /\ ~InlinePairOverrides)
      => s.to \in Home
  <2> SUFFICES ASSUME LoadedPair(resolved.tls) # None,
                      ~({LoadedPair(resolved.tls)[1], LoadedPair(resolved.tls)[2]} \subseteq GivenFiles),
                      ~InlinePairOverrides
               PROVE  op.engine \in Home
    BY <1>1
  <2>1. resolved.engine \in {None, NormalEngine(Selected.engine)}
    BY <1>3, Zenon DEF Sound
  <2> QED BY <2>1, <1>5
<1>9. HomeOk(s)
  BY <1>7, <1>8, Zenon DEF HomeOk
<1>10. s.kind \in {"open", "stream"} /\ ExplicitEngine(input.o, FileEnv) # None
         => s.to = NormalEngine(ExplicitEngine(input.o, FileEnv))
  <2> SUFFICES ASSUME kind \in {"open", "stream"}, ExplicitEngine(input.o, FileEnv) # None
               PROVE  op.engine = NormalEngine(ExplicitEngine(input.o, FileEnv))
    BY <1>1
  <2>1. /\ resolved.region = None /\ resolved.engine # None
        /\ resolved.engine = NormalEngine(ExplicitEngine(input.o, FileEnv))
    BY <1>3, Zenon DEF Sound
  <2>2. op.engine = resolved.engine
    BY <2>1 DEF ClientInv, EngineFound, KnownEngine, UsesProject
  <2> QED BY <2>1, <2>2
<1>11. s.kind \in {"open", "stream"} /\ resolved.region # None
         => /\ project # None
            /\ \E i \in DOMAIN project.regional :
                 /\ NormalRegion(project.regional[i].region) = resolved.region
                 /\ s.to = NormalEngine(project.regional[i].engine)
  <2> SUFFICES ASSUME kind \in {"open", "stream"}, resolved.region # None
               PROVE  /\ project # None
                      /\ \E i \in DOMAIN project.regional :
                           /\ NormalRegion(project.regional[i].region) = resolved.region
                           /\ op.engine = NormalEngine(project.regional[i].engine)
    BY <1>1
  <2>1. /\ project # None
        /\ ProjectRefusal(project, resolved.region) = "accepted"
        /\ op.engine = EngineFromProject(project, resolved.region)
    BY DEF ClientInv, EngineFound, UsesProject
  <2> QED BY <2>1, ProjectPassed
<1>12. s.kind \in {"open", "inventory"} => s.token = None \/ s.cert = None
  BY <1>1, <1>3, <1>4 DEF Sound
<1>13. input.o.noToken = TRUE => s.token \in {None} \cup DialTokens \cup Secrets
  BY <1>1, <1>3, <1>4 DEF Sound
<1>14. None \notin expiredBefore
  BY CredentialsAssumption DEF ClientInv, CredentialsTypeOK
<1>15. s.token \in expiredBefore => s.token \in DialTokens \cup Secrets
  BY <1>1, <1>3, <1>4, <1>14 DEF Sound
<1>16. FollowOk(s, resolved)
  BY <1>10, <1>11, <1>12, <1>13, <1>15, Zenon DEF FollowOk
<1> QED BY <1>9, <1>16 DEF s

---------------------------------------------------------------------------
(* Every step keeps the invariant of a client. *)

\* What is resolved stays, or becomes the settings of an accepted call.
LEMMA KeptKeeps ==
  ASSUME ClientInv, input' = input, UNCHANGED clockVars,
         \/ resolved' = resolved
         \/ resolved' = Settings /\ Refusal = "accepted"
  PROVE  Kept' /\ (resolved # None => resolved' # None)
<1>1. FileEnv' = FileEnv /\ File' = File /\ expired' = expired /\ expiredBefore' = expiredBefore
  BY Zenon DEF FileEnv, File, clockVars
<1>2. CASE resolved' = resolved
  BY <1>1, <1>2, Zenon DEF ClientInv, Kept
<1>3. CASE resolved' = Settings /\ Refusal = "accepted"
  <2>1. /\ Settings # None /\ Settings = Resolved(input.o, FileEnv, File)
        /\ Verdict(input.o, input.p, input.f, expiredBefore) = "accepted"
    BY <1>3, SettingsSound
  <2> QED BY <2>1, <1>1, <1>3, Zenon DEF Kept
<1> QED BY <1>2, <1>3

\* So an engine the client knows is known afterwards.
LEMMA KnownStays ==
  ASSUME ClientInv, input' = input, assigned \subseteq assigned',
         \/ resolved' = resolved
         \/ resolved' = Settings /\ Refusal = "accepted",
         NEW v, resolved # None, KnownEngine(v)
  PROVE  KnownEngine(v)'
<1>1. resolved' = resolved
  BY DEF Settings
<1> QED BY <1>1 DEF KnownEngine, UsesProject

\* A call that ends without a request.
LEMMA EndKeepsClient ==
  ASSUME ClientInv, op' = Idle, sent' = None,
         UNCHANGED <<input, control, project, assigned>>, UNCHANGED clockVars,
         \/ resolved' = resolved
         \/ resolved' = Settings /\ Refusal = "accepted"
  PROVE  ClientInv'
<1>1. Kept' /\ (resolved # None => resolved' # None)
  BY KeptKeeps
<1>2. /\ op'.kind = "none" /\ op'.stage = "idle"
      /\ op' = [kind |-> op'.kind, stage |-> op'.stage, engine |-> op'.engine]
  BY DEF Idle
<1>3. CredentialsTypeOK'
  BY <1>1, <1>2 DEF ClientInv, CredentialsTypeOK, clockVars
<1>4. EngineFound'
  BY <1>2, KnownStays DEF ClientInv, EngineFound, CredentialsTypeOK
<1>5. StoredCredentialsStayHome' /\ RequestsFollowOptions'
  BY SilenceKeeps
<1>6. input' \in Inputs /\ control' # Blank
  BY DEF ClientInv
<1> QED BY <1>1, <1>2, <1>3, <1>4, <1>5, <1>6, Zenon DEF ClientInv

\* A call that asks the API for its project.
LEMMA AskKeepsClient ==
  ASSUME ClientInv, NEW kind \in {"connect", "dial", "inventory", "hostname"}, AskProject(kind), UNCHANGED clockVars
  PROVE  ClientInv'
<1> DEFINE s == Request("project", Settings.api, Settings.token, None)
<1>1. /\ s.kind = "project" /\ s.to = Settings.api /\ s.token = Settings.token
      /\ s.cert = None
  BY DEF Request, LoadedPair
<1>2. /\ Refusal = "accepted" /\ UsesProject(Settings) /\ resolved' = Settings /\ sent' = s
      /\ op' = [kind |-> kind, stage |-> "asking", engine |-> None]
      /\ input' = input /\ control' = control /\ project' = project /\ assigned' = assigned
  BY DEF AskProject
<1> HIDE DEF s
<1>3. Settings # None /\ Sound(Settings)
  BY <1>2, SettingsSound
<1>4. Kept'
  BY <1>2, KeptKeeps
<1>5. /\ op'.kind = kind /\ op'.stage = "asking"
      /\ op' = [kind |-> op'.kind, stage |-> op'.stage, engine |-> op'.engine]
  BY <1>2
<1>6. Settings.api \notin {None, Blank}
  BY <1>3 DEF Sound
<1>7. CredentialsTypeOK'
  BY <1>1, <1>2, <1>3, <1>5, <1>6 DEF ClientInv, CredentialsTypeOK, Kinds, clockVars
<1>8. EngineFound'
  <2>1. control' # None => KnownEngine(control)'
    BY <1>2, KnownStays DEF ClientInv, EngineFound, CredentialsTypeOK
  <2>2. UsesProject(resolved')
    BY <1>2
  <2> QED BY <1>5, <2>1, <2>2 DEF EngineFound
<1>9. HomeOk(s)
  <2>1. HomeApi \in Home
    BY DEF Home
  <2>2. s.to \in Home
    BY <1>1, <1>3, <2>1 DEF Sound
  <2> QED BY <2>2, Zenon DEF HomeOk
<1>10. FollowOk(s, Settings)
  BY <1>1, <1>3 DEF FollowOk, Sound
<1>11. StoredCredentialsStayHome' /\ RequestsFollowOptions'
  BY <1>1, <1>2, <1>9, <1>10, WritesKeep DEF clockVars
<1>12. input' \in Inputs /\ control' # Blank
  BY <1>2 DEF ClientInv
<1> QED BY <1>4, <1>5, <1>7, <1>8, <1>11, <1>12, Zenon DEF ClientInv

\* A call that uses the engine that is configured.
LEMMA UseKeepsClient ==
  ASSUME ClientInv, NEW kind \in {"connect", "dial", "inventory", "hostname"}, UseEngine(kind), UNCHANGED clockVars
  PROVE  ClientInv'
<1>1. /\ Refusal = "accepted" /\ ~UsesProject(Settings) /\ resolved' = Settings
      /\ sent' = None
      /\ op' = [kind |-> kind, stage |-> "ready", engine |-> Settings.engine]
      /\ input' = input /\ control' = control /\ project' = project /\ assigned' = assigned
  BY DEF UseEngine
<1>2. Settings # None
  BY <1>1, SettingsSound
<1>3. Kept'
  BY <1>1, KeptKeeps
<1>4. /\ op'.kind = kind /\ op'.stage = "ready" /\ op'.engine = resolved'.engine
      /\ op' = [kind |-> op'.kind, stage |-> op'.stage, engine |-> op'.engine]
  BY <1>1
<1>5. CredentialsTypeOK'
  BY <1>1, <1>2, <1>4 DEF ClientInv, CredentialsTypeOK, clockVars
<1>6. EngineFound'
  <2>1. control' # None => KnownEngine(control)'
    BY <1>1, KnownStays DEF ClientInv, EngineFound, CredentialsTypeOK
  <2>2. ~UsesProject(resolved')
    BY <1>1
  <2> QED BY <1>4, <2>1, <2>2 DEF EngineFound, KnownEngine
<1>7. StoredCredentialsStayHome' /\ RequestsFollowOptions'
  BY <1>1, SilenceKeeps
<1>8. input' \in Inputs /\ control' # Blank
  BY <1>1 DEF ClientInv
<1> QED BY <1>3, <1>4, <1>5, <1>6, <1>7, <1>8, Zenon DEF ClientInv

\* The API answers with an engine, or with a project that cannot be used.
LEMMA AnswerKeepsClient ==
  ASSUME ClientInv, ProjectAnswers, UNCHANGED clockVars
  PROVE  ClientInv'
<1>1. /\ op.stage = "asking" /\ resolved' = resolved
      /\ input' = input /\ control' = control
  BY DEF ProjectAnswers
<1>2. PICK p \in Projects :
         LET refusal0 == ProjectRefusal(p, resolved.region)
             public == IF op.kind = "hostname" THEN ProjectRefusal(p, None) ELSE "accepted"
         IN  \/ /\ refusal0 = "accepted" /\ public = "accepted"
                /\ op' = [op EXCEPT !.stage = "ready", !.engine = ProjectEngine(p)]
                /\ project' = p
                /\ assigned' = assigned \cup {[by |-> resolved.api, to |-> ProjectEngine(p)]}
                /\ sent' = None
             \/ /\ op' = Idle /\ sent' = None
                /\ UNCHANGED <<project, assigned>>
  BY Zenon DEF ProjectAnswers, Fails
<1>3. CASE op' = Idle /\ sent' = None /\ UNCHANGED <<project, assigned>>
  BY <1>1, <1>3, EndKeepsClient
<1>4. CASE /\ ProjectRefusal(p, resolved.region) = "accepted"
           /\ op.kind = "hostname" => ProjectRefusal(p, None) = "accepted"
           /\ op' = [op EXCEPT !.stage = "ready", !.engine = ProjectEngine(p)]
           /\ project' = p
           /\ assigned' = assigned \cup {[by |-> resolved.api, to |-> ProjectEngine(p)]}
           /\ sent' = None
  <2>1. op = [kind |-> op.kind, stage |-> op.stage, engine |-> op.engine]
    BY DEF ClientInv
  <2>2. /\ op'.kind = op.kind /\ op'.stage = "ready" /\ op'.engine = ProjectEngine(p)
        /\ op' = [kind |-> op'.kind, stage |-> op'.stage, engine |-> op'.engine]
    BY <1>4, <2>1
  <2>3. ProjectEngine(p) \notin {None, Blank}
    BY <1>4, ProjectPassed DEF ProjectEngine
  <2>4. /\ resolved # None /\ op.kind # "none" /\ UsesProject(resolved)
    BY <1>1 DEF ClientInv, CredentialsTypeOK, EngineFound
  <2>5. CredentialsTypeOK'
    BY <1>1, <1>4, <2>2, <2>3, <2>4 DEF ClientInv, CredentialsTypeOK, clockVars
  <2>6. p # None
    BY CredentialsAssumption
  <2>7. op.kind # "hostname" => ProjectEngine(p) = EngineFromProject(p, resolved.region)
    BY DEF ProjectEngine
  <2>8. UsesProject(resolved')
    BY <1>1, <2>4
  <2>9. control' # None => KnownEngine(control)'
    BY <1>1, <1>4, <2>4, KnownStays DEF ClientInv, EngineFound
  <2>10. KnownEngine(op.engine)'
    <3>1. [by |-> resolved'.api, to |-> op'.engine] \in assigned'
      BY <1>1, <1>4, <2>2
    <3> QED BY <3>1, <2>8, Zenon DEF KnownEngine
  <2>11. EngineFound'
    <3>1. op'.kind # "hostname" =>
             /\ ProjectRefusal(project', resolved'.region) = "accepted"
             /\ op'.engine = EngineFromProject(project', resolved'.region)
      BY <1>1, <1>4, <2>2, <2>7
    <3>2. project' # None
      BY <1>4, <2>6
    <3> QED BY <2>2, <2>4, <2>8, <2>9, <2>10, <3>1, <3>2 DEF EngineFound
  <2>12. Kept'
    BY <1>1, KeptKeeps
  <2>13. StoredCredentialsStayHome' /\ RequestsFollowOptions'
    BY <1>4, SilenceKeeps
  <2>14. input' \in Inputs /\ control' # Blank
    BY <1>1 DEF ClientInv
  <2> QED BY <2>2, <2>5, <2>11, <2>12, <2>13, <2>14, Zenon DEF ClientInv
<1> QED BY <1>2, <1>3, <1>4

\* The request of a call to the engine, which ends the call.
LEMMA RequestKeepsClient ==
  ASSUME ClientInv, op.stage \in {"ready", "targeted"},
         NEW kind \in {"open", "stream", "inventory"},
         kind \in {"open", "stream"} => op.stage = "ready" /\ op.kind # "hostname",
         NEW token \in DialTokens \cup {OwnToken}, kind # "stream" => token = OwnToken,
         sent' = Request(kind, op.engine, token, resolved.tls), op' = Idle,
         \/ control' = control
         \/ op.stage = "ready" /\ control' = op.engine,
         input' = input, resolved' = resolved, project' = project, assigned' = assigned,
         UNCHANGED clockVars
  PROVE  ClientInv'
<1>1. /\ HomeOk(Request(kind, op.engine, token, resolved.tls))
      /\ FollowOk(Request(kind, op.engine, token, resolved.tls), resolved)
  BY EngineRequestOk
<1>2. StoredCredentialsStayHome' /\ RequestsFollowOptions'
  <2>1. Request(kind, op.engine, token, resolved.tls).kind # "proxy"
    BY DEF Request
  <2> QED BY <1>1, <2>1, WritesKeep DEF clockVars
<1>3. /\ op'.kind = "none" /\ op'.stage = "idle"
      /\ op' = [kind |-> op'.kind, stage |-> op'.stage, engine |-> op'.engine]
  BY DEF Idle
<1>4. resolved # None /\ op.engine \notin {None, Blank}
  BY FoundIsAddress
<1>5. sent'.kind = kind /\ sent'.to = op.engine
  BY DEF Request
<1>6. CredentialsTypeOK'
  BY <1>3, <1>4, <1>5 DEF ClientInv, CredentialsTypeOK, Kinds, clockVars
<1>7. EngineFound'
  <2>1. control' # None => KnownEngine(control')
    BY <1>4 DEF ClientInv, EngineFound
  <2>2. control' # None => KnownEngine(control)'
    BY <2>1 DEF KnownEngine, UsesProject
  <2> QED BY <1>3, <2>2 DEF EngineFound
<1>8. Kept'
  BY KeptKeeps
<1>9. input' \in Inputs /\ control' # Blank
  BY <1>4 DEF ClientInv
<1> QED BY <1>2, <1>3, <1>6, <1>7, <1>8, <1>9, Zenon DEF ClientInv

\* The engine's document names another host, which the inventory is asked of.
LEMMA DiscoverKeepsClient ==
  ASSUME ClientInv, Discover, UNCHANGED clockVars
  PROVE  ClientInv'
<1> DEFINE s == Request("discovery", op.engine, None, None)
<1>1. s.kind = "discovery" /\ s.to = op.engine /\ s.token = None /\ s.cert = None
  BY DEF Request, LoadedPair
<1>2. PICK host \in Advertised :
         /\ op' = [op EXCEPT !.stage = "targeted", !.engine = host]
         /\ assigned' = assigned \cup {[by |-> op.engine, to |-> host]}
  BY Zenon DEF Discover
<1>3. /\ op.kind = "inventory" /\ op.stage = "ready" /\ sent' = s /\ resolved' = resolved
      /\ input' = input /\ control' = control /\ project' = project
  BY DEF Discover
<1> HIDE DEF s
<1>4. host \notin {None, Blank}
  BY CredentialsAssumption
<1>5. op = [kind |-> op.kind, stage |-> op.stage, engine |-> op.engine]
  BY DEF ClientInv
<1>6. /\ op'.kind = "inventory" /\ op'.stage = "targeted" /\ op'.engine = host
      /\ op' = [kind |-> op'.kind, stage |-> op'.stage, engine |-> op'.engine]
  BY <1>2, <1>3, <1>5
<1>7. resolved # None /\ op.engine \notin {None, Blank}
  BY <1>3, FoundIsAddress
<1>8. CredentialsTypeOK'
  BY <1>1, <1>2, <1>3, <1>4, <1>6, <1>7 DEF ClientInv, CredentialsTypeOK, Kinds, clockVars
<1>9. assigned \subseteq assigned'
  BY <1>2
<1>10. EngineFound'
  <2>0. PICK v : v = op.engine
    OBVIOUS
  <2>1. KnownEngine(v) /\ (control # None => KnownEngine(control))
    BY <1>3, <2>0 DEF ClientInv, EngineFound
  <2>2. \A w : KnownEngine(w) => KnownEngine(w)'
    BY <1>3, <1>9 DEF KnownEngine, UsesProject
  <2>3. control' # None => KnownEngine(control)'
    BY <1>3, <1>9, <2>1 DEF KnownEngine, UsesProject
  <2>4. v # None /\ KnownEngine(v)' /\ [by |-> v, to |-> op'.engine] \in assigned'
    BY <1>2, <1>6, <1>7, <2>0, <2>1, <2>2
  <2> QED BY <1>6, <2>3, <2>4 DEF EngineFound
<1>11. HomeOk(s)
  BY <1>1 DEF HomeOk, GivenTokens
<1>12. None \notin expiredBefore
  BY CredentialsAssumption DEF ClientInv, CredentialsTypeOK
<1>13. FollowOk(s, resolved)
  BY <1>1, <1>12 DEF FollowOk
<1>14. StoredCredentialsStayHome' /\ RequestsFollowOptions'
  BY <1>1, <1>3, <1>9, <1>11, <1>13, WritesKeep DEF clockVars
<1>15. Kept'
  BY <1>3, KeptKeeps
<1>16. input' \in Inputs /\ control' # Blank
  BY <1>3 DEF ClientInv
<1> QED BY <1>6, <1>8, <1>10, <1>14, <1>15, <1>16, Zenon DEF ClientInv

\* A proxy connection goes where the engine sends it, with the secret it gave.
LEMMA ProxyKeepsClient ==
  ASSUME ClientInv, ProxyConnection, UNCHANGED clockVars
  PROVE  ClientInv'
<1>1. PICK secret \in Secrets, endpoint \in Endpoints :
         /\ ~RefusesProxy(secret, endpoint)
         /\ sent' = Request("proxy", ProxyTarget(endpoint), secret, resolved.tls)
  BY DEF ProxyConnection
<1>2. /\ control # None /\ resolved' = resolved /\ op' = op /\ assigned' = assigned
      /\ input' = input /\ control' = control /\ project' = project
  BY DEF ProxyConnection
<1> DEFINE s == Request("proxy", ProxyTarget(endpoint), secret, resolved.tls)
<1>3. /\ s.kind = "proxy" /\ s.to = ProxyTarget(endpoint) /\ s.token = secret
      /\ s.cert = LoadedPair(resolved.tls) /\ sent' = s
  BY <1>1 DEF Request
<1> HIDE DEF s
<1>4. control # Blank
  BY DEF ClientInv
<1>5. ProxyTarget(endpoint) \notin {None, Blank}
  BY <1>1, <1>2, <1>4 DEF ProxyTarget, RefusesProxy, Strip
<1>6. /\ op' = [kind |-> op'.kind, stage |-> op'.stage, engine |-> op'.engine]
      /\ op'.kind = op.kind /\ op'.stage = op.stage /\ op'.engine = op.engine
  BY <1>2 DEF ClientInv
<1>7. CredentialsTypeOK'
  BY <1>1, <1>2, <1>3, <1>5 DEF ClientInv, CredentialsTypeOK, Kinds, clockVars
<1>8. EngineFound'
  BY <1>1, <1>2, Zenon DEF ClientInv, EngineFound, KnownEngine
<1>9. StoredCredentialsStayHome'
  <2>0. /\ Home \subseteq Home' /\ GivenTokens' = GivenTokens /\ GivenFiles' = GivenFiles
        /\ InlinePairOverrides' = InlinePairOverrides
    BY <1>2, InputsFixed
  <2>1. Recipient' = control
    BY <1>2, <1>3 DEF Recipient
  <2>2. sent'.token \in GivenTokens'
    BY <1>3, <2>0 DEF GivenTokens
  <2>3. resolved # None /\ KnownEngine(control)
    BY <1>2 DEF ClientInv, CredentialsTypeOK, EngineFound
  <2>4. Sound(resolved)
    BY <2>3, KeptIsSound
  <2>5. (/\ LoadedPair(resolved.tls) # None
         /\ ~({LoadedPair(resolved.tls)[1], LoadedPair(resolved.tls)[2]} \subseteq GivenFiles)
         /\ ~InlinePairOverrides)
        => control \in Home
    <3>1. resolved.engine \in {None, NormalEngine(Selected.engine)} => control \in Home
      BY <1>2, <2>3, <2>4, KnownIsHome
    <3> QED BY <3>1, <2>4, Zenon DEF Sound
  <2>6. (/\ sent'.cert # None /\ ~({sent'.cert[1], sent'.cert[2]} \subseteq GivenFiles')
         /\ ~InlinePairOverrides')
        => Recipient' \in Home'
    BY <1>3, <2>0, <2>1, <2>5
  <2> QED BY <2>2, <2>6, Zenon DEF StoredCredentialsStayHome
<1>10. RequestsFollowOptions'
  <2>1. sent'.kind = "proxy" /\ sent'.token \in Secrets
    BY <1>3
  <2> QED BY <2>1 DEF RequestsFollowOptions
<1>11. Kept'
  BY <1>2, KeptKeeps
<1>12. input' \in Inputs
  BY <1>2 DEF ClientInv
<1> QED BY <1>2, <1>4, <1>6, <1>7, <1>8, <1>9, <1>10, <1>11, <1>12, Zenon DEF ClientInv

\* The expiry of a token passes.
LEMMA ExpiryKeepsClient ==
  ASSUME ClientInv, TokenExpires
  PROVE  ClientInv'
<1>1. /\ input' = input /\ resolved' = resolved /\ op' = op /\ control' = control
      /\ project' = project /\ assigned' = assigned /\ sent' = None
  BY DEF TokenExpires
<1>2. PICK token \in Expiring : expired' = expired \cup {token}
  BY DEF TokenExpires
<1>3. expiredBefore' = IF resolved = None THEN expired' ELSE expiredBefore
  BY DEF TokenExpires
<1>4. CredentialsTypeOK'
  BY <1>1, <1>2, <1>3 DEF ClientInv, CredentialsTypeOK
<1>5. Kept'
  <2>1. FileEnv' = FileEnv /\ File' = File
    BY <1>1, Zenon DEF FileEnv, File
  <2>2. CASE resolved = None
    BY <2>2, <1>1, <1>3 DEF Kept
  <2>3. CASE resolved # None
    <3>1. expiredBefore' = expiredBefore
      BY <2>3, <1>3
    <3> QED BY <2>1, <2>3, <3>1, <1>1, Zenon DEF ClientInv, Kept
  <2> QED BY <2>2, <2>3
<1>6. EngineFound'
  BY <1>1, Zenon DEF ClientInv, EngineFound, KnownEngine
<1>7. StoredCredentialsStayHome' /\ RequestsFollowOptions'
  BY <1>1, SilenceKeeps
<1>8. /\ input' \in Inputs /\ control' # Blank
      /\ op' = [kind |-> op'.kind, stage |-> op'.stage, engine |-> op'.engine]
  BY <1>1 DEF ClientInv
<1> QED BY <1>4, <1>5, <1>6, <1>7, <1>8, Zenon DEF ClientInv

\* Every step of a call, and of the engine of the channel.
LEMMA CallKeepsClient ==
  ASSUME ClientInv, ClientStep, UNCHANGED clockVars
  PROVE  ClientInv'
<1>1. CASE Refused
  BY <1>1, EndKeepsClient DEF Refused, Fails
<1>2. CASE WithoutEngine
  BY <1>2, EndKeepsClient DEF WithoutEngine, Fails
<1>3. CASE \E kind \in {"connect", "dial", "inventory", "hostname"} : AskProject(kind)
  BY <1>3, AskKeepsClient
<1>4. CASE \E kind \in {"connect", "dial", "inventory", "hostname"} : UseEngine(kind)
  BY <1>4, UseKeepsClient
<1>5. CASE ProjectAnswers
  BY <1>5, AnswerKeepsClient
<1>6. CASE ProjectFails
  BY <1>6, EndKeepsClient DEF ProjectFails, Fails
<1>7. CASE CannotLoad
  BY <1>7, EndKeepsClient DEF CannotLoad, Fails
<1>8. CASE Connect
  <2>1. /\ op.kind = "connect" /\ op.stage = "ready" /\ op' = Idle
        /\ sent' = Request("open", op.engine, OwnToken, resolved.tls)
        /\ control' = control \/ control' = op.engine
        /\ input' = input /\ resolved' = resolved /\ project' = project /\ assigned' = assigned
    BY <1>8 DEF Connect, Writes
  <2> QED BY <2>1, RequestKeepsClient
<1>9. CASE Dial
  <2>1. PICK t \in DialTokens \cup {None} :
           sent' = Request("stream", op.engine, OrElse(t, OwnToken), resolved.tls)
    BY <1>9 DEF Dial, Writes
  <2>2. /\ op.kind = "dial" /\ op.stage = "ready" /\ op' = Idle
        /\ control' = control
        /\ input' = input /\ resolved' = resolved /\ project' = project /\ assigned' = assigned
    BY <1>9 DEF Dial, Writes
  <2>3. OrElse(t, OwnToken) \in DialTokens \cup {OwnToken}
    BY DEF OrElse
  <2> QED BY <2>1, <2>2, <2>3, RequestKeepsClient
<1>10. CASE Discover
  BY <1>10, DiscoverKeepsClient
<1>11. CASE DiscoveryFails
  BY <1>11, EndKeepsClient DEF DiscoveryFails, Fails
<1>12. CASE Inventory
  <2>1. /\ op.stage \in {"ready", "targeted"} /\ op' = Idle
        /\ sent' = Request("inventory", op.engine, OwnToken, resolved.tls)
        /\ control' = control
        /\ input' = input /\ resolved' = resolved /\ project' = project /\ assigned' = assigned
    BY <1>12 DEF Inventory, Writes
  <2> QED BY <2>1, RequestKeepsClient
<1>13. CASE StableHostname
  BY <1>13, EndKeepsClient DEF StableHostname
<1>14. CASE ProxyConnection
  BY <1>14, ProxyKeepsClient
<1> QED BY <1>1, <1>2, <1>3, <1>4, <1>5, <1>6, <1>7, <1>8, <1>9, <1>10, <1>11,
           <1>12, <1>13, <1>14, Zenon DEF ClientStep

\* Every step of a client.
LEMMA StepKeepsClient ==
  ASSUME ClientInv, CredentialsNext
  PROVE  ClientInv'
BY CallKeepsClient, ExpiryKeepsClient DEF CredentialsNext

---------------------------------------------------------------------------
(* The three parts together.  A behaviour is about one of them; the others *)
(* stay as they began, and write nothing.                                  *)

IInv ==
    /\ part \in {"client", "webhook", "tunnel"}
    /\ part = "client" => ClientInv
    /\ part # "client" => sent = None
    /\ WebhookInv
    /\ TunnelInv

\* A part keeps its invariant while another runs.
LEMMA OthersKeep ==
  ASSUME IInv, part' = part
  PROVE  /\ UNCHANGED webhookVars => WebhookInv'
         /\ UNCHANGED tunnelOptionVars => TunnelInv'
         /\ UNCHANGED credentialVars /\ part = "client" => ClientInv'
<1>1. ASSUME UNCHANGED webhookVars PROVE WebhookInv'
  <2>1. signed' = signed /\ verified' = verified
    BY <1>1 DEF webhookVars
  <2>2. Delivered' = Delivered
    BY <2>1 DEF Delivered
  <2> QED BY <2>1, <2>2, Zenon DEF IInv, WebhookInv, Called
<1>2. ASSUME UNCHANGED tunnelOptionVars PROVE TunnelInv'
  <2>1. call' = call /\ wire' = wire /\ shown' = shown /\ refusal' = refusal
    BY <1>2 DEF tunnelOptionVars
  <2> QED BY <2>1, Zenon DEF IInv, TunnelInv
<1>3. ASSUME UNCHANGED credentialVars, part = "client" PROVE ClientInv'
  <2>1. /\ input' = input /\ resolved' = resolved /\ op' = op /\ control' = control
        /\ sent' = sent /\ project' = project /\ assigned' = assigned
        /\ expired' = expired /\ expiredBefore' = expiredBefore
    BY <1>3 DEF credentialVars, clockVars
  <2>2. ClientInv
    BY <1>3 DEF IInv
  <2>3. FileEnv' = FileEnv /\ File' = File /\ Selected' = Selected
    BY <2>1, InputsFixed
  <2>4. Kept'
    BY <2>1, <2>2, KeptKeeps DEF clockVars
  <2>5. CredentialsTypeOK'
    BY <2>1, <2>2, Zenon DEF ClientInv, CredentialsTypeOK
  <2>6. EngineFound'
    BY <2>1, <2>2, Zenon DEF ClientInv, EngineFound, KnownEngine
  <2>7. StoredCredentialsStayHome'
    BY <2>1, <2>2, <2>3, Zenon DEF ClientInv, StoredCredentialsStayHome, Home,
       HomeApi, NamedBy, Recipient, InlinePairOverrides, GivenTokens, GivenFiles
  <2>8. RequestsFollowOptions'
    BY <2>1, <2>2, <2>3, Zenon DEF ClientInv, RequestsFollowOptions
  <2> QED BY <2>1, <2>2, <2>4, <2>5, <2>6, <2>7, <2>8, Zenon DEF ClientInv
<1> QED BY <1>1, <1>2, <1>3

\* Initially nothing was resolved, signed, called or written.
LEMMA IInvInit == Init => IInv
<1> SUFFICES ASSUME Init PROVE IInv
  OBVIOUS
<1>1. part \in {"client", "webhook", "tunnel"} /\ sent = None /\ WebhooksInit
  BY DEF Init, CredentialsInit, NoClient
<1>2. WebhookInv
  BY <1>1, FS_EmptySet, WebhookAssumption DEF WebhooksInit, WebhookInv
<1>3. TunnelInv
  BY DEF Init, NoTunnel, TunnelOptionsInit, TunnelInv
<1>4. ASSUME part = "client" PROVE ClientInv
  <2>1. CredentialsInit
    BY <1>4 DEF Init
  <2>2. op = [kind |-> op.kind, stage |-> op.stage, engine |-> op.engine]
        /\ op.kind = "none" /\ op.stage = "idle"
    BY <2>1 DEF CredentialsInit, Idle
  <2>3. CredentialsTypeOK /\ Kept /\ EngineFound
    BY <2>1, <2>2 DEF CredentialsInit, CredentialsTypeOK, Kept, EngineFound
  <2>4. StoredCredentialsStayHome /\ RequestsFollowOptions
    BY <1>1 DEF StoredCredentialsStayHome, RequestsFollowOptions
  <2> QED BY <2>1, <2>2, <2>3, <2>4, ConfigAssumption DEF CredentialsInit, ClientInv
<1> QED BY <1>1, <1>2, <1>3, <1>4 DEF IInv

\* Every step of a part, and one that changes nothing, keeps the three.
LEMMA IInvStep == IInv /\ [Next]_vars => IInv'
<1> SUFFICES ASSUME IInv, [Next]_vars PROVE IInv'
  OBVIOUS
<1>1. CASE ClientNext
  <2>1. /\ part = "client" /\ CredentialsNext /\ part' = part
        /\ UNCHANGED webhookVars /\ UNCHANGED tunnelOptionVars
    BY <1>1 DEF ClientNext
  <2>2. ClientInv'
    BY <2>1, StepKeepsClient DEF IInv
  <2>3. WebhookInv' /\ TunnelInv'
    BY <2>1, OthersKeep
  <2> QED BY <2>1, <2>2, <2>3 DEF IInv
<1>2. CASE WebhookNext
  <2>1. /\ part = "webhook" /\ WebhooksNext /\ part' = part
        /\ UNCHANGED credentialVars /\ UNCHANGED tunnelOptionVars
    BY <1>2 DEF WebhookNext
  <2>2. WebhookInv'
    <3>1. CASE \E key \in Keys, at \in 0 .. Horizon, payload \in DOMAIN Payloads :
                  /\ verified = NotCalled /\ Cardinality(signed) < MaxSigned
                  /\ Sign(key, at, payload)
      BY <3>1, SignKeepsWebhooks DEF IInv
    <3>2. CASE \E payload \in DOMAIN Payloads, header \in Delivered, key \in Keys \cup {BlankKey},
                  tolerance \in Tolerances, now \in 0 .. Horizon :
                    Verify(payload, header, key, tolerance, now)
      BY <3>2, VerifyKeepsWebhooks DEF IInv
    <3> QED BY <2>1, <3>1, <3>2 DEF WebhooksNext
  <2>3. TunnelInv'
    BY <2>1, OthersKeep
  <2>4. sent' = sent
    BY <2>1 DEF credentialVars
  <2> QED BY <2>1, <2>2, <2>3, <2>4 DEF IInv
<1>3. CASE TunnelNext
  <2>1. /\ part = "tunnel" /\ TunnelOptionsNext /\ part' = part
        /\ UNCHANGED credentialVars /\ UNCHANGED webhookVars
    BY <1>3 DEF TunnelNext
  <2>2. TunnelInv'
    BY <2>1, CreateKeepsTunnel, AnswerKeepsTunnel DEF IInv, TunnelOptionsNext
  <2>3. WebhookInv'
    BY <2>1, OthersKeep
  <2>4. sent' = sent
    BY <2>1 DEF credentialVars
  <2> QED BY <2>1, <2>2, <2>3, <2>4 DEF IInv
<1>4. CASE UNCHANGED vars
  <2>1. part' = part /\ UNCHANGED credentialVars /\ UNCHANGED webhookVars
        /\ UNCHANGED tunnelOptionVars
    BY <1>4 DEF vars
  <2>2. sent' = sent
    BY <2>1 DEF credentialVars
  <2> QED BY <2>1, <2>2, OthersKeep DEF IInv
<1> QED BY <1>1, <1>2, <1>3, <1>4 DEF Next

\* In every behaviour the invariant holds.
THEOREM Invariance == Spec => []IInv
BY IInvInit, IInvStep, PTL DEF Spec

\* A call always knows what it needs before it writes: an engine, an API and the
\* options; signatures and messages are those of the steps that made them.
THEOREM TypeCorrect == Spec => []TypeOK
<1>1. IInv => TypeOK
  BY DEF IInv, ClientInv, WebhookInv, TunnelInv, TypeOK
<1> QED BY <1>1, Invariance, PTL

\* Whatever the arguments, the environment, the contexts of the file, the answers
\* of the API and of the engine: a token or certificate from the config file is
\* sent only to the API and engine of its context, to what these named, and on
\* proxy connections for these - a context bound to no API, an empty api_url and
\* an inline pair under an explicit engine excepted, as the property says.
THEOREM StoredCredentialsKept == Spec => []StoredCredentialsStayHome
<1>1. IInv => StoredCredentialsStayHome
  BY DEF IInv, ClientInv, StoredCredentialsStayHome
<1> QED BY <1>1, Invariance, PTL

\* And the engine, the region, the one kind of credentials and no_token are
\* respected by every request; so is the expiry of a token, as of the moment the
\* options were resolved, whatever expires later.
THEOREM OptionsFollowed == Spec => []RequestsFollowOptions
<1>1. IInv => RequestsFollowOptions
  BY DEF IInv, ClientInv, RequestsFollowOptions
<1> QED BY <1>1, Invariance, PTL

\* verify_event() accepts what was signed with the key, for the payload, within
\* the tolerance, and nothing else, for any clocks, keys, payloads and number of
\* signatures.
THEOREM WebhooksVerified == Spec => []WebhookVerdicts
<1>1. IInv => WebhookVerdicts
  BY WebhookInvMeans DEF IInv
<1> QED BY <1>1, Invariance, PTL

\* Any options that are accepted reach the engine as they were given, and come
\* back as the engine answered.
THEOREM TunnelsAsAsked == Spec => []TunnelAsAsked
<1>1. IInv => TunnelAsAsked
  BY TunnelInvMeans DEF IInv
<1> QED BY <1>1, Invariance, PTL
=============================================================================
