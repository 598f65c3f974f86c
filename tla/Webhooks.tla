------------------------------ MODULE Webhooks ------------------------------
(***************************************************************************)
(* Signed webhook deliveries (webhooks.py): the platform signs payloads    *)
(* with a timestamp, with two secrets while one replaces the other; a      *)
(* delivery arrives late, with a header it lost a part of or was joined to *)
(* that of another; the receiver's clock runs apart from the sender's.     *)
(***************************************************************************)
EXTENDS Checks, Integers, FiniteSets

CONSTANTS
    Payloads,    \* payload -> the parts of an event it has
    Keys,        \* signing secrets
    BlankKey,    \* a secret of white space
    Horizon,     \* clocks run from 0 to Horizon
    MaxSigned,   \* signatures made, at most
    Tolerances   \* values of the tolerance argument

ASSUME WebhookAssumption ==
    Horizon \in Nat /\ MaxSigned \in Nat /\ Tolerances \subseteq Int

VARIABLES
    signed,      \* signatures made: [key, at, payload]
    verified     \* the verify_event() made and its result, or NotCalled

webhookVars == <<signed, verified>>

\* What verify_event() and _event_from_json() ask of a payload.
EventParts == {"json", "object", "id", "type", "deliverable", "created_at", "body", "owner"}

---------------------------------------------------------------------------
(* A signature header is a sequence of parts.  hmac is injective here, so  *)
(* that a signature is what it was computed from.                          *)

Part(name, value) == [name |-> name, value |-> value]

Signature(key, at, payload) == [key |-> key, at |-> at, payload |-> payload]

HeaderOf(s) == <<Part("t", s.at), Part("v1", s)>>

\* Places of the timestamps and of the signatures.
Times(header) == {i \in DOMAIN header : header[i].name = "t"}

Signatures(header) == {i \in DOMAIN header : header[i].name = "v1"}

\* The last timestamp counts, and every signature is a candidate.
HeaderTime(header) ==
    IF Times(header) = {} THEN 0
    ELSE header[CHOOSE i \in Times(header) : \A j \in Times(header) : j <= i].value

InvalidTime(header) == \E i \in Times(header) : header[i].value < 0

\* Mutant: a delivery cannot be early.
OutsidePast(now, at, tolerance) == now - at > tolerance

Outside(now, at, tolerance) == now - at > tolerance \/ at - now > tolerance

SignatureMatches(header, key, payload) ==
    \E i \in Signatures(header) :
       header[i].value = Signature(key, HeaderTime(header), payload)

\* The header is the string given or the first of the values given: the others
\* are not read.  An empty list of values, which ends in an IndexError, is an
\* empty header here.
VerifyRefusals(payload, header, key, tolerance, now) ==
    << RaiseIf(key = BlankKey, "SECRET_REQUIRED"),
       RaiseIf(tolerance < 0, "TOLERANCE"),
       RaiseIf(header = <<>>, "NO_HEADER"),
       RaiseIf(InvalidTime(header), "TIMESTAMP"),
       RaiseIf(Times(header) = {} \/ Signatures(header) = {}, "FORMAT"),
       RaiseIf(Outside(now, HeaderTime(header), tolerance), "OUTSIDE_TOLERANCE"),
       RaiseIf(~SignatureMatches(header, key, payload), "MISMATCH"),
       RaiseIf(~(EventParts \subseteq Payloads[payload]), "PAYLOAD") >>

VerifyEvent(payload, header, key, tolerance, now) ==
    FirstRefusal(VerifyRefusals(payload, header, key, tolerance, now))

---------------------------------------------------------------------------
(* The platform and the way. *)

NotCalled == [result |-> "not called"]

\* sign_payload() refuses a blank secret and a negative timestamp.
Sign(key, at, payload) ==
    /\ key # BlankKey /\ at >= 0
    /\ signed' = signed \cup {Signature(key, at, payload)}
    /\ UNCHANGED verified

\* One signature, two that share a timestamp (a rotation), two deliveries whose
\* headers were joined, one that lost a part, one with a malformed timestamp.
Rotated(s, r) == <<Part("t", s.at), Part("v1", s), Part("v1", r)>>

Delivered ==
    {HeaderOf(s) : s \in signed}
      \cup {Rotated(x[1], x[2]) : x \in {x \in signed \X signed : x[1].at = x[2].at}}
      \cup {HeaderOf(x[1]) \o HeaderOf(x[2]) : x \in signed \X signed}
      \cup UNION {{<<>>, <<Part("t", s.at)>>, <<Part("v1", s)>>,
                   <<Part("t", -1)>> \o HeaderOf(s)} : s \in signed}

Verify(payload, header, key, tolerance, now) ==
    /\ verified = NotCalled
    /\ verified' = [ payload |-> payload, header |-> header, key |-> key,
                     tolerance |-> tolerance, now |-> now,
                     result |-> VerifyEvent(payload, header, key, tolerance, now) ]
    /\ UNCHANGED signed

WebhooksInit == signed = {} /\ verified = NotCalled

WebhooksNext ==
    \/ /\ verified = NotCalled
       /\ \E key \in Keys, at \in 0 .. Horizon, payload \in DOMAIN Payloads :
            Cardinality(signed) < MaxSigned /\ Sign(key, at, payload)
    \/ \E payload \in DOMAIN Payloads, header \in Delivered, key \in Keys \cup {BlankKey},
          tolerance \in Tolerances, now \in 0 .. Horizon :
            Verify(payload, header, key, tolerance, now)

---------------------------------------------------------------------------
\* verify_event() returns an event exactly for payloads that the holder of the
\* secret signed, at a time within the tolerance of the receiver's clock on
\* either side: one that was delivered late, with another payload, for another
\* secret or under another timestamp is refused, one that arrived in time is
\* not, also next to a signature of a secret that is being replaced.
\* (webhooks.py:84-129; docs/003-webhooks.md:52-53)
WebhookVerdicts ==
    verified # NotCalled =>
      LET v == verified
          InTime(s) == /\ s.key = v.key /\ s.payload = v.payload
                       /\ v.now - s.at \in -v.tolerance .. v.tolerance
      IN  /\ v.result = "accepted" =>
               /\ v.payload \in {s.payload : s \in signed}
               /\ \E s \in signed : InTime(s)
          /\ /\ \E s \in signed : InTime(s) /\ \/ v.header = HeaderOf(s)
                                               \/ \E r \in signed : v.header \in {Rotated(s, r), Rotated(r, s)}
             /\ EventParts \subseteq Payloads[v.payload]
             => v.result = "accepted"
=============================================================================
