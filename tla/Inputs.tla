------------------------------- MODULE Inputs -------------------------------
(***************************************************************************)
(* The three parts of the library that decide about what they are given:   *)
(* the configuration of a client, a webhook delivery, the options of a     *)
(* tunnel.  They share no state: a behaviour is about one of them.         *)
(***************************************************************************)
EXTENDS Credentials, Webhooks, TunnelOptions

VARIABLE part

vars == <<part, credentialVars, webhookVars, tunnelOptionVars>>

NoClient ==
    /\ input = None /\ resolved = None /\ op = Idle /\ control = None /\ sent = None
    /\ outcome = "ok" /\ project = None /\ assigned = {}
    /\ expired = {} /\ expiredBefore = {}

NoTunnel == call = None /\ wire = None /\ shown = None /\ refusal = "none"

Init ==
    \/ part = "client" /\ CredentialsInit /\ WebhooksInit /\ NoTunnel
    \/ part = "webhook" /\ NoClient /\ WebhooksInit /\ NoTunnel
    \/ part = "tunnel" /\ NoClient /\ WebhooksInit /\ TunnelOptionsInit

ClientNext ==
    part = "client" /\ CredentialsNext /\ UNCHANGED <<part, webhookVars, tunnelOptionVars>>

WebhookNext ==
    part = "webhook" /\ WebhooksNext /\ UNCHANGED <<part, credentialVars, tunnelOptionVars>>

TunnelNext ==
    part = "tunnel" /\ TunnelOptionsNext /\ UNCHANGED <<part, credentialVars, webhookVars>>

Next == ClientNext \/ WebhookNext \/ TunnelNext

Spec == Init /\ [][Next]_vars

\* Types of the parts, and what a part has when it runs.
TypeOK ==
    /\ part = "client" => CredentialsTypeOK
    /\ part = "webhook" => Cardinality(signed) <= MaxSigned
    /\ part = "tunnel" => (wire # None) = (refusal = "accepted")
=============================================================================
