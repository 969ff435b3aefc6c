------------------------------ MODULE RelayProxy ------------------------------
(***************************************************************************)
(* The data plane of secretd on top of the broker (secretd/src/proxy.rs,   *)
(* broker/decide.rs, issue_leaf_for_covered_host of the engine).  A thread *)
(* without a link is a call of the control plane; a thread with one is a   *)
(* connection of a child: plain, or inside a CONNECT it is being, or has   *)
(* been, given a certificate for.  A connection serves one request at a    *)
(* time.  Header names, bodies, paths and methods are left out: what they  *)
(* add to a decision is the denial that Decide may always take.            *)
(***************************************************************************)
EXTENDS RelayBroker

CONSTANTS
    Host,              \* the hosts a child asks for
    Scopes             \* what a minted policy may say: [provider, hosts, mitm]

Provider == {"anthropic", "openai", "github", "generic"}

ASSUME HostAssumption == Host # {} /\ "" \notin Host
ASSUME ScopesAssumption ==
    Scopes \subseteq [provider : Provider, hosts : SUBSET Host, mitm : BOOLEAN]

VARIABLES
    relay,             \* the scope in the policy row: {} before the first, {s} after (durable)
    link,              \* "none", "plain", the steps of a CONNECT, or "tunnel"
    target,            \* the host of the CONNECT, "" without one
    host,              \* the host the request is for, "" without one
    granted,           \* history: the scope the running swap was allowed under
    barred             \* history: why the CONNECT could get no certificate when it began, until
                       \* an unlock or a policy that covers its target takes the reason away

proxyVars == <<relay, link, target, host, granted, barred>>
netVars == <<vars, proxyVars>>

(* canonical_upstreams of the engine.                                      *)
Upstreams(provider) ==
    CASE provider = "anthropic" -> {"api.anthropic.com"}
      [] provider = "openai"    -> {"api.openai.com"}
      [] provider = "github"    -> {"api.github.com", "uploads.github.com"}
      [] provider = "generic"   -> {}

(* provider_for_host of the proxy: whose header the real key goes into.    *)
ProviderForHost(h) ==
    IF h = "api.anthropic.com" THEN "anthropic"
    ELSE IF h = "api.openai.com" THEN "openai"
    ELSE IF h \in {"api.github.com", "uploads.github.com"} THEN "github"
    ELSE "generic"

Covers(h) == policy = "active" /\ \E s \in relay : h \in s.hosts

ProxyInit ==
    /\ Init
    /\ relay = {}
    /\ link = [t \in Thread |-> "none"]
    /\ target = [t \in Thread |-> ""]
    /\ host = [t \in Thread |-> ""]
    /\ granted = [t \in Thread |-> {}]
    /\ barred = [t \in Thread |-> {}]

Covered(c, s) == target[c] \in s.hosts
-----------------------------------------------------------------------------
(* Calls of the control plane.  The upsert of a mint replaces the whole    *)
(* row, its scope included.                                                *)
MintPolicy(t) ==
    /\ SavePolicy(t)
    /\ \E s \in Scopes :
         /\ relay' = {s}
         /\ barred' = [c \in Thread |-> IF Covered(c, s) THEN barred[c] \ {"uncovered"} ELSE barred[c]]
    /\ UNCHANGED <<link, target, host, granted>>

UnlockCall ==
    /\ UnlockVault
    /\ barred' = [c \in Thread |-> barred[c] \ {"locked"}]
    /\ UNCHANGED <<relay, link, target, host, granted>>
-----------------------------------------------------------------------------
(* A connection without a CONNECT has no target.                           *)
SetLink(t, kind) ==
    LET connected == kind \notin {"none", "plain"}
    IN  /\ link' = [link EXCEPT ![t] = kind]
        /\ target' = [target EXCEPT ![t] = IF connected THEN @ ELSE ""]
        /\ barred' = [barred EXCEPT ![t] = IF connected THEN @ ELSE {}]

(* A child connects, and may ask for a tunnel: handle_connect mints a leaf *)
(* under three guards taken one after the other, and answers 502 when one  *)
(* refuses; the plain connection stays.                                    *)
Accept(t) ==
    /\ pc[t] = "idle" /\ link[t] = "none"
    /\ SetLink(t, "plain")
    /\ UNCHANGED <<vars, relay, host, granted>>

Connect(t, h) ==
    /\ pc[t] = "idle" /\ link[t] = "plain"
    /\ link' = [link EXCEPT ![t] = "connect"]
    /\ target' = [target EXCEPT ![t] = h]
    /\ barred' = [barred EXCEPT ![t] = (IF vault = "Locked" THEN {"locked"} ELSE {})
                                         \cup (IF Covers(h) THEN {} ELSE {"uncovered"})]
    /\ UNCHANGED <<vars, relay, host, granted>>

CheckDek(t) ==
    /\ link[t] = "connect"
    /\ SetLink(t, IF vault = "Unlocked" THEN "cover" ELSE "plain")
    /\ UNCHANGED <<vars, relay, host, granted>>

(* The coverage check, and what follows it on state this module does not   *)
(* keep: the issuer may be absent (502); the 200 once sent, the handshake  *)
(* may fail, or name another host than the target, and the tunnel ends.    *)
IssueLeafStale(t) ==                                                     \* mutant
    /\ link[t] = "cover"
    /\ \/ SetLink(t, "plain")
       \/ (\E s \in relay : target[t] \in s.hosts) /\ \E kind \in {"none", "tunnel"} : SetLink(t, kind)
    /\ UNCHANGED <<vars, relay, host, granted>>
IssueLeaf(t) ==
    /\ link[t] = "cover"
    /\ \/ SetLink(t, "plain")
       \/ Covers(target[t]) /\ \E kind \in {"none", "tunnel"} : SetLink(t, kind)
    /\ UNCHANGED <<vars, relay, host, granted>>

Close(t) ==
    /\ pc[t] = "idle" /\ link[t] \in {"plain", "tunnel"}
    /\ SetLink(t, "none")
    /\ UNCHANGED <<vars, relay, host, granted>>
-----------------------------------------------------------------------------
(* A request: its host is the one it names on a plain connection, and the  *)
(* target of the CONNECT in a tunnel, whatever it names.                   *)
RequestTrustsHost(t) ==                                                  \* mutant
    /\ link[t] \in {"plain", "tunnel"}
    /\ \E h \in Host : host' = [host EXCEPT ![t] = h]
    /\ StartSwap(t)
    /\ UNCHANGED <<relay, link, target, granted, barred>>
Request(t) ==
    /\ link[t] \in {"plain", "tunnel"}
    /\ \E h \in IF link[t] = "tunnel" THEN {target[t]} ELSE Host : host' = [host EXCEPT ![t] = h]
    /\ StartSwap(t)
    /\ UNCHANGED <<relay, link, target, granted, barred>>

(* What decide asks of the host: the policy's list, the provider's fixed   *)
(* upstreams, and for a policy that terminates TLS a name seen in a        *)
(* handshake, which only a tunnel has.                                     *)
InScope(t, s) ==
    /\ host[t] \in s.hosts
    /\ host[t] \in Upstreams(s.provider)
    /\ s.mitm => link[t] = "tunnel"

ProxyDecide(t) ==
    /\ Decide(t)
    /\ \/ /\ pc'[t] = "swapAudit"
          /\ UNCHANGED granted
       \/ /\ pc'[t] = "swapKey"
          /\ \A s \in relay : InScope(t, s)
          /\ granted' = [granted EXCEPT ![t] = relay]
    /\ UNCHANGED <<relay, link, target, host, barred>>

(* relay_swap fences the host once more before it sends.                   *)
ProxyOpenKey(t) ==
    /\ OpenKey(t)
    /\ \A s \in granted[t] : host[t] \in Upstreams(s.provider)
    /\ UNCHANGED proxyVars

(* The upstream seam: the key in the header of the host's provider, an     *)
(* answer or one of its errors.                                            *)
UpstreamAnswers(t) == Sent(t) /\ UNCHANGED proxyVars

Answered(t) ==
    /\ host' = [host EXCEPT ![t] = ""]
    /\ granted' = [granted EXCEPT ![t] = {}]

(* The child closes its connection while the upstream answers.             *)
ProxyHangUp(t) == HangUp(t) /\ SetLink(t, "none") /\ Answered(t) /\ UNCHANGED relay

ProxyReturns(t) == SwapReturns(t) /\ Answered(t) /\ UNCHANGED <<relay, link, target, barred>>
-----------------------------------------------------------------------------
(* What goes on without the control plane: connections, and calls that     *)
(* have begun.                                                             *)
Work(t) ==
    \/ /\ \/ SaveBearer(t) \/ LoadPolicy(t) \/ FlipPolicy(t) \/ ListRows(t) \/ LoadRow(t)
          \/ Reseal(t) \/ PutRow(t) \/ RevokeReturns(t) \/ ReadRow(t) \/ StoreFails(t)
       /\ UNCHANGED proxyVars
    \/ MintPolicy(t) \/ ProxyDecide(t) \/ ProxyOpenKey(t)
    \/ UpstreamAnswers(t) \/ ProxyHangUp(t) \/ ProxyReturns(t)

Connection(t) ==
    \/ CheckDek(t) \/ IssueLeaf(t) \/ Close(t)
    \/ \E h \in Host : Connect(t, h)

Control(t) ==
    /\ link[t] = "none"
    /\ StartMint(t) \/ StartRevoke(t) \/ StartRevokeBearer(t)
    /\ UNCHANGED proxyVars
-----------------------------------------------------------------------------
(* A real key leaves only for a host of the policy that allowed it, in the *)
(* header of the provider the key is for, through a tunnel only for the    *)
(* host whose TLS was terminated, and under a policy that terminates TLS   *)
(* only through a tunnel, whatever is minted or revoked meanwhile (decide, *)
(* relay_swap, handle_decrypted, provider_for_host).                       *)
KeyToItsProvider ==
    \A t \in Thread : pc[t] = "sending" =>
        \E s \in granted[t] :
            /\ host[t] \in s.hosts
            /\ s.provider = ProviderForHost(host[t])
            /\ link[t] = "tunnel" => host[t] = target[t]
            /\ s.mitm => link[t] = "tunnel"

(* No child's TLS is terminated for a CONNECT that came to a locked vault  *)
(* or for an uncovered host, unless an unlock or a mint that covers the    *)
(* host ended the reason first (issue_leaf_for_covered_host).              *)
NoLeafWhenBarred == \A t \in Thread : link[t] = "tunnel" => barred[t] = {}

(* The scope, the connection and the history have their types; a call of   *)
(* the control plane has no connection, and a swap has one.                *)
ProxyTypeOK ==
    /\ relay \subseteq Scopes
    /\ link \in [Thread -> {"none", "plain", "connect", "cover", "tunnel"}]
    /\ target \in [Thread -> Host \cup {""}] /\ host \in [Thread -> Host \cup {""}]
    /\ granted \in [Thread -> SUBSET Scopes]
    /\ barred \in [Thread -> SUBSET {"locked", "uncovered"}]
    /\ \A t \in Thread : pc[t] # "idle" => (op[t] = "swap" <=> link[t] \in {"plain", "tunnel"})
=============================================================================
