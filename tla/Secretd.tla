------------------------------- MODULE Secretd -------------------------------
(***************************************************************************)
(* The daemon around the broker and the proxy (secretd/src/main.rs): how a *)
(* process takes the control socket, serves, and leaves.  Process Home is  *)
(* the one whose engine RelayBroker and RelayProxy describe; the others    *)
(* are there for the socket they compete for, and the store outlives them  *)
(* all.  The socket's mode and the owner check of every call are left out: *)
(* nobody but the owner reaches it.                                        *)
(***************************************************************************)
EXTENDS RelayProxy

CONSTANTS
    Process,           \* the processes that may be started, one after the other or at once
    Home               \* the one whose engine is modelled

ASSUME ProcessAssumption == Home \in Process /\ {"none", "dead"} \cap Process = {}

VARIABLES
    stage,             \* where each process is between start and exit
    path,              \* what the socket path names: "none", "dead", or the process that listens
    starts,            \* how many processes have been started
    raced              \* history: one process was starting while another started or left

daemonVars == <<stage, path, starts>>
allVars == <<netVars, daemonVars, raced>>

Starting(p) == stage[p] \in {"probe", "reap", "bind"}
Leaving(p) == stage[p] = "leaving"
Overlap == \E p, q \in Process : p # q /\ Starting(p) /\ (Starting(q) \/ Leaving(q))

(* The listener stays open until the calls in flight have been answered.   *)
Listening(p) == stage[p] \in {"serving", "draining"}
HomeServes == stage[Home] = "serving" /\ path = Home

DaemonInit ==
    /\ ProxyInit
    /\ stage = [p \in Process |-> "down"]
    /\ path = "none"
    /\ starts = 0
    /\ raced = FALSE

Reach(p, s) == stage' = [stage EXCEPT ![p] = s]

(* One budget bounds the calls and the starts.                             *)
Budget == started + starts < MaxCalls
-----------------------------------------------------------------------------
(* bind_uds: look at the path and connect to what is there; remove it when *)
(* nobody answers; bind.                                                   *)
StartProcess(p) ==
    /\ stage[p] = "down"
    /\ Budget
    /\ starts' = starts + 1
    /\ Reach(p, "probe")
    /\ UNCHANGED <<netVars, path>>

ProbeTakesOver(p) ==                                                     \* mutant
    /\ stage[p] = "probe"
    /\ Reach(p, IF path = "none" THEN "bind" ELSE "reap")
    /\ UNCHANGED <<netVars, path, starts>>
Probe(p) ==
    /\ stage[p] = "probe"
    /\ Reach(p, IF path = "none" THEN "bind"
                ELSE IF path # "dead" /\ Listening(path) THEN "down"
                ELSE "reap")
    /\ UNCHANGED <<netVars, path, starts>>

Reap(p) ==
    /\ stage[p] = "reap"
    /\ Reach(p, IF path = "none" THEN "down" ELSE "bind")
    /\ path' = "none"
    /\ UNCHANGED <<netVars, starts>>

Bind(p) ==
    /\ stage[p] = "bind"
    /\ Reach(p, IF path = "none" THEN "serving" ELSE "down")
    /\ path' = IF path = "none" THEN p ELSE path
    /\ UNCHANGED <<netVars, starts>>
-----------------------------------------------------------------------------
(* A signal: accept no more, answer the control calls in flight, close the *)
(* listener, remove the socket, exit.  Connections of the proxy live until *)
(* the exit, which ends whatever they are doing.                           *)
Terminate(p) ==
    /\ stage[p] = "serving"
    /\ Reach(p, "draining")
    /\ UNCHANGED <<netVars, path, starts>>

Drained(p) ==
    /\ stage[p] = "draining"
    /\ p = Home => \A t \in Thread : link[t] = "none" => pc[t] = "idle"
    /\ Reach(p, "leaving")
    /\ UNCHANGED <<netVars, path, starts>>

EndOfHome ==
    /\ Crash
    /\ link' = [t \in Thread |-> "none"]
    /\ target' = [t \in Thread |-> ""] /\ host' = [t \in Thread |-> ""]
    /\ granted' = [t \in Thread |-> {}] /\ barred' = [t \in Thread |-> {}]
    /\ UNCHANGED relay

RemoveSocket(p) ==
    /\ stage[p] = "leaving"
    /\ Reach(p, "down")
    /\ path' = "none"
    /\ IF p = Home THEN EndOfHome ELSE UNCHANGED netVars
    /\ UNCHANGED starts

Kill(p) ==
    /\ "crash" \in Faults
    /\ stage[p] # "down"
    /\ Reach(p, "down")
    /\ path' = IF path = p THEN "dead" ELSE path
    /\ IF p = Home THEN EndOfHome ELSE UNCHANGED netVars
    /\ UNCHANGED starts
-----------------------------------------------------------------------------
(* Calls come in over the socket, children over the loopback port.         *)
OverSocket ==
    /\ HomeServes /\ Budget
    /\ \/ \E t \in Thread : Control(t)
       \/ UnlockCall
       \/ LockVault /\ UNCHANGED proxyVars
    /\ UNCHANGED daemonVars

OverLoopback(t) ==
    /\ stage[Home] \notin {"down", "probe", "reap", "bind"}
    /\ \/ stage[Home] = "serving" /\ Accept(t)
       \/ Connection(t)
       \/ Budget /\ Request(t)
    /\ UNCHANGED daemonVars

Running == (\E t \in Thread : Work(t)) /\ UNCHANGED daemonVars

StickPulled == Presence /\ UNCHANGED <<proxyVars, daemonVars>>

(* Nothing more may begin, and nothing is left to do.                      *)
AllDone ==
    /\ ~Budget
    /\ \A t \in Thread : pc[t] = "idle" /\ link[t] = "none"
    /\ UNCHANGED <<netVars, daemonVars>>

Daemon(p) ==
    \/ StartProcess(p) \/ Probe(p) \/ Reap(p) \/ Bind(p)
    \/ Terminate(p) \/ Drained(p) \/ RemoveSocket(p) \/ Kill(p)

Step ==
    \/ \E p \in Process : Daemon(p)
    \/ \E t \in Thread : OverLoopback(t)
    \/ OverSocket
    \/ Running
    \/ StickPulled
    \/ AllDone

DaemonNext == Step /\ raced' = (raced \/ Overlap')

DaemonSpec == DaemonInit /\ [][DaemonNext]_allVars
-----------------------------------------------------------------------------
(* The daemon with its proxy implements the broker: whatever the start, a  *)
(* graceful exit or a kill in the middle of a swap does, the engine's      *)
(* state goes on as RelayBroker says.                                      *)
BrokerSpec == Spec

(* As long as no process starts while another starts or leaves, at most    *)
(* one accepts calls, and it is reached under the path: an unlocked vault  *)
(* can be locked by a call, and is not shadowed by a second daemon         *)
(* (bind_uds, serve).                                                      *)
ServerIsReachable == ~raced => \A p \in Process : Listening(p) => path = p

(* The types of the daemon's state.                                        *)
DaemonTypeOK ==
    /\ stage \in [Process -> {"down", "probe", "reap", "bind", "serving", "draining", "leaving"}]
    /\ path \in Process \cup {"none", "dead"}
    /\ starts \in 0 .. MaxCalls
    /\ raced \in BOOLEAN
=============================================================================
