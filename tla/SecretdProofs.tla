---------------------------- MODULE SecretdProofs ----------------------------
(***************************************************************************)
(* Proofs about RelayBroker, and about Secretd, the daemon with its proxy  *)
(* around it, for any callers, children, bearers, policies, faults and     *)
(* number of processes.  Of the broker: types, that a revoked bearer is    *)
(* never sent, and that the real key is opened only under a live DEK.  Of  *)
(* the daemon: it implements the broker, and hence has what was proved of  *)
(* it; a real key leaves only for its provider; a connection of a bearer   *)
(* that was barred gets no certificate; and the process that serves is the *)
(* one its socket leads to.                                                *)
(***************************************************************************)
EXTENDS Secretd, TLAPS

(* Next, grouped the way the proofs below split it.                        *)
MintStep(t) == StartMint(t) \/ SavePolicy(t) \/ SaveBearer(t)
RevokeStep(t) ==
    \/ StartRevoke(t) \/ LoadPolicy(t) \/ FlipPolicy(t) \/ ListRows(t)
    \/ StartRevokeBearer(t) \/ LoadRow(t)
    \/ Reseal(t) \/ PutRow(t) \/ RevokeReturns(t)
SwapStep(t) ==
    StartSwap(t) \/ ReadRow(t) \/ Decide(t) \/ OpenKey(t) \/ Sent(t) \/ HangUp(t) \/ SwapReturns(t)
WorldStep == UnlockVault \/ LockVault \/ Presence \/ Crash

LEMMA NextCases ==
    ASSUME [Next]_vars
    PROVE  \/ \E t \in Thread : MintStep(t) \/ RevokeStep(t) \/ SwapStep(t) \/ StoreFails(t)
           \/ WorldStep
           \/ UNCHANGED vars
  BY DEF Next, ThreadStep, Call, Finished, MintStep, RevokeStep, SwapStep, WorldStep
-----------------------------------------------------------------------------
LEMMA InitTypeOK == Init => TypeOK
<1> SUFFICES ASSUME Init
             PROVE  TypeOK
  OBVIOUS
<1>1. pc \in [Thread -> Pc] /\ op \in [Thread -> CallNames]
  BY DEF Init, Pc, CallNames
<1>2. {} \in SUBSET Minted /\ {} \in SUBSET Token
  OBVIOUS
<1>3. todo \in [Thread -> SUBSET Minted]
  BY <1>2 DEF Init
<1>4. scope \in [Thread -> SUBSET Token]
  BY <1>2 DEF Init
<1>5. started \in 0 .. MaxCalls
  BY MaxCallsAssumption DEF Init
<1>6. /\ vault \in {"Locked", "Unlocked"} /\ present \in BOOLEAN
      /\ policy \in {"none", "active", "revoked"}
      /\ bearer \in [Token -> {"none", "live", "revoked"}]
      /\ tok \in [Thread -> Token] /\ row \in [Thread -> {"none", "live", "revoked"}]
  BY DEF Init
<1>7. dead \subseteq Token
  BY DEF Init
<1>8. doomed \in [Thread -> BOOLEAN]
  BY DEF Init
<1>9. QED
  BY <1>1, <1>3, <1>4, <1>5, <1>6, <1>7, <1>8 DEF TypeOK

(* A call that begins sets fresh locals of the right types.                *)
LEMMA StartTypeOK ==
    ASSUME TypeOK, NEW t \in Thread, NEW call \in CallNames, NEW b \in Token, NEW label \in Pc,
           Start(t, call, b, label)
    PROVE  TypeOK'
<1>1. started' \in 0 .. MaxCalls
  BY MaxCallsAssumption DEF TypeOK, Start
<1>2. op' \in [Thread -> CallNames] /\ tok' \in [Thread -> Token] /\ pc' \in [Thread -> Pc]
  BY DEF TypeOK, Start, Goto
<1>3. /\ row' \in [Thread -> {"none", "live", "revoked"}]
      /\ todo' \in [Thread -> SUBSET Minted]
  BY DEF TypeOK, Start
<1>4. scope' \in [Thread -> SUBSET Token]
  BY DEF TypeOK, Start, Minted
<1>5. doomed' \in [Thread -> BOOLEAN]
  BY DEF TypeOK, Start
<1>6. UNCHANGED <<vault, present, durable, dead>> /\ Minted' = Minted
  BY DEF Start, durable, Minted
<1>7. QED
  BY <1>1, <1>2, <1>3, <1>4, <1>5, <1>6 DEF TypeOK, durable

LEMMA MintStepTypeOK ==
    ASSUME TypeOK, NEW t \in Thread, MintStep(t)
    PROVE  TypeOK'
<1>1. CASE StartMint(t)
  BY <1>1, StartTypeOK DEF StartMint, Rows, Pc, CallNames
<1>2. CASE SavePolicy(t)
  BY <1>2 DEF TypeOK, SavePolicy, Goto, Pc, Minted, locals
<1>3. CASE SaveBearer(t)
  <2>1. bearer' \in [Token -> {"none", "live", "revoked"}] /\ Minted \subseteq Minted'
    BY <1>3 DEF TypeOK, SaveBearer, Minted
  <2>2. pc' \in [Thread -> Pc]
    BY <1>3 DEF TypeOK, SaveBearer, Goto, Pc
  <2>3. UNCHANGED <<vault, present, policy, locals, dead, started>>
    BY <1>3 DEF SaveBearer
  <2>4. QED
    BY <2>1, <2>2, <2>3 DEF TypeOK, locals
<1>4. QED
  BY <1>1, <1>2, <1>3 DEF MintStep

LEMMA RevokeStepTypeOK ==
    ASSUME TypeOK, NEW t \in Thread, RevokeStep(t)
    PROVE  TypeOK'
<1> USE DEF TypeOK, Goto, Pc, Minted, locals, durable
<1>1. CASE StartRevoke(t)
  BY <1>1, StartTypeOK DEF StartRevoke, CallNames
<1>2. CASE StartRevokeBearer(t)
  BY <1>2, StartTypeOK DEF StartRevokeBearer, CallNames
<1>3. CASE LoadPolicy(t) \/ FlipPolicy(t)
  BY <1>3 DEF LoadPolicy, FlipPolicy
<1>4. CASE ListRows(t)
  BY <1>4 DEF ListRows, Rows
<1>5. CASE LoadRow(t)
  BY <1>5 DEF LoadRow, Rows
<1>6. CASE Reseal(t)
  BY <1>6 DEF Reseal
<1>7. CASE PutRow(t)
  BY <1>7 DEF PutRow
<1>8. CASE RevokeReturns(t)
  BY <1>8 DEF RevokeReturns
<1>9. QED
  BY <1>1, <1>2, <1>3, <1>4, <1>5, <1>6, <1>7, <1>8 DEF RevokeStep

LEMMA SwapStepTypeOK ==
    ASSUME TypeOK, NEW t \in Thread, SwapStep(t)
    PROVE  TypeOK'
<1>1. CASE StartSwap(t)
  BY <1>1, StartTypeOK DEF StartSwap, CallNames, Pc, Minted
<1> USE DEF TypeOK, Goto, Pc, Minted, locals, durable
<1>2. CASE ReadRow(t)
  BY <1>2 DEF ReadRow
<1>3. CASE Decide(t) \/ OpenKey(t) \/ Sent(t) \/ HangUp(t)
  BY <1>3 DEF Decide, OpenKey, Sent, HangUp
<1>4. CASE SwapReturns(t)
  BY <1>4 DEF SwapReturns
<1>5. QED
  BY <1>1, <1>2, <1>3, <1>4 DEF SwapStep

LEMMA NextTypeOK == TypeOK /\ [Next]_vars => TypeOK'
<1> SUFFICES ASSUME TypeOK, [Next]_vars
             PROVE  TypeOK'
  OBVIOUS
<1>1. ASSUME NEW t \in Thread, StoreFails(t)
      PROVE  TypeOK'
  BY <1>1 DEF StoreFails, TypeOK, Goto, Pc, Minted, locals, durable
<1>2. CASE WorldStep
  <2> USE DEF TypeOK, Pc, Minted, locals, durable
  <2>1. CASE UnlockVault \/ LockVault
    BY <1>2, <2>1, MaxCallsAssumption DEF UnlockVault, LockVault
  <2>2. CASE Presence
    <3>1. present' \in BOOLEAN
      BY <2>2, Zenon DEF Presence
    <3>2. UNCHANGED <<vault, durable, pc, locals, dead, started>>
      BY <2>2 DEF Presence
    <3>3. QED
      BY <3>1, <3>2
  <2>3. CASE Crash
    BY <2>3 DEF Crash
  <2>4. QED
    BY <1>2, <2>1, <2>2, <2>3 DEF WorldStep
<1>3. CASE UNCHANGED vars
  BY <1>3 DEF vars, TypeOK, Minted
<1>4. QED
  BY <1>1, <1>2, <1>3, NextCases, MintStepTypeOK, RevokeStepTypeOK, SwapStepTypeOK

(* Every variable of the broker has its type.                              *)
THEOREM TypeCorrect == Spec => []TypeOK
  BY InitTypeOK, NextTypeOK, PTL DEF Spec
-----------------------------------------------------------------------------
LEMMA InitRevokeInv == Init => RevokeInv
  BY DEF Init, RevokeInv, PolicyBeforeBearer, DeadIsRevoked, TodoCoversScope, MintIsFresh,
         DoomedIsStopped, GuardKeepsDek, Minting, Minted, Rows, HoldsRead

(* The store rows of a bearer never leave "revoked" and never go back to   *)
(* "none", except that a mint writes the row it drew.                      *)
LEMMA StartRevokeInv ==
    ASSUME TypeOK, RevokeInv, NEW t \in Thread, NEW call \in CallNames, NEW b \in Token,
           NEW label \in Pc, Start(t, call, b, label),
           label \in {"mintPolicy", "mintBearer", "swapKey", "sending", "flipRows", "putRow"}
               => /\ label = "mintPolicy" /\ call = "mint" /\ vault = "Unlocked"
                  /\ bearer[b] = "none"
                  /\ \A s \in Thread : Minting(s) => tok[s] # b,
           label = "swapRow" => vault = "Unlocked",
           label # "swapDecide",
           label = "loadRow" => call # "revoke"
    PROVE  RevokeInv'
<1>1. UNCHANGED <<vault, policy, bearer, dead>> /\ Minted' = Minted /\ Rows("live")' = Rows("live")
      /\ Rows("revoked")' = Rows("revoked")
  BY DEF Start, durable, Minted, Rows
<1>2. /\ pc[t] = "idle"
      /\ pc' = [pc EXCEPT ![t] = label] /\ op' = [op EXCEPT ![t] = call]
      /\ tok' = [tok EXCEPT ![t] = b] /\ row' = [row EXCEPT ![t] = "none"]
      /\ todo' = [todo EXCEPT ![t] = {}] /\ doomed' = [doomed EXCEPT ![t] = b \in dead]
      /\ scope' = [scope EXCEPT ![t] = Minted \cap (IF call = "revoke" THEN Token ELSE {b})]
  BY DEF Start, Goto
<1>3. /\ pc \in [Thread -> Pc] /\ op \in [Thread -> CallNames] /\ tok \in [Thread -> Token]
      /\ row \in [Thread -> {"none", "live", "revoked"}] /\ todo \in [Thread -> SUBSET Minted]
      /\ doomed \in [Thread -> BOOLEAN] /\ scope \in [Thread -> SUBSET Token]
  BY DEF TypeOK
<1>4. PolicyBeforeBearer'
  BY <1>1, <1>2, <1>3 DEF RevokeInv, PolicyBeforeBearer
<1>5. DeadIsRevoked'
  BY <1>1 DEF RevokeInv, DeadIsRevoked
<1>6. TodoCoversScope'
  BY <1>1, <1>2, <1>3 DEF RevokeInv, TodoCoversScope
<1>7. MintIsFresh'
  BY <1>1, <1>2, <1>3 DEF RevokeInv, MintIsFresh, Minting
<1>8. DoomedIsStopped'
  BY <1>1, <1>2, <1>3 DEF RevokeInv, DoomedIsStopped
<1>9. GuardKeepsDek'
  BY <1>1, <1>2, <1>3 DEF RevokeInv, GuardKeepsDek, HoldsRead
<1>10. QED
  BY <1>4, <1>5, <1>6, <1>7, <1>8, <1>9 DEF RevokeInv

LEMMA MintStepRevokeInv ==
    ASSUME TypeOK, RevokeInv, NEW t \in Thread, MintStep(t)
    PROVE  RevokeInv'
<1>1. CASE StartMint(t)
  <2>1. PICK b \in Token :
           /\ bearer[b] = "none"
           /\ \A s \in Thread : op[s] = "mint" /\ pc[s] # "idle" => tok[s] # b
           /\ Start(t, "mint", b, IF present THEN "mintPolicy" ELSE "idle")
    BY <1>1 DEF StartMint, Rows
  <2>2. vault = "Unlocked"
    BY <1>1 DEF StartMint
  <2>3. \A s \in Thread : Minting(s) => tok[s] # b
    BY <2>1 DEF RevokeInv, MintIsFresh, Minting
  <2>4. QED
    BY <2>1, <2>2, <2>3, StartRevokeInv DEF Pc, CallNames
<1> USE DEF RevokeInv, PolicyBeforeBearer, DeadIsRevoked, TodoCoversScope, MintIsFresh,
            DoomedIsStopped, GuardKeepsDek, Minting, HoldsRead, Goto, locals
<1>2. CASE SavePolicy(t)
  BY <1>2 DEF SavePolicy, TypeOK, Minted, Rows, Pc
<1>3. CASE SaveBearer(t)
  <2>1. /\ bearer' = [bearer EXCEPT ![tok[t]] = "live"] /\ pc' = [pc EXCEPT ![t] = "idle"]
        /\ pc[t] = "mintBearer" /\ UNCHANGED <<vault, policy, locals, dead>>
    BY <1>3 DEF SaveBearer
  <2>2. tok[t] \in Token /\ bearer[tok[t]] = "none" /\ policy # "none"
    BY <2>1 DEF TypeOK
  <2>3. /\ Minted' = Minted \cup {tok[t]} /\ Rows("live")' = Rows("live") \cup {tok[t]}
        /\ Rows("revoked")' = Rows("revoked") /\ tok[t] \notin Minted
    BY <2>1, <2>2 DEF TypeOK, Minted, Rows
  <2>4. PolicyBeforeBearer' /\ DeadIsRevoked'
    BY <2>1, <2>2, <2>3 DEF TypeOK
  <2>5. TodoCoversScope'
    BY <2>1, <2>2, <2>3 DEF TypeOK
  <2>6. MintIsFresh'
    BY <2>1, <2>2 DEF TypeOK
  <2>7. DoomedIsStopped' /\ GuardKeepsDek'
    BY <2>1 DEF TypeOK
  <2>8. QED
    BY <2>4, <2>5, <2>6, <2>7
<1>4. QED
  BY <1>1, <1>2, <1>3 DEF MintStep

LEMMA RevokeStepRevokeInv ==
    ASSUME TypeOK, RevokeInv, NEW t \in Thread, RevokeStep(t)
    PROVE  RevokeInv'
<1>1. CASE StartRevoke(t)
  BY <1>1, StartRevokeInv DEF StartRevoke, Pc, CallNames
<1>2. CASE StartRevokeBearer(t)
  BY <1>2, StartRevokeInv DEF StartRevokeBearer, Pc, CallNames
<1> USE DEF RevokeInv, PolicyBeforeBearer, DeadIsRevoked, TodoCoversScope, MintIsFresh,
            DoomedIsStopped, GuardKeepsDek, Minting, HoldsRead, Goto, locals, durable
<1>3. CASE LoadPolicy(t) \/ FlipPolicy(t)
  BY <1>3 DEF LoadPolicy, FlipPolicy, TypeOK, Minted, Rows, Pc
<1>4. CASE ListRows(t)
  BY <1>4 DEF ListRows, TypeOK, Minted, Rows, Pc
<1>5. CASE LoadRow(t)
  BY <1>5 DEF LoadRow, TypeOK, Minted, Rows, Pc
<1>6. CASE Reseal(t)
  BY <1>6 DEF Reseal, TypeOK, Minted, Rows, Pc
<1>7. CASE PutRow(t)
  <2>1. /\ bearer' = [bearer EXCEPT ![tok[t]] = "revoked"] /\ todo' = [todo EXCEPT ![t] = @ \ {tok[t]}]
        /\ pc[t] = "putRow" /\ pc' = [pc EXCEPT ![t] = "flipRows"]
        /\ UNCHANGED <<vault, policy, op, tok, row, scope, doomed, dead>>
    BY <1>7 DEF PutRow
  <2>2. tok[t] \in todo[t] /\ tok[t] \in Minted /\ tok[t] \in Token /\ bearer[tok[t]] # "none"
    BY <2>1 DEF TypeOK, Minted
  <2>3. /\ Minted' = Minted /\ Rows("live")' = Rows("live") \ {tok[t]}
        /\ Rows("revoked")' = Rows("revoked") \cup {tok[t]}
    BY <2>1, <2>2 DEF TypeOK, Minted, Rows
  <2>4. PolicyBeforeBearer' /\ DeadIsRevoked'
    BY <2>1, <2>3 DEF TypeOK
  <2>5. TodoCoversScope'
    BY <2>1, <2>3 DEF TypeOK
  <2>6. MintIsFresh'
    BY <2>1, <2>2 DEF TypeOK
  <2>7. DoomedIsStopped' /\ GuardKeepsDek'
    BY <2>1 DEF TypeOK
  <2>8. QED
    BY <2>4, <2>5, <2>6, <2>7
<1>8. CASE RevokeReturns(t)
  <2>1. /\ pc[t] = "flipRows" /\ todo[t] = {} /\ dead' = dead \cup scope[t]
        /\ pc' = [pc EXCEPT ![t] = "idle"] /\ UNCHANGED <<vault, durable, locals>>
    BY <1>8 DEF RevokeReturns
  <2>2. scope[t] \subseteq Rows("revoked")
    BY <2>1 DEF TypeOK, Minted, Rows
  <2>3. /\ Minted' = Minted /\ Rows("live")' = Rows("live") /\ Rows("revoked")' = Rows("revoked")
    BY <2>1 DEF Minted, Rows
  <2>4. PolicyBeforeBearer' /\ DeadIsRevoked'
    BY <2>1, <2>2, <2>3 DEF TypeOK
  <2>5. TodoCoversScope'
    BY <2>1, <2>3 DEF TypeOK
  <2>6. MintIsFresh' /\ DoomedIsStopped' /\ GuardKeepsDek'
    BY <2>1 DEF TypeOK
  <2>7. QED
    BY <2>4, <2>5, <2>6
<1>9. QED
  BY <1>1, <1>2, <1>3, <1>4, <1>5, <1>6, <1>7, <1>8 DEF RevokeStep

LEMMA SwapStepRevokeInv ==
    ASSUME TypeOK, RevokeInv, NEW t \in Thread, SwapStep(t)
    PROVE  RevokeInv'
<1>1. CASE StartSwap(t)
  BY <1>1, StartRevokeInv DEF StartSwap, Minted, Pc, CallNames, TypeOK
<1> USE DEF RevokeInv, PolicyBeforeBearer, DeadIsRevoked, TodoCoversScope, MintIsFresh,
            DoomedIsStopped, GuardKeepsDek, Minting, HoldsRead, Goto, locals, durable
<1>2. CASE ReadRow(t)
  BY <1>2 DEF ReadRow, TypeOK, Minted, Rows, Pc
<1>3. CASE Decide(t)
  BY <1>3 DEF Decide, Allowed, TypeOK, Minted, Rows, Pc
<1>4. CASE OpenKey(t) \/ Sent(t) \/ HangUp(t)
  BY <1>4 DEF OpenKey, Sent, HangUp, TypeOK, Minted, Rows, Pc
<1>5. CASE SwapReturns(t)
  BY <1>5 DEF SwapReturns, TypeOK, Minted, Rows, Pc
<1>6. QED
  BY <1>1, <1>2, <1>3, <1>4, <1>5 DEF SwapStep

LEMMA NextRevokeInv == TypeOK /\ RevokeInv /\ [Next]_vars => RevokeInv'
<1> SUFFICES ASSUME TypeOK, RevokeInv, [Next]_vars
             PROVE  RevokeInv'
  OBVIOUS
<1> USE DEF RevokeInv, PolicyBeforeBearer, DeadIsRevoked, TodoCoversScope, MintIsFresh,
            DoomedIsStopped, GuardKeepsDek, Minting, HoldsRead, Minted, Rows, locals, durable
<1>1. ASSUME NEW t \in Thread, StoreFails(t)
      PROVE  RevokeInv'
  BY <1>1 DEF StoreFails, TypeOK, Goto, Pc
<1>2. CASE UnlockVault \/ LockVault
  BY <1>2 DEF UnlockVault, LockVault, WriteGuardFree
<1>3. CASE Presence
  BY <1>3 DEF Presence
<1>4. CASE Crash
  BY <1>4 DEF Crash
<1>5. CASE UNCHANGED vars
  BY <1>5 DEF vars
<1>6. QED
  BY <1>1, <1>2, <1>3, <1>4, <1>5, NextCases, MintStepRevokeInv, RevokeStepRevokeInv,
     SwapStepRevokeInv DEF WorldStep

(* The inductive invariant of the broker holds.                            *)
THEOREM RevokeCorrect == Spec => [](TypeOK /\ RevokeInv)
  BY TypeCorrect, InitRevokeInv, NextRevokeInv, PTL DEF Spec

(* A swap that begins after a revocation of its bearer has returned Ok     *)
(* never reaches the upstream.                                             *)
THEOREM NeverSentOnceRevoked == Spec => []RevokedNeverSent
<1>1. RevokeInv => RevokedNeverSent
  BY DEF RevokeInv, DoomedIsStopped, RevokedNeverSent
<1>2. QED
  BY <1>1, RevokeCorrect, PTL

(* The real key is opened only under a live DEK, for a row read as live.   *)
THEOREM KeyOpensUnlocked == Spec => KeyOnlyUnlocked
<1>1. RevokeInv /\ [Next]_vars
        => [\A t \in Thread : pc[t] = "swapKey" /\ pc'[t] = "sending"
                                 => vault = "Unlocked" /\ row[t] = "live"]_vars
  BY DEF RevokeInv, GuardKeepsDek, HoldsRead
<1>2. QED
  BY <1>1, RevokeCorrect, PTL DEF Spec, KeyOnlyUnlocked
-----------------------------------------------------------------------------
(* Every step of the daemon is a step of the broker, or leaves it alone.   *)
LEMMA StepRefines == DaemonNext => [Next]_vars
<1> SUFFICES ASSUME DaemonNext
             PROVE  Next \/ UNCHANGED vars
  OBVIOUS
<1>1. CASE \E p \in Process : Daemon(p)
  <2>1. Crash \/ UNCHANGED vars
    BY <1>1 DEF Daemon, StartProcess, Probe, Reap, Bind, Terminate, Drained, RemoveSocket, Kill,
                EndOfHome, netVars
  <2>. QED  BY <2>1 DEF Next
<1>2. CASE \E t \in Thread : OverLoopback(t)
  <2>1. PICK t \in Thread : OverLoopback(t)
    BY <1>2
  <2>2. StartSwap(t) \/ UNCHANGED vars
    BY <2>1 DEF OverLoopback, Accept, Connection, CheckDek, IssueLeaf, Close, Connect, Request
  <2>. QED  BY <2>2 DEF Next, Call
<1>3. CASE OverSocket
  <2>1. (\E t \in Thread : Call(t)) \/ UnlockVault \/ LockVault
    BY <1>3 DEF OverSocket, Control, UnlockCall, Call
  <2>. QED  BY <2>1 DEF Next
<1>4. CASE Running
  <2>1. PICK t \in Thread : Work(t)
    BY <1>4 DEF Running
  <2>2. ThreadStep(t) \/ StoreFails(t)
    BY <2>1 DEF Work, MintPolicy, ProxyDecide, ProxyOpenKey, UpstreamAnswers, ProxyHangUp,
                ProxyReturns, ThreadStep
  <2>. QED  BY <2>2 DEF Next
<1>5. CASE StickPulled
  BY <1>5 DEF StickPulled, Next
<1>6. CASE AllDone
  BY <1>6 DEF AllDone, netVars
<1>. QED  BY <1>1, <1>2, <1>3, <1>4, <1>5, <1>6 DEF DaemonNext, Step

(* The daemon, its starts, exits and kills included, implements the broker *)
(* (serve, relay_swap).                                                    *)
THEOREM DaemonIsBroker == DaemonSpec => BrokerSpec
<1>1. DaemonInit => Init
  BY DEF DaemonInit, ProxyInit
<1>2. [DaemonNext]_allVars => [Next]_vars
  BY StepRefines DEF allVars, netVars
<1>. QED  BY <1>1, <1>2, PTL DEF DaemonSpec, BrokerSpec, Spec

(* A swap that begins after a revocation of its bearer has returned never  *)
(* reaches the upstream, through any proxy connection (relay_revoke,       *)
(* relay_swap).                                                            *)
THEOREM DaemonNeverSendsRevoked == DaemonSpec => []RevokedNeverSent
  BY DaemonIsBroker, NeverSentOnceRevoked, PTL DEF BrokerSpec
-----------------------------------------------------------------------------
(* What a decision must have left behind for the key to go where it should.*)

(* There is a scope as soon as there is a policy, or one was found.        *)
HasPolicy == policy # "none" \/ \E t \in Thread : pc[t] = "flipPolicy"
PolicyHasScope == relay \subseteq Scopes /\ (HasPolicy => relay # {})

(* A thread inside a call of the control plane, or of a CONNECT, runs no   *)
(* request; a request in a tunnel is for its target.                       *)
LinkFits ==
    \A t \in Thread :
        /\ link[t] \in {"connect", "cover"} => pc[t] = "idle"
        /\ link[t] = "tunnel" /\ pc[t] # "idle" => host[t] = target[t]

(* A swap past its decision was allowed by a scope that takes its host.    *)
GrantFits ==
    \A t \in Thread : pc[t] \in {"swapKey", "sending"} =>
        \E s \in granted[t] : s \in Scopes /\ InScope(t, s)

NetTypes ==
    /\ pc \in [Thread -> Pc] /\ DOMAIN link = Thread /\ DOMAIN target = Thread
    /\ DOMAIN host = Thread /\ DOMAIN granted = Thread

EgressInv == NetTypes /\ PolicyHasScope /\ LinkFits /\ GrantFits

(* The proxy's table and the engine's agree on whose host it is.           *)
LEMMA TablesAgree ==
    ASSUME NEW h, NEW p \in Provider, h \in Upstreams(p)
    PROVE  p = ProviderForHost(h)
  BY DEF Provider, Upstreams, ProviderForHost

LEMMA EgressImplies == EgressInv => KeyToItsProvider
<1> SUFFICES ASSUME EgressInv, NEW t \in Thread, pc[t] = "sending"
             PROVE  \E s \in granted[t] :
                        /\ host[t] \in s.hosts
                        /\ s.provider = ProviderForHost(host[t])
                        /\ link[t] = "tunnel" => host[t] = target[t]
                        /\ s.mitm => link[t] = "tunnel"
  BY DEF KeyToItsProvider
<1>1. PICK s \in granted[t] : s \in Scopes /\ InScope(t, s)
  BY DEF EgressInv, GrantFits
<1>2. s.provider \in Provider
  BY <1>1, ScopesAssumption
<1>3. s.provider = ProviderForHost(host[t])
  BY <1>1, <1>2, TablesAgree DEF InScope
<1>4. link[t] = "tunnel" => host[t] = target[t]
  BY DEF EgressInv, LinkFits
<1>. QED  BY <1>1, <1>3, <1>4 DEF InScope

LEMMA InitEgress == DaemonInit => EgressInv
<1> SUFFICES ASSUME DaemonInit
             PROVE  EgressInv
  OBVIOUS
<1>1. /\ pc = [t \in Thread |-> "idle"] /\ policy = "none" /\ relay = {}
      /\ link = [t \in Thread |-> "none"] /\ target = [t \in Thread |-> ""]
      /\ host = [t \in Thread |-> ""] /\ granted = [t \in Thread |-> {}]
  BY DEF DaemonInit, ProxyInit, Init
<1>2. NetTypes
  BY <1>1 DEF NetTypes, Pc
<1>3. PolicyHasScope /\ LinkFits /\ GrantFits
  BY <1>1 DEF PolicyHasScope, HasPolicy, LinkFits, GrantFits
<1>. QED  BY <1>2, <1>3 DEF EgressInv

(* A step of the broker that leaves the proxy alone and takes no swap past *)
(* its decision, nor any thread out of idle but one without a link.        *)
LEMMA QuietStep ==
    ASSUME EgressInv, pc' \in [Thread -> Pc], UNCHANGED proxyVars,
           HasPolicy' => HasPolicy,
           \A t \in Thread : \/ pc'[t] = pc[t]
                             \/ /\ pc'[t] \notin {"swapKey", "sending"}
                                /\ pc[t] # "idle" \/ link[t] = "none"
                             \/ pc[t] = "swapKey" /\ pc'[t] = "sending"
    PROVE  EgressInv'
<1>1. PolicyHasScope'
  BY DEF EgressInv, PolicyHasScope, proxyVars
<1>2. LinkFits'
  BY DEF EgressInv, LinkFits, proxyVars
<1>3. GrantFits'
  BY DEF EgressInv, GrantFits, InScope, proxyVars
<1>. QED  BY <1>1, <1>2, <1>3 DEF EgressInv, NetTypes, proxyVars

LEMMA EndEgress == ASSUME EgressInv, EndOfHome PROVE EgressInv'
  BY DEF EndOfHome, Crash, EgressInv, NetTypes, PolicyHasScope, HasPolicy, LinkFits, GrantFits, Pc, durable

LEMMA ConnectionEgress ==
    ASSUME EgressInv, NEW t \in Thread, Accept(t) \/ Connection(t) \/ Request(t)
    PROVE  EgressInv'
<1>1. CASE Accept(t) \/ Connection(t)
  <2>1. UNCHANGED <<pc, policy, relay, host, granted>> /\ pc[t] = "idle"
    BY <1>1 DEF Accept, Connection, CheckDek, IssueLeaf, Close, Connect, vars, durable, EgressInv, LinkFits
  <2>2. \A c \in Thread \ {t} : link'[c] = link[c] /\ target'[c] = target[c]
    BY <1>1 DEF Accept, Connection, CheckDek, IssueLeaf, Close, Connect, SetLink, EgressInv, NetTypes
  <2>3. DOMAIN link' = Thread /\ DOMAIN target' = Thread
    BY <1>1 DEF Accept, Connection, CheckDek, IssueLeaf, Close, Connect, SetLink, EgressInv, NetTypes
  <2>4. LinkFits'
    BY <2>1, <2>2 DEF EgressInv, LinkFits
  <2>5. GrantFits'
    BY <2>1, <2>2 DEF EgressInv, GrantFits, InScope
  <2>. QED  BY <2>1, <2>3, <2>4, <2>5 DEF EgressInv, NetTypes, PolicyHasScope, HasPolicy
<1>2. CASE Request(t)
  <2>1. /\ UNCHANGED <<policy, relay, link, target, granted>>
        /\ pc[t] = "idle" /\ link[t] \in {"plain", "tunnel"}
        /\ pc' = [pc EXCEPT ![t] = pc'[t]] /\ pc'[t] \in {"swapRow", "swapAudit"}
        /\ \A c \in Thread \ {t} : host'[c] = host[c]
        /\ DOMAIN host' = Thread
        /\ link[t] = "tunnel" => host'[t] = target[t]
    BY <1>2 DEF Request, StartSwap, Start, Goto, durable, EgressInv, NetTypes
  <2>2. pc' \in [Thread -> Pc] /\ \A c \in Thread \ {t} : pc'[c] = pc[c]
    BY <2>1 DEF EgressInv, NetTypes, Pc
  <2>3. LinkFits'
    BY <2>1, <2>2 DEF EgressInv, LinkFits
  <2>4. GrantFits'
    BY <2>1, <2>2 DEF EgressInv, GrantFits, InScope
  <2>. QED  BY <2>1, <2>2, <2>3, <2>4 DEF EgressInv, NetTypes, PolicyHasScope, HasPolicy
<1>. QED  BY <1>1, <1>2

LEMMA ControlEgress ==
    ASSUME EgressInv, NEW t \in Thread, Control(t)
    PROVE  EgressInv'
<1>1. /\ UNCHANGED proxyVars /\ policy' = policy
      /\ pc[t] = "idle" /\ link[t] = "none"
      /\ pc' = [pc EXCEPT ![t] = pc'[t]]
      /\ pc'[t] \in {"idle", "mintPolicy", "loadPolicy", "loadRow"}
  BY DEF Control, StartMint, StartRevoke, StartRevokeBearer, Start, Goto, durable, EgressInv, NetTypes
<1>2. pc' \in [Thread -> Pc] /\ \A c \in Thread \ {t} : pc'[c] = pc[c]
  BY <1>1 DEF EgressInv, NetTypes, Pc
<1>3. HasPolicy' => HasPolicy
  BY <1>1, <1>2 DEF HasPolicy
<1>. QED  BY <1>1, <1>2, <1>3, QuietStep

(* Steps that neither mint, decide nor answer.                             *)
LEMMA PlainWorkEgress ==
    ASSUME EgressInv, NEW t \in Thread, UNCHANGED proxyVars,
           \/ SaveBearer(t) \/ LoadPolicy(t) \/ FlipPolicy(t) \/ ListRows(t) \/ LoadRow(t)
           \/ Reseal(t) \/ PutRow(t) \/ RevokeReturns(t) \/ ReadRow(t) \/ StoreFails(t) \/ Sent(t)
    PROVE  EgressInv'
<1>1. /\ pc[t] # "idle"
      /\ pc' = [pc EXCEPT ![t] = pc'[t]]
      /\ pc'[t] \in Pc \ {"swapKey", "sending"}
  BY DEF SaveBearer, LoadPolicy, FlipPolicy, ListRows, LoadRow, Reseal, PutRow, RevokeReturns,
         ReadRow, StoreFails, Sent, Goto, Pc, EgressInv, NetTypes
<1>2. pc' \in [Thread -> Pc] /\ \A c \in Thread \ {t} : pc'[c] = pc[c]
  BY <1>1 DEF EgressInv, NetTypes
<1>3. \/ policy' = policy /\ (pc'[t] = "flipPolicy" => policy # "none")
      \/ pc[t] = "flipPolicy" /\ pc'[t] # "flipPolicy"
  BY DEF SaveBearer, LoadPolicy, FlipPolicy, ListRows, LoadRow, Reseal, PutRow, RevokeReturns,
         ReadRow, StoreFails, Sent, Goto, durable, EgressInv, NetTypes
<1>4. HasPolicy' => HasPolicy
  BY <1>2, <1>3 DEF HasPolicy
<1>. QED  BY <1>1, <1>2, <1>4, QuietStep

LEMMA MintEgress ==
    ASSUME EgressInv, NEW t \in Thread, MintPolicy(t)
    PROVE  EgressInv'
<1>1. /\ relay' \subseteq Scopes /\ relay' # {}
      /\ UNCHANGED <<link, target, host, granted>>
      /\ pc[t] # "idle" /\ pc' = [pc EXCEPT ![t] = "mintBearer"]
  BY DEF MintPolicy, SavePolicy, Goto
<1>2. pc' \in [Thread -> Pc]
  BY <1>1 DEF EgressInv, NetTypes, Pc
<1>3. PolicyHasScope'
  BY <1>1 DEF PolicyHasScope
<1>4. LinkFits' /\ GrantFits'
  BY <1>1 DEF EgressInv, NetTypes, LinkFits, GrantFits, InScope
<1>. QED  BY <1>1, <1>2, <1>3, <1>4 DEF EgressInv, NetTypes

LEMMA DecideEgress ==
    ASSUME EgressInv, NEW t \in Thread, ProxyDecide(t)
    PROVE  EgressInv'
<1>1. UNCHANGED <<policy, relay, link, target, host>> /\ pc[t] = "swapDecide"
  BY DEF ProxyDecide, Decide, durable
<1>2. CASE pc'[t] = "swapAudit" /\ UNCHANGED granted
  <2>2. pc' = [pc EXCEPT ![t] = "swapAudit"]
    BY <1>2 DEF ProxyDecide, Decide, Goto, EgressInv, NetTypes
  <2>3. pc' \in [Thread -> Pc] /\ \A c \in Thread \ {t} : pc'[c] = pc[c]
    BY <2>2 DEF EgressInv, NetTypes, Pc
  <2>4. LinkFits' /\ GrantFits'
    BY <1>1, <1>2, <2>3 DEF EgressInv, LinkFits, GrantFits, InScope
  <2>5. PolicyHasScope'
    BY <1>1, <1>2, <2>3 DEF EgressInv, PolicyHasScope, HasPolicy
  <2>. QED  BY <1>1, <1>2, <2>3, <2>4, <2>5 DEF EgressInv, NetTypes
<1>3. CASE /\ pc'[t] = "swapKey"
           /\ \A s \in relay : InScope(t, s)
           /\ granted' = [granted EXCEPT ![t] = relay]
  <2>1. pc' = [pc EXCEPT ![t] = "swapKey"] /\ policy = "active"
    BY <1>3 DEF ProxyDecide, Decide, Goto, Allowed, EgressInv, NetTypes
  <2>2. pc' \in [Thread -> Pc] /\ \A c \in Thread \ {t} : pc'[c] = pc[c]
    BY <2>1 DEF EgressInv, NetTypes, Pc
  <2>3. granted'[t] = relay /\ \A c \in Thread \ {t} : granted'[c] = granted[c]
    BY <1>3 DEF EgressInv, NetTypes
  <2>4. \E s \in relay : s \in Scopes /\ InScope(t, s)
    BY <1>3, <2>1 DEF EgressInv, PolicyHasScope, HasPolicy
  <2>5. \A c \in Thread, s \in Scopes : InScope(c, s)' <=> InScope(c, s)
    BY <1>1 DEF InScope
  <2>6. GrantFits'
    BY <2>2, <2>3, <2>4, <2>5 DEF EgressInv, GrantFits
  <2>7. LinkFits'
    BY <1>1, <2>2 DEF EgressInv, LinkFits
  <2>8. PolicyHasScope'
    BY <1>1, <2>1, <2>2 DEF EgressInv, PolicyHasScope, HasPolicy
  <2>. QED  BY <1>1, <1>3, <2>2, <2>6, <2>7, <2>8 DEF EgressInv, NetTypes
<1>. QED  BY <1>2, <1>3 DEF ProxyDecide

(* The swap ends, its connection with it or not.                           *)
LEMMA AnswerEgress ==
    ASSUME EgressInv, NEW t \in Thread, ProxyHangUp(t) \/ ProxyReturns(t)
    PROVE  EgressInv'
<1>1. /\ pc' = [pc EXCEPT ![t] = "idle"] /\ UNCHANGED <<policy, relay>>
      /\ DOMAIN host' = Thread /\ DOMAIN granted' = Thread
      /\ DOMAIN link' = Thread /\ DOMAIN target' = Thread
      /\ \A c \in Thread \ {t} : /\ link'[c] = link[c] /\ target'[c] = target[c]
                                 /\ host'[c] = host[c] /\ granted'[c] = granted[c]
      /\ pc[t] # "idle" /\ (link'[t] = link[t] \/ link'[t] = "none")
  BY DEF ProxyHangUp, ProxyReturns, HangUp, SwapReturns, Goto, SetLink, Answered, durable,
         EgressInv, NetTypes
<1>2. pc' \in [Thread -> Pc] /\ pc'[t] = "idle" /\ \A c \in Thread \ {t} : pc'[c] = pc[c]
  BY <1>1 DEF EgressInv, NetTypes, Pc
<1>3. LinkFits' /\ GrantFits'
  BY <1>1, <1>2 DEF EgressInv, LinkFits, GrantFits, InScope
<1>4. PolicyHasScope'
  BY <1>1, <1>2 DEF EgressInv, PolicyHasScope, HasPolicy
<1>. QED  BY <1>1, <1>2, <1>3, <1>4 DEF EgressInv, NetTypes

LEMMA OpenKeyEgress ==
    ASSUME EgressInv, NEW t \in Thread, ProxyOpenKey(t)
    PROVE  EgressInv'
<1>1. /\ UNCHANGED <<proxyVars, policy>> /\ pc[t] = "swapKey"
      /\ pc' = [pc EXCEPT ![t] = "sending"]
  BY DEF ProxyOpenKey, OpenKey, Goto, durable
<1>2. pc' \in [Thread -> Pc] /\ pc'[t] = "sending" /\ \A c \in Thread \ {t} : pc'[c] = pc[c]
  BY <1>1 DEF EgressInv, NetTypes, Pc
<1>3. HasPolicy' => HasPolicy
  BY <1>1, <1>2 DEF HasPolicy
<1>. QED  BY <1>1, <1>2, <1>3, QuietStep

LEMMA NextEgress == EgressInv /\ [DaemonNext]_allVars => EgressInv'
<1> SUFFICES ASSUME EgressInv, [DaemonNext]_allVars
             PROVE  EgressInv'
  OBVIOUS
<1>1. ASSUME UNCHANGED netVars PROVE EgressInv'
  BY <1>1 DEF netVars, vars, durable, proxyVars, EgressInv, NetTypes, PolicyHasScope, HasPolicy,
              LinkFits, GrantFits, InScope
<1>2. ASSUME UNCHANGED proxyVars, UnlockVault \/ LockVault \/ Presence PROVE EgressInv'
  BY <1>2 DEF UnlockVault, LockVault, Presence, durable, proxyVars, EgressInv, NetTypes,
              PolicyHasScope, HasPolicy, LinkFits, GrantFits, InScope
<1>3. CASE \E p \in Process : Daemon(p)
  <2>1. EndOfHome \/ UNCHANGED netVars
    BY <1>3 DEF Daemon, StartProcess, Probe, Reap, Bind, Terminate, Drained, RemoveSocket, Kill
  <2>. QED  BY <2>1, <1>1, EndEgress
<1>4. CASE \E t \in Thread : OverLoopback(t)
  BY <1>4, ConnectionEgress DEF OverLoopback
<1>5. CASE OverSocket
  <2>1. CASE \E t \in Thread : Control(t)
    BY <2>1, ControlEgress
  <2>2. CASE UnlockCall
    BY <2>2 DEF UnlockCall, UnlockVault, durable, EgressInv, NetTypes, PolicyHasScope, HasPolicy,
                LinkFits, GrantFits, InScope
  <2>. QED  BY <1>5, <1>2, <2>1, <2>2 DEF OverSocket
<1>6. CASE Running
  <2>1. PICK t \in Thread : Work(t)
    BY <1>6 DEF Running
  <2>. QED  BY <2>1, PlainWorkEgress, MintEgress, DecideEgress, OpenKeyEgress, AnswerEgress
            DEF Work, UpstreamAnswers
<1>7. CASE StickPulled
  BY <1>7, <1>2 DEF StickPulled
<1>8. CASE AllDone
  BY <1>8, <1>1 DEF AllDone
<1>9. CASE UNCHANGED allVars
  BY <1>9, <1>1 DEF allVars
<1>. QED  BY <1>3, <1>4, <1>5, <1>6, <1>7, <1>8, <1>9 DEF DaemonNext, Step

(* A real key leaves only for a host of the policy that allowed it and in  *)
(* the header of its provider, for every policy anyone mints (decide,      *)
(* relay_swap, provider_for_host).                                         *)
THEOREM KeyGoesToItsProvider == DaemonSpec => []KeyToItsProvider
<1>1. DaemonInit => EgressInv
  BY InitEgress
<1>2. EgressInv /\ [DaemonNext]_allVars => EgressInv'
  BY NextEgress
<1>3. EgressInv => KeyToItsProvider
  BY EgressImplies
<1>. QED  BY <1>1, <1>2, <1>3, PTL DEF DaemonSpec
-----------------------------------------------------------------------------
(* Why a CONNECT could get no certificate is forgotten only when the       *)
(* reason is gone: an unlocked vault has no locked reason, a covered       *)
(* target no uncovered one, and whoever is past a check has not its reason.*)
BarredFits ==
    \A t \in Thread :
        /\ barred[t] \subseteq {"locked", "uncovered"}
        /\ vault = "Unlocked" \/ link[t] = "cover" => "locked" \notin barred[t]
        /\ Covers(target[t]) => "uncovered" \notin barred[t]
        /\ link[t] = "tunnel" => barred[t] = {}
LinkTypes == DOMAIN link = Thread /\ DOMAIN target = Thread /\ DOMAIN barred = Thread
LeafInv == LinkTypes /\ BarredFits

(* What a step of the broker leaves LeafInv at: the vault does not become  *)
(* unlocked, and the policy not active.                                    *)
LEMMA QuietLeaf ==
    ASSUME LeafInv, UNCHANGED <<relay, link, target, barred>>,
           vault' = "Unlocked" => vault = "Unlocked", policy' = "active" => policy = "active"
    PROVE  LeafInv'
<1>1. \A t \in Thread : Covers(target[t])' => Covers(target[t])
  BY DEF Covers
<1>. QED  BY <1>1 DEF LeafInv, LinkTypes, BarredFits

(* A connection that ends forgets its target; one that goes on keeps it.   *)
LEMMA SetLinkLeaf ==
    ASSUME LeafInv, NEW t \in Thread, NEW kind, SetLink(t, kind), UNCHANGED <<vault, policy, relay>>,
           kind = "cover" => "locked" \notin barred[t],
           kind = "tunnel" => barred[t] = {}
    PROVE  LeafInv'
<1>1. LinkTypes'
  BY DEF SetLink, LeafInv, LinkTypes
<1>2. ASSUME NEW c \in Thread \ {t}
      PROVE  link'[c] = link[c] /\ target'[c] = target[c] /\ barred'[c] = barred[c]
  BY DEF SetLink, LeafInv, LinkTypes
<1>3. CASE kind \in {"none", "plain"}
  <2>1. link'[t] = kind /\ barred'[t] = {}
    BY <1>3 DEF SetLink, LeafInv, LinkTypes
  <2>. QED  BY <1>1, <1>2, <1>3, <2>1 DEF LeafInv, BarredFits, Covers
<1>4. CASE kind \notin {"none", "plain"}
  <2>1. link'[t] = kind /\ barred'[t] = barred[t] /\ target'[t] = target[t]
    BY <1>4 DEF SetLink, LeafInv, LinkTypes
  <2>. QED  BY <1>1, <1>2, <2>1 DEF LeafInv, BarredFits, Covers
<1>. QED  BY <1>3, <1>4

LEMMA ConnectionLeaf ==
    ASSUME LeafInv, NEW t \in Thread, Accept(t) \/ Connection(t)
    PROVE  LeafInv'
<1>1. UNCHANGED <<vault, policy, relay>>
  BY DEF Accept, Connection, CheckDek, IssueLeaf, Close, Connect, vars, durable
<1>2. CASE Accept(t) \/ Close(t)
  BY <1>1, <1>2, SetLinkLeaf DEF Accept, Close
<1>3. CASE CheckDek(t)
  <2>1. CASE vault = "Unlocked"
    <3>1. "locked" \notin barred[t] /\ SetLink(t, "cover")
      BY <1>3, <2>1 DEF CheckDek, LeafInv, BarredFits
    <3>. QED  BY <1>1, <3>1, SetLinkLeaf
  <2>2. CASE vault # "Unlocked"
    <3>1. SetLink(t, "plain")
      BY <1>3, <2>2 DEF CheckDek
    <3>. QED  BY <1>1, <3>1, SetLinkLeaf
  <2>. QED  BY <2>1, <2>2
<1>4. CASE IssueLeaf(t)
  <2>1. CASE SetLink(t, "plain") \/ SetLink(t, "none")
    BY <1>1, <2>1, SetLinkLeaf
  <2>2. CASE Covers(target[t]) /\ SetLink(t, "tunnel")
    <3>1. barred[t] = {}
      BY <1>4, <2>2 DEF IssueLeaf, LeafInv, BarredFits
    <3>. QED  BY <1>1, <2>2, <3>1, SetLinkLeaf
  <2>. QED  BY <1>4, <2>1, <2>2 DEF IssueLeaf
<1>5. ASSUME NEW h \in Host, Connect(t, h)
      PROVE  LeafInv'
  <2>1. LinkTypes'
    BY <1>5 DEF Connect, LeafInv, LinkTypes
  <2>2. ASSUME NEW c \in Thread \ {t}
        PROVE  link'[c] = link[c] /\ target'[c] = target[c] /\ barred'[c] = barred[c]
    BY <1>5 DEF Connect, LeafInv, LinkTypes
  <2>3. /\ link'[t] = "connect" /\ target'[t] = h
        /\ barred'[t] = (IF vault = "Locked" THEN {"locked"} ELSE {})
                           \cup (IF Covers(h) THEN {} ELSE {"uncovered"})
    BY <1>5 DEF Connect, LeafInv, LinkTypes
  <2>4. Covers(h)' <=> Covers(h)
    BY <1>1 DEF Covers
  <2>. QED  BY <1>1, <2>1, <2>2, <2>3, <2>4 DEF LeafInv, BarredFits, Covers
<1>. QED  BY <1>2, <1>3, <1>4, <1>5 DEF Connection

(* A mint lifts the reason of every target its scope covers.               *)
LEMMA MintLeaf ==
    ASSUME LeafInv, NEW t \in Thread, MintPolicy(t)
    PROVE  LeafInv'
<1>1. PICK s \in Scopes :
        /\ relay' = {s}
        /\ barred' = [c \in Thread |-> IF Covered(c, s) THEN barred[c] \ {"uncovered"} ELSE barred[c]]
  BY DEF MintPolicy
<1>2. UNCHANGED <<vault, link, target>>
  BY DEF MintPolicy, SavePolicy
<1>3. \A c \in Thread : Covers(target[c])' => Covered(c, s)
  BY <1>1, <1>2 DEF Covers, Covered
<1>4. \A c \in Thread : /\ barred'[c] \subseteq barred[c]
                        /\ Covered(c, s) => "uncovered" \notin barred'[c]
  BY <1>1
<1>5. LinkTypes'
  BY <1>1, <1>2 DEF LeafInv, LinkTypes
<1>. QED  BY <1>2, <1>3, <1>4, <1>5 DEF LeafInv, BarredFits

(* An unlock lifts the reason of every connection.                         *)
LEMMA UnlockLeaf == ASSUME LeafInv, UnlockCall PROVE LeafInv'
<1>1. \A c \in Thread : barred'[c] \subseteq barred[c] /\ "locked" \notin barred'[c]
  BY DEF UnlockCall
<1>2. UNCHANGED <<policy, relay, link, target>> /\ DOMAIN barred' = Thread
  BY DEF UnlockCall, UnlockVault, durable
<1>. QED  BY <1>1, <1>2 DEF LeafInv, LinkTypes, BarredFits, Covers

(* A step of a swap or of a revocation.                                    *)
LEMMA WorkLeaf ==
    ASSUME LeafInv, NEW t \in Thread, Work(t)
    PROVE  LeafInv'
<1>1. CASE MintPolicy(t)
  BY <1>1, MintLeaf
<1>2. CASE ProxyHangUp(t)
  <2>1. SetLink(t, "none") /\ UNCHANGED <<vault, policy, relay>>
    BY <1>2 DEF ProxyHangUp, HangUp, durable
  <2>. QED  BY <2>1, SetLinkLeaf
<1>3. CASE \/ /\ \/ SaveBearer(t) \/ LoadPolicy(t) \/ FlipPolicy(t) \/ ListRows(t) \/ LoadRow(t)
                 \/ Reseal(t) \/ PutRow(t) \/ RevokeReturns(t) \/ ReadRow(t) \/ StoreFails(t)
              /\ UNCHANGED proxyVars
           \/ ProxyDecide(t) \/ ProxyOpenKey(t) \/ UpstreamAnswers(t) \/ ProxyReturns(t)
  <2>1. vault' = vault /\ (policy' = policy \/ policy' = "revoked")
    BY <1>3 DEF SaveBearer, LoadPolicy, FlipPolicy, ListRows, LoadRow, Reseal, PutRow, RevokeReturns,
                ReadRow, StoreFails, ProxyDecide, Decide, ProxyOpenKey, OpenKey, UpstreamAnswers, Sent,
                ProxyReturns, SwapReturns, durable
  <2>2. UNCHANGED <<relay, link, target, barred>> \/ UNCHANGED proxyVars
    BY <1>3 DEF ProxyDecide, ProxyOpenKey, UpstreamAnswers, ProxyReturns
  <2>. QED  BY <2>1, <2>2, QuietLeaf DEF proxyVars
<1>. QED  BY <1>1, <1>2, <1>3 DEF Work

LEMMA EndLeaf == ASSUME LeafInv, EndOfHome PROVE LeafInv'
<1>1. \A t \in Thread : link'[t] = "none" /\ barred'[t] = {}
  BY DEF EndOfHome
<1>2. LinkTypes'
  BY DEF EndOfHome, LinkTypes
<1>. QED  BY <1>1, <1>2 DEF LeafInv, BarredFits

LEMMA NextLeaf == LeafInv /\ [DaemonNext]_allVars => LeafInv'
<1> SUFFICES ASSUME LeafInv, [DaemonNext]_allVars
             PROVE  LeafInv'
  OBVIOUS
<1>1. ASSUME UNCHANGED netVars PROVE LeafInv'
  BY <1>1, QuietLeaf DEF netVars, vars, durable, proxyVars
<1>2. CASE \E p \in Process : Daemon(p)
  <2>1. EndOfHome \/ UNCHANGED netVars
    BY <1>2 DEF Daemon, StartProcess, Probe, Reap, Bind, Terminate, Drained, RemoveSocket, Kill
  <2>. QED  BY <2>1, <1>1, EndLeaf
<1>3. CASE \E t \in Thread : OverLoopback(t)
  <2>1. ASSUME NEW t \in Thread, Request(t)
        PROVE  LeafInv'
    <3>1. UNCHANGED <<relay, link, target, barred, vault, policy>>
      BY <2>1 DEF Request, StartSwap, Start, durable
    <3>. QED  BY <3>1, QuietLeaf
  <2>. QED  BY <1>3, <2>1, ConnectionLeaf DEF OverLoopback
<1>4. CASE OverSocket
  <2>1. ASSUME NEW t \in Thread, Control(t)
        PROVE  LeafInv'
    <3>1. UNCHANGED <<relay, link, target, barred, vault, policy>>
      BY <2>1 DEF Control, StartMint, StartRevoke, StartRevokeBearer, Start, durable, proxyVars
    <3>. QED  BY <3>1, QuietLeaf
  <2>2. CASE LockVault /\ UNCHANGED proxyVars
    <3>1. UNCHANGED <<relay, link, target, barred, policy>> /\ vault' = "Locked"
      BY <2>2 DEF LockVault, durable, proxyVars
    <3>. QED  BY <3>1, QuietLeaf
  <2>. QED  BY <1>4, <2>1, <2>2, UnlockLeaf DEF OverSocket
<1>5. CASE Running
  BY <1>5, WorkLeaf DEF Running
<1>6. CASE StickPulled
  <2>1. UNCHANGED <<relay, link, target, barred, vault, policy>>
    BY <1>6 DEF StickPulled, Presence, durable, proxyVars
  <2>. QED  BY <2>1, QuietLeaf
<1>7. CASE AllDone
  BY <1>7, <1>1 DEF AllDone
<1>8. CASE UNCHANGED allVars
  BY <1>8, <1>1 DEF allVars
<1>. QED  BY <1>2, <1>3, <1>4, <1>5, <1>6, <1>7, <1>8 DEF DaemonNext, Step

(* No child's TLS is terminated for a CONNECT that came to a locked vault  *)
(* or for an uncovered host, until an unlock or a mint ends the reason,    *)
(* whatever the policies and however many connections                      *)
(* (issue_leaf_for_covered_host, handle_connect).                          *)
THEOREM NoLeafForTheBarred == DaemonSpec => []NoLeafWhenBarred
<1>1. DaemonInit => LeafInv
  BY DEF DaemonInit, ProxyInit, LeafInv, LinkTypes, BarredFits
<1>2. LeafInv /\ [DaemonNext]_allVars => LeafInv'
  BY NextLeaf
<1>3. LeafInv => NoLeafWhenBarred
  BY DEF LeafInv, BarredFits, NoLeafWhenBarred
<1>. QED  BY <1>1, <1>2, <1>3, PTL DEF DaemonSpec
-----------------------------------------------------------------------------
(* The socket: without a race nobody starts while another starts or        *)
(* leaves, so a process about to remove the path removes it from nobody.   *)
SocketInv ==
    ~raced =>
        /\ ~Overlap
        /\ ServerIsReachable
        /\ \A p, q \in Process : stage[p] \in {"reap", "leaving"} => ~Listening(q)
StageInv == DaemonTypeOK /\ SocketInv

(* The types of the stages and of the path; one budget bounds the starts.  *)
LEMMA StepStages ==
    ASSUME TypeOK, DaemonTypeOK, DaemonNext
    PROVE  DaemonTypeOK'
<1>1. CASE \E p \in Process : Daemon(p)
  <2>1. PICK p \in Process : Daemon(p)
    BY <1>1
  <2>2. starts' \in 0 .. MaxCalls
    <3>1. CASE starts' = starts
      BY <3>1 DEF DaemonTypeOK
    <3>2. CASE Budget /\ starts' = starts + 1
      BY <3>2, MaxCallsAssumption DEF DaemonTypeOK, TypeOK, Budget
    <3>. QED  BY <2>1, <3>1, <3>2 DEF Daemon, StartProcess, Probe, Reap, Bind, Terminate, Drained,
                                     RemoveSocket, Kill
  <2>3. stage' \in [Process -> {"down", "probe", "reap", "bind", "serving", "draining", "leaving"}]
    BY <2>1 DEF Daemon, StartProcess, Probe, Reap, Bind, Terminate, Drained, RemoveSocket, Kill, Reach,
                DaemonTypeOK
  <2>4. path' \in Process \cup {"none", "dead"}
    BY <2>1 DEF Daemon, StartProcess, Probe, Reap, Bind, Terminate, Drained, RemoveSocket, Kill,
                DaemonTypeOK
  <2>5. raced' \in BOOLEAN
    BY DEF DaemonNext
  <2>. QED  BY <2>2, <2>3, <2>4, <2>5 DEF DaemonTypeOK
<1>2. CASE UNCHANGED daemonVars
  BY <1>2 DEF daemonVars, DaemonTypeOK, DaemonNext
<1>. QED  BY <1>1, <1>2 DEF DaemonNext, Step, OverLoopback, OverSocket, Running, StickPulled, AllDone

LEMMA SocketStep ==
    ASSUME StageInv, DaemonNext
    PROVE  SocketInv'
<1> SUFFICES ASSUME ~raced, ~Overlap, ~Overlap'
             PROVE  /\ ServerIsReachable'
                    /\ \A p, q \in Process : stage'[p] \in {"reap", "leaving"} => ~Listening(q)'
  BY DEF SocketInv, StageInv, DaemonNext
<1>0. /\ \A p \in Process : Listening(p) => path = p
      /\ \A p, q \in Process : stage[p] \in {"reap", "leaving"} => ~Listening(q)
      /\ DaemonTypeOK
  BY DEF StageInv, SocketInv, ServerIsReachable
<1>1. CASE UNCHANGED daemonVars
  BY <1>0, <1>1 DEF daemonVars, ServerIsReachable, Listening
<1>2. ASSUME NEW p \in Process, Daemon(p)
      PROVE  /\ \A q \in Process : Listening(q)' => path' = q
             /\ \A q, r \in Process : stage'[q] \in {"reap", "leaving"} => ~Listening(r)'
  <2>1. stage' = [stage EXCEPT ![p] = stage'[p]]
    BY <1>0, <1>2 DEF Daemon, StartProcess, Probe, Reap, Bind, Terminate, Drained, RemoveSocket, Kill,
                      Reach, DaemonTypeOK
  <2>2. \A q \in Process \ {p} : stage'[q] = stage[q]
    BY <1>0, <2>1 DEF DaemonTypeOK
  <2>3. CASE StartProcess(p)
    <3>1. stage'[p] = "probe" /\ path' = path
      BY <1>0, <2>3 DEF StartProcess, Reach, DaemonTypeOK
    <3>. QED  BY <1>0, <2>2, <3>1 DEF Listening
  <2>4. CASE Probe(p)
    <3>1. path' = path /\ stage[p] = "probe"
      BY <2>4 DEF Probe
    <3>2. CASE stage'[p] \in {"bind", "down"}
      BY <1>0, <2>2, <3>1, <3>2 DEF Listening
    <3>3. CASE stage'[p] = "reap" /\ (path = "dead" \/ path = "none" \/ ~Listening(path))
      <4>1. \A q \in Process : ~Listening(q)
        BY <1>0, <3>3, ProcessAssumption
      <4>. QED  BY <1>0, <2>2, <3>1, <3>3, <4>1 DEF Listening
    <3>. QED  BY <1>0, <2>4, <3>2, <3>3 DEF Probe, Reach, DaemonTypeOK
  <2>5. CASE Reap(p)
    <3>1. \A q \in Process : ~Listening(q)
      BY <1>0, <2>5 DEF Reap
    <3>2. stage'[p] \in {"down", "bind"}
      BY <1>0, <2>5 DEF Reap, Reach, DaemonTypeOK
    <3>. QED  BY <2>2, <3>1, <3>2 DEF Listening
  <2>6. CASE Bind(p)
    <3>1. CASE path = "none"
      <4>1. \A q \in Process : ~Listening(q)
        BY <1>0, <3>1, ProcessAssumption
      <4>2. stage'[p] = "serving" /\ path' = p
        BY <1>0, <2>6, <3>1 DEF Bind, Reach, DaemonTypeOK
      <4>3. \A q \in Process \ {p} : stage[q] \notin {"reap", "leaving"}
        BY <2>6 DEF Bind, Overlap, Starting, Leaving
      <4>. QED  BY <2>2, <4>1, <4>2, <4>3 DEF Listening
    <3>2. CASE path # "none"
      <4>1. stage'[p] = "down" /\ path' = path
        BY <1>0, <2>6, <3>2 DEF Bind, Reach, DaemonTypeOK
      <4>. QED  BY <1>0, <2>2, <4>1 DEF Listening
    <3>. QED  BY <3>1, <3>2
  <2>7. CASE Terminate(p)
    <3>1. stage[p] = "serving" /\ stage'[p] = "draining" /\ path' = path
      BY <1>0, <2>7 DEF Terminate, Reach, DaemonTypeOK
    <3>. QED  BY <1>0, <2>2, <3>1 DEF Listening
  <2>8. CASE Drained(p)
    <3>1. stage[p] = "draining" /\ stage'[p] = "leaving" /\ path' = path
      BY <1>0, <2>8 DEF Drained, Reach, DaemonTypeOK
    <3>2. \A q \in Process \ {p} : ~Listening(q)
      BY <1>0, <3>1 DEF Listening
    <3>. QED  BY <1>0, <2>2, <3>1, <3>2 DEF Listening
  <2>9. CASE RemoveSocket(p)
    <3>1. \A q \in Process : ~Listening(q)
      BY <1>0, <2>9 DEF RemoveSocket
    <3>2. stage'[p] = "down"
      BY <1>0, <2>9 DEF RemoveSocket, Reach, DaemonTypeOK
    <3>. QED  BY <2>2, <3>1, <3>2 DEF Listening
  <2>10. CASE Kill(p)
    <3>1. stage'[p] = "down" /\ path' = IF path = p THEN "dead" ELSE path
      BY <1>0, <2>10 DEF Kill, Reach, DaemonTypeOK
    <3>. QED  BY <1>0, <2>2, <3>1 DEF Listening
  <2>. QED  BY <1>2, <2>3, <2>4, <2>5, <2>6, <2>7, <2>8, <2>9, <2>10 DEF Daemon
<1>. QED  BY <1>1, <1>2 DEF DaemonNext, Step, OverLoopback, OverSocket, Running, StickPulled, AllDone,
                            ServerIsReachable

(* The types of the daemon's state.                                        *)
THEOREM DaemonTypes == DaemonSpec => []DaemonTypeOK
<1>1. DaemonInit => DaemonTypeOK
  <2> SUFFICES ASSUME DaemonInit
               PROVE  DaemonTypeOK
    OBVIOUS
  <2>1. starts \in 0 .. MaxCalls
    BY MaxCallsAssumption DEF DaemonInit
  <2>3. raced \in BOOLEAN /\ path \in Process \cup {"none", "dead"}
    BY DEF DaemonInit
  <2>2. stage \in [Process -> {"down", "probe", "reap", "bind", "serving", "draining", "leaving"}]
    BY DEF DaemonInit
  <2>. QED  BY <2>1, <2>2, <2>3 DEF DaemonTypeOK
<1>2. TypeOK /\ DaemonTypeOK /\ [DaemonNext]_allVars => DaemonTypeOK'
  BY StepStages DEF allVars, daemonVars, DaemonTypeOK
<1>3. DaemonSpec => []TypeOK
  BY DaemonIsBroker, TypeCorrect, PTL DEF BrokerSpec
<1>. QED  BY <1>1, <1>2, <1>3, PTL DEF DaemonSpec

(* As long as no process starts while another starts or leaves, the one    *)
(* that listens is the one the path names, for any number of processes,    *)
(* exits and kills: an unlocked vault is never out of a caller's reach     *)
(* (bind_uds, serve).                                                      *)
THEOREM TheServerIsReachable == DaemonSpec => []ServerIsReachable
<1>1. DaemonInit => SocketInv
  BY DEF DaemonInit, SocketInv, Overlap, Starting, Listening, ServerIsReachable
<1>2. DaemonTypeOK /\ SocketInv /\ [DaemonNext]_allVars => SocketInv'
  BY SocketStep DEF StageInv, allVars, daemonVars, SocketInv, Overlap, Starting, Leaving, Listening,
                    ServerIsReachable
<1>3. SocketInv => ServerIsReachable
  BY DEF SocketInv, ServerIsReachable
<1>. QED  BY <1>1, <1>2, <1>3, DaemonTypes, PTL DEF DaemonSpec
=============================================================================
