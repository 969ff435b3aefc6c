----------------------------- MODULE RelayBroker -----------------------------
(***************************************************************************)
(* The relay broker of the secrets engine for one relay: minting bearers,  *)
(* revoking the relay or one bearer, and swapping a presented bearer for   *)
(* the real key (secrets-engine/src/lib.rs: mint_bearer_core,              *)
(* relay_revoke, relay_revoke_bearer, relay_swap, relay_swap_prepare).     *)
(*                                                                         *)
(* The store has its own lock, so each store call is one step; the vault   *)
(* guards that span several steps follow from the pc.  A stored row always *)
(* carries a row MAC that matches it, because every writer reseals; what   *)
(* the limits of the policy add to a decision is in RelayLimits.           *)
(***************************************************************************)
EXTENDS Naturals, FiniteSets

CONSTANTS
    Thread,            \* the callers that may be inside the engine at once
    Token,             \* the bearers that can be minted
    Calls,             \* the engine calls they make
    Faults,            \* the faults the environment may inject
    MaxCalls           \* bound: how many calls are ever started

CallNames == {"mint", "revoke", "revokeBearer", "swap", "lock", "unlock"}

ASSUME ThreadAssumption == Thread # {}
ASSUME TokenAssumption == Token # {} /\ IsFiniteSet(Token)
ASSUME CallsAssumption == Calls \subseteq CallNames
ASSUME FaultsAssumption == Faults \subseteq {"crash", "io", "usb"}
ASSUME MaxCallsAssumption == MaxCalls \in Nat

VARIABLES
    vault,             \* Vault::Locked or Vault::Unlocked (memory)
    present,           \* whether the presence factor answers
    policy,            \* the relay's policy row: "none", "active" or "revoked" (durable)
    bearer,            \* each bearer row: "none", "live" or "revoked" (durable)
    pc,                \* where each thread is
    op,                \* the call it is making
    tok,               \* the bearer it minted, revokes or was presented
    row,               \* its copy of that bearer's row
    todo,              \* the live rows a revocation still has to flip
    scope,             \* history: the rows it covers that existed when it began
    dead,              \* history: the bearers covered by a revocation that returned Ok
    doomed,            \* history: whether a swap began with such a bearer
    started            \* how many calls have been started

durable == <<policy, bearer>>
locals == <<op, tok, row, todo, scope, doomed>>
vars == <<vault, present, policy, bearer, pc, op, tok, row, todo, scope, doomed, dead, started>>

Rows(state) == {b \in Token : bearer[b] = state}
Minted == {b \in Token : bearer[b] # "none"}

(* mint and swap keep the vault's read guard from their first look at the  *)
(* DEK to the last use of it.                                              *)
HoldsReadMintOnly(t) == pc[t] \in {"mintPolicy", "mintBearer"}           \* mutant
HoldsRead(t) == pc[t] \in {"mintPolicy", "mintBearer", "swapRow", "swapDecide", "swapKey"}
WriteGuardFree == \A t \in Thread : ~HoldsRead(t)

Init ==
    /\ vault = "Locked"
    /\ present = TRUE
    /\ policy = "none"
    /\ bearer = [b \in Token |-> "none"]
    /\ pc = [t \in Thread |-> "idle"]
    /\ op = [t \in Thread |-> "lock"]
    /\ tok \in [Thread -> Token]
    /\ row = [t \in Thread |-> "none"]
    /\ todo = [t \in Thread |-> {}]
    /\ scope = [t \in Thread |-> {}]
    /\ dead = {}
    /\ doomed = [t \in Thread |-> FALSE]
    /\ started = 0
-----------------------------------------------------------------------------
Goto(t, label) == pc' = [pc EXCEPT ![t] = label]

(* A call begins: its locals are fresh.                                    *)
Start(t, call, b, label) ==
    /\ pc[t] = "idle"
    /\ call \in Calls
    /\ started < MaxCalls
    /\ started' = started + 1
    /\ op' = [op EXCEPT ![t] = call]
    /\ tok' = [tok EXCEPT ![t] = b]
    /\ row' = [row EXCEPT ![t] = "none"]
    /\ todo' = [todo EXCEPT ![t] = {}]
    /\ scope' = [scope EXCEPT ![t] = Minted \cap (IF call = "revoke" THEN Token ELSE {b})]
    /\ doomed' = [doomed EXCEPT ![t] = b \in dead]
    /\ Goto(t, label)
    /\ UNCHANGED <<vault, present, durable, dead>>

(* unlock and lock, as the other calls see them.                           *)
UnlockVault ==
    /\ "unlock" \in Calls
    /\ vault = "Locked"
    /\ WriteGuardFree
    /\ started < MaxCalls
    /\ started' = started + 1
    /\ vault' = "Unlocked"
    /\ UNCHANGED <<present, durable, pc, locals, dead>>

LockVault ==
    /\ "lock" \in Calls
    /\ vault = "Unlocked"
    /\ WriteGuardFree
    /\ started < MaxCalls
    /\ started' = started + 1
    /\ vault' = "Locked"
    /\ UNCHANGED <<present, durable, pc, locals, dead>>
-----------------------------------------------------------------------------
(* mint_bearer_core: the presence gate, the upsert of the policy from the  *)
(* caller's spec (which is not revoked), and the bearer row.               *)
StartMint(t) ==
    /\ vault = "Unlocked"
    /\ \E b \in Rows("none") :
         /\ \A s \in Thread : op[s] = "mint" /\ pc[s] # "idle" => tok[s] # b
         /\ Start(t, "mint", b, IF present THEN "mintPolicy" ELSE "idle")

SavePolicy(t) ==
    /\ pc[t] = "mintPolicy"
    /\ policy' = "active"
    /\ Goto(t, "mintBearer")
    /\ UNCHANGED <<vault, present, bearer, locals, dead, started>>

SaveBearer(t) ==
    /\ pc[t] = "mintBearer"
    /\ bearer' = [bearer EXCEPT ![tok[t]] = "live"]
    /\ Goto(t, "idle")
    /\ UNCHANGED <<vault, present, policy, locals, dead, started>>
-----------------------------------------------------------------------------
(* relay_revoke with apply: flip the policy if there is one, then every    *)
(* bearer row that was live when the rows were listed.                     *)
StartRevoke(t) == \E b \in Token : Start(t, "revoke", b, "loadPolicy")

LoadPolicy(t) ==
    /\ pc[t] = "loadPolicy"
    /\ Goto(t, IF policy = "none" THEN "listRows" ELSE "flipPolicy")
    /\ UNCHANGED <<vault, present, durable, locals, dead, started>>

FlipPolicy(t) ==
    /\ pc[t] = "flipPolicy"
    /\ policy' = "revoked"
    /\ Goto(t, "listRows")
    /\ UNCHANGED <<vault, present, bearer, locals, dead, started>>

ListNothing(t) ==                                                     \* mutant
    /\ pc[t] = "listRows"
    /\ Goto(t, "flipRows")
    /\ UNCHANGED <<vault, present, durable, locals, dead, started>>
ListRows(t) ==
    /\ pc[t] = "listRows"
    /\ todo' = [todo EXCEPT ![t] = Rows("live")]
    /\ Goto(t, "flipRows")
    /\ UNCHANGED <<vault, present, durable, op, tok, row, scope, doomed, dead, started>>

(* relay_revoke_bearer with apply: the same, of one row.                   *)
StartRevokeBearer(t) == \E b \in Token : Start(t, "revokeBearer", b, "loadRow")

LoadRow(t) ==
    /\ pc[t] = "loadRow"
    /\ todo' = [todo EXCEPT ![t] = {tok[t]} \cap Rows("live")]
    /\ Goto(t, "flipRows")
    /\ UNCHANGED <<vault, present, durable, op, tok, row, scope, doomed, dead, started>>

(* reseal_bearer_row needs the DEK: a locked vault ends the call with Err, *)
(* whatever it had already flipped.                                        *)
Reseal(t) ==
    /\ pc[t] = "flipRows"
    /\ \E b \in todo[t] : tok' = [tok EXCEPT ![t] = b]
    /\ Goto(t, IF vault = "Unlocked" THEN "putRow" ELSE "idle")
    /\ UNCHANGED <<vault, present, durable, op, row, todo, scope, doomed, dead, started>>

PutRow(t) ==
    /\ pc[t] = "putRow"
    /\ bearer' = [bearer EXCEPT ![tok[t]] = "revoked"]
    /\ todo' = [todo EXCEPT ![t] = @ \ {tok[t]}]
    /\ Goto(t, "flipRows")
    /\ UNCHANGED <<vault, present, policy, op, tok, row, scope, doomed, dead, started>>

(* Ok(n): from here on no swap may begin to use the rows in scope.         *)
RevokeReturns(t) ==
    /\ pc[t] = "flipRows"
    /\ todo[t] = {}
    /\ dead' = dead \cup scope[t]
    /\ Goto(t, "idle")
    /\ UNCHANGED <<vault, present, durable, locals, started>>
-----------------------------------------------------------------------------
(* relay_swap_prepare under the read guard: the bearer row, the policy and *)
(* the presence gate, the decision, the real key.  A limit of the policy   *)
(* may deny what the rest allows.                                          *)
StartSwap(t) ==
    \E b \in Minted : Start(t, "swap", b, IF vault = "Unlocked" THEN "swapRow" ELSE "swapAudit")

ReadRow(t) ==
    /\ pc[t] = "swapRow"
    /\ row' = [row EXCEPT ![t] = bearer[tok[t]]]
    /\ Goto(t, "swapDecide")
    /\ UNCHANGED <<vault, present, durable, op, tok, todo, scope, doomed, dead, started>>

Allowed(t) == policy = "active" /\ row[t] = "live" /\ present

Decide(t) ==
    /\ pc[t] = "swapDecide"
    /\ \/ Allowed(t) /\ Goto(t, "swapKey")
       \/ Goto(t, "swapAudit")
    /\ UNCHANGED <<vault, present, durable, locals, dead, started>>

OpenKey(t) ==
    /\ pc[t] = "swapKey"
    /\ Goto(t, "sending")
    /\ UNCHANGED <<vault, present, durable, locals, dead, started>>

(* The upstream has answered or failed; either outcome is to be audited.   *)
Sent(t) ==
    /\ pc[t] = "sending"
    /\ Goto(t, "swapAudit")
    /\ UNCHANGED <<vault, present, durable, locals, dead, started>>

(* The caller goes away while the upstream answers: its future is dropped  *)
(* at the await, and nothing after it runs, the audit row included.        *)
HangUp(t) ==
    /\ pc[t] = "sending"
    /\ Goto(t, "idle")
    /\ UNCHANGED <<vault, present, durable, locals, dead, started>>

(* The outcome is returned whether or not its audit row was appended.      *)
SwapReturns(t) ==
    /\ pc[t] = "swapAudit"
    /\ Goto(t, "idle")
    /\ UNCHANGED <<vault, present, durable, locals, dead, started>>
-----------------------------------------------------------------------------
(* A store call fails: the error ends a mint or a revocation, and refuses  *)
(* a swap.                                                                 *)
StoreFails(t) ==
    /\ "io" \in Faults
    /\ pc[t] \in {"mintPolicy", "mintBearer", "loadPolicy", "flipPolicy", "listRows", "loadRow",
                  "flipRows", "putRow", "swapRow", "swapDecide", "swapKey"}
    /\ Goto(t, IF op[t] = "swap" THEN "swapAudit" ELSE "idle")
    /\ UNCHANGED <<vault, present, durable, locals, dead, started>>

Presence ==
    /\ "usb" \in Faults
    /\ present' = ~present
    /\ UNCHANGED <<vault, durable, pc, locals, dead, started>>

Crash ==
    /\ "crash" \in Faults
    /\ vault' = "Locked"
    /\ pc' = [t \in Thread |-> "idle"]
    /\ UNCHANGED <<present, durable, locals, dead, started>>

Finished ==
    /\ started = MaxCalls
    /\ \A t \in Thread : pc[t] = "idle"
    /\ UNCHANGED vars

ThreadStep(t) ==
    \/ SavePolicy(t) \/ SaveBearer(t)
    \/ LoadPolicy(t) \/ FlipPolicy(t) \/ ListRows(t) \/ LoadRow(t)
    \/ Reseal(t) \/ PutRow(t) \/ RevokeReturns(t)
    \/ ReadRow(t) \/ Decide(t) \/ OpenKey(t) \/ Sent(t) \/ HangUp(t) \/ SwapReturns(t)

Call(t) == StartMint(t) \/ StartRevoke(t) \/ StartRevokeBearer(t) \/ StartSwap(t)

Next ==
    \/ \E t \in Thread : ThreadStep(t) \/ Call(t) \/ StoreFails(t)
    \/ UnlockVault
    \/ LockVault
    \/ Presence
    \/ Crash
    \/ Finished

Spec == Init /\ [][Next]_vars
-----------------------------------------------------------------------------
Pc == {"idle", "mintPolicy", "mintBearer", "loadPolicy", "flipPolicy", "listRows", "loadRow",
       "flipRows", "putRow", "swapRow", "swapDecide", "swapKey", "sending", "swapAudit"}

(* Every variable has its type, and a revocation only ever goes on to flip *)
(* rows that were minted.                                                  *)
TypeOK ==
    /\ vault \in {"Locked", "Unlocked"}
    /\ present \in BOOLEAN
    /\ policy \in {"none", "active", "revoked"}
    /\ bearer \in [Token -> {"none", "live", "revoked"}]
    /\ pc \in [Thread -> Pc]
    /\ op \in [Thread -> CallNames]
    /\ tok \in [Thread -> Token]
    /\ row \in [Thread -> {"none", "live", "revoked"}]
    /\ todo \in [Thread -> SUBSET Minted]
    /\ scope \in [Thread -> SUBSET Token]
    /\ dead \subseteq Token
    /\ doomed \in [Thread -> BOOLEAN]
    /\ started \in 0 .. MaxCalls

(* A swap that begins after a revocation of its bearer has returned Ok     *)
(* never reaches the upstream, whatever is minted, locked or lost between. *)
RevokedNeverSent == \A t \in Thread : pc[t] = "sending" => ~doomed[t]

(* The real key is opened only under a live DEK and only for a bearer that *)
(* was live when its row was read.                                         *)
KeyOnlyUnlocked ==
    [][\A t \in Thread : pc[t] = "swapKey" /\ pc'[t] = "sending" => vault = "Unlocked" /\ row[t] = "live"]_vars

Minting(t) == pc[t] \in {"mintPolicy", "mintBearer"}

(* What a finished revocation covered is revoked.                          *)
DeadIsRevoked == dead \subseteq Rows("revoked")

(* What a running revocation has still to flip covers every live row of    *)
(* its scope.                                                              *)
TodoCoversScope ==
    \A t \in Thread :
        /\ scope[t] \subseteq Minted
        /\ pc[t] = "loadRow" => scope[t] \subseteq {tok[t]}
        /\ pc[t] = "putRow" => tok[t] \in todo[t]
        /\ pc[t] \in {"flipRows", "putRow"} => scope[t] \cap Rows("live") \subseteq todo[t]

(* A mint writes a row of its own.                                         *)
MintIsFresh ==
    \A t \in Thread : Minting(t) =>
        /\ op[t] = "mint"
        /\ bearer[tok[t]] = "none"
        /\ \A s \in Thread \ {t} : Minting(s) => tok[s] # tok[t]

(* A swap that began doomed has not got past the decision.                 *)
DoomedIsStopped ==
    \A t \in Thread :
        /\ pc[t] \in {"swapRow", "swapDecide"} /\ doomed[t] => tok[t] \in dead
        /\ pc[t] = "swapDecide" /\ doomed[t] => row[t] = "revoked"
        /\ pc[t] \in {"swapKey", "sending"} => ~doomed[t]

(* The read guard keeps the DEK, and the key is opened for a live row.     *)
GuardKeepsDek ==
    \A t \in Thread :
        /\ HoldsRead(t) => vault = "Unlocked"
        /\ pc[t] = "swapKey" => row[t] = "live"

(* A bearer has a policy.                                                  *)
PolicyBeforeBearer ==
    Minted # {} \/ (\E t \in Thread : pc[t] = "mintBearer") => policy # "none"

(* The inductive invariant behind RevokedNeverSent and KeyOnlyUnlocked     *)
(* (relay_revoke, mint_bearer_core, relay_swap_prepare).                   *)
RevokeInv ==
    /\ PolicyBeforeBearer
    /\ DeadIsRevoked /\ TodoCoversScope
    /\ MintIsFresh /\ DoomedIsStopped /\ GuardKeepsDek
=============================================================================
