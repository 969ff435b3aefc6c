---------------------------- MODULE VaultSession ----------------------------
(***************************************************************************)
(* The resident vault of the secrets engine: the RwLock over the DEK, the  *)
(* in-RAM CA issuer beside it, and the engine calls that take, hold, drop  *)
(* or wait for them - unlock, lock, secret_put, secret_get, ca_init and    *)
(* issue_leaf_for_covered_host (secrets-engine/src/lib.rs) - with the      *)
(* daemon's `unlocked` mirror (secretd/src/grpc.rs).                       *)
(*                                                                         *)
(* Each call runs on a thread of its own.  A call's place is its pc, and   *)
(* the guards it holds follow from that.  CA keys and certificates are     *)
(* named by the generation of the keygen that made them, 0 being absent;   *)
(* secrets other than the CA key carry no state of interest here.          *)
(***************************************************************************)
EXTENDS Naturals

CONSTANTS
    Thread,            \* the callers that may be inside the engine at once
    Calls,             \* the engine calls they make
    Faults,            \* the faults the environment may inject
    MaxCalls           \* bound: how many calls are ever started

CallNames == {"unlock", "lock", "put", "get", "initCa", "leaf"}

ASSUME ThreadAssumption == Thread # {}
ASSUME CallsAssumption == Calls \subseteq CallNames
ASSUME FaultsAssumption == Faults \subseteq {"crash", "io"}
ASSUME MaxCallsAssumption == MaxCalls \in Nat

VARIABLES
    vault,             \* Vault::Locked or Vault::Unlocked (memory)
    ca,                \* the in-RAM issuer: the key and certificate it was built from
    keyGen,            \* generation of the newest sealed __mitm_ca_key row (durable)
    certGen,           \* generation in META_MITM_CA_CERT_DER (durable)
    flag,              \* DaemonState.unlocked (memory)
    pc,                \* where each thread is
    op,                \* the call each thread is making
    after,             \* where the thread goes when the audit it is in returns
    mine,              \* the key and certificate in the thread's hands
    failed,            \* history: a store call failed in this life of the daemon
    overlapped,        \* history: some call began while another was inside the engine
    started            \* how many calls have been started

vars == <<vault, ca, keyGen, certGen, flag, pc, op, after, mine, failed, overlapped, started>>
history == <<overlapped, started>>

NoCa == [key |-> 0, cert |-> 0]

(* The std RwLock over the vault: a reader waits for a writer that holds   *)
(* or already awaits the lock, a writer waits for every guard.             *)
HoldsRead(t) == pc[t] \in {"advanced", "getRow", "leafLocked", "nestedAdvance"}
HoldsWrite(t) == pc[t] = "putting"
WantsWrite(t) == pc[t] \in {"commitWait", "lockWait", "putWait"}
CanRead == \A t \in Thread : ~HoldsWrite(t) /\ ~WantsWrite(t)
CanWrite == \A t \in Thread : ~HoldsRead(t) /\ ~HoldsWrite(t)

(* The RwLock over the issuer; only a refused leaf keeps it for more than  *)
(* one step.                                                               *)
CaFree == \A t \in Thread : pc[t] # "noCaAdvance"

Init ==    \* a vault at rest, with or without a local CA
    /\ vault = "Locked"
    /\ ca = NoCa
    /\ keyGen \in {0, 1}
    /\ certGen = keyGen
    /\ flag = FALSE
    /\ pc = [t \in Thread |-> "idle"]
    /\ op = [t \in Thread |-> "lock"]
    /\ after = [t \in Thread |-> "idle"]
    /\ mine = [t \in Thread |-> NoCa]
    /\ failed = FALSE
    /\ overlapped = FALSE
    /\ started = 0
-----------------------------------------------------------------------------
Goto(t, label) == pc' = [pc EXCEPT ![t] = label]
Memory == <<vault, ca, flag>>
Durable == <<keyGen, certGen>>

Start(t, call, label) ==
    /\ pc[t] = "idle"
    /\ call \in Calls
    /\ started < MaxCalls
    /\ started' = started + 1
    /\ overlapped' = (overlapped \/ \E other \in Thread : pc[other] # "idle")
    /\ op' = [op EXCEPT ![t] = call]
    /\ Goto(t, label)
    /\ UNCHANGED <<Memory, Durable, after, failed>>

(* Engine::audit: the row is appended, then the anchor is advanced under   *)
(* the vault's read guard if the DEK is resident.                          *)
Audit(t, label) ==
    /\ Goto(t, "advance")
    /\ after' = [after EXCEPT ![t] = label]

Advance(t) ==
    /\ pc[t] = "advance"
    /\ CanRead
    /\ Goto(t, IF vault = "Unlocked" THEN "advanced" ELSE after[t])
    /\ UNCHANGED <<Memory, Durable, op, after, mine, failed, history>>

AdvanceReturns(t) ==
    /\ pc[t] = "advanced"
    /\ Goto(t, after[t])
    /\ UNCHANGED <<Memory, Durable, op, after, mine, failed, history>>
-----------------------------------------------------------------------------
(* Engine::unlock; a live vault answers Ok at once.                        *)
StartUnlock(t) ==
    /\ CanRead
    /\ Start(t, "unlock", IF vault = "Unlocked" THEN "unlockOk" ELSE "verify")
    /\ UNCHANGED mine

(* The factor probe and the header, generation and anchor checks; either   *)
(* verdict is audited.                                                     *)
Verify(t) ==
    /\ pc[t] = "verify"
    /\ \E passed \in BOOLEAN : Audit(t, IF passed THEN "commitWait" ELSE "idle")
    /\ UNCHANGED <<Memory, Durable, op, mine, failed, history>>

CommitUnlock(t) ==
    /\ pc[t] = "commitWait"
    /\ CanWrite
    /\ vault' = "Unlocked"
    /\ Audit(t, "rebuild")
    /\ UNCHANGED <<ca, flag, Durable, op, mine, failed, history>>

(* rebuild_ca_if_initialized reads the certificate without a guard, opens  *)
(* the key under a fresh read guard, and stores the issuer after it.       *)
ReadCert(t) ==
    /\ pc[t] = "rebuild"
    /\ mine' = [mine EXCEPT ![t].cert = certGen]
    /\ Goto(t, IF certGen = 0 THEN "unlockOk" ELSE "openKey")
    /\ UNCHANGED <<Memory, Durable, op, after, failed, history>>

OpenKey(t) ==
    /\ pc[t] = "openKey"
    /\ CanRead
    /\ mine' = [mine EXCEPT ![t].key = keyGen]
    /\ IF vault = "Unlocked" /\ keyGen = 0
         THEN Audit(t, "unlockOk")
         ELSE Goto(t, IF vault = "Locked" THEN "idle" ELSE "setCa") /\ UNCHANGED after
    /\ UNCHANGED <<Memory, Durable, op, failed, history>>

(* Both builders of the issuer end here; ca_init audits afterwards.        *)
SetCa(t) ==
    /\ pc[t] = "setCa"
    /\ CaFree
    /\ ca' = mine[t]
    /\ IF op[t] = "unlock"
         THEN Goto(t, "unlockOk") /\ UNCHANGED after
         ELSE Audit(t, "idle")
    /\ UNCHANGED <<vault, flag, Durable, op, mine, failed, history>>

(* The daemon stores its mirror once the engine call has returned Ok.      *)
MirrorUnlock(t) ==
    /\ pc[t] = "unlockOk"
    /\ flag' = TRUE
    /\ Goto(t, "idle")
    /\ UNCHANGED <<vault, ca, Durable, op, after, mine, failed, history>>
-----------------------------------------------------------------------------
StartLock(t) == Start(t, "lock", "lockWait") /\ UNCHANGED mine

DropDekEarlyReturn(t) ==                                              \* mutant
    /\ pc[t] = "lockWait"
    /\ CanWrite
    /\ vault' = "Locked"
    /\ Goto(t, IF vault = "Locked" THEN "idle" ELSE "dropCa")
    /\ UNCHANGED <<ca, flag, Durable, op, after, mine, failed, history>>
DropDek(t) ==
    /\ pc[t] = "lockWait"
    /\ CanWrite
    /\ vault' = "Locked"
    /\ Goto(t, "dropCa")
    /\ UNCHANGED <<ca, flag, Durable, op, after, mine, failed, history>>

DropCaKept(t) ==                                                      \* mutant
    /\ pc[t] = "dropCa"
    /\ CaFree
    /\ Audit(t, "lockOk")
    /\ UNCHANGED <<vault, ca, flag, Durable, op, mine, failed, history>>
DropCa(t) ==
    /\ pc[t] = "dropCa"
    /\ CaFree
    /\ ca' = NoCa
    /\ Audit(t, "lockOk")
    /\ UNCHANGED <<vault, flag, Durable, op, mine, failed, history>>

MirrorLock(t) ==
    /\ pc[t] = "lockOk"
    /\ flag' = FALSE
    /\ Goto(t, "idle")
    /\ UNCHANGED <<vault, ca, Durable, op, after, mine, failed, history>>
-----------------------------------------------------------------------------
(* secret_put holds the write guard from the reserved id to the insert.    *)
StartPut(t) == Start(t, "put", "putWait") /\ UNCHANGED mine

BeginPutUnchecked(t) ==                                               \* mutant
    /\ pc[t] = "putWait"
    /\ CanWrite
    /\ Goto(t, "putting")
    /\ UNCHANGED <<Memory, Durable, op, after, mine, failed, history>>
BeginPut(t) ==
    /\ pc[t] = "putWait"
    /\ CanWrite
    /\ Goto(t, IF vault = "Unlocked" THEN "putting" ELSE "idle")
    /\ UNCHANGED <<Memory, Durable, op, after, mine, failed, history>>

EndPut(t) ==
    /\ pc[t] = "putting"
    /\ keyGen' = IF op[t] = "initCa" THEN mine[t].key ELSE keyGen
    /\ Audit(t, IF op[t] = "initCa" THEN "putCert" ELSE "idle")
    /\ UNCHANGED <<Memory, certGen, op, mine, failed, history>>

(* secret_get holds a read guard over the row read and the open.           *)
StartGet(t) ==
    /\ CanRead
    /\ vault = "Unlocked"
    /\ Start(t, "get", "getRow")
    /\ UNCHANGED mine

EndGet(t) ==
    /\ pc[t] = "getRow"
    /\ Audit(t, "idle")
    /\ UNCHANGED <<Memory, Durable, op, mine, failed, history>>
-----------------------------------------------------------------------------
(* ca_init: the guard is dropped after the check; the key, the certificate *)
(* and the issuer follow one by one.  A fresh generation names the pair    *)
(* this call would make.                                                   *)
StartCaInit(t) ==
    /\ CanRead
    /\ vault = "Unlocked"
    /\ Start(t, "initCa", "initCa")
    /\ mine' = [mine EXCEPT ![t] = [key |-> started + 2, cert |-> started + 2]]

GenerateCaCertFirst(t) ==                                             \* mutant
    /\ pc[t] = "initCa"
    /\ \/ certGen # 0 /\ Goto(t, "idle")
       \/ certGen = 0 /\ Goto(t, "putCert")
    /\ UNCHANGED <<Memory, Durable, op, after, mine, failed, history>>
GenerateCa(t) ==
    /\ pc[t] = "initCa"
    /\ \/ certGen # 0 /\ Goto(t, "idle") /\ UNCHANGED after
       \/ certGen = 0 /\ Audit(t, "idle")                   \* dry run
       \/ certGen = 0 /\ Goto(t, "putWait") /\ UNCHANGED after
    /\ UNCHANGED <<Memory, Durable, op, mine, failed, history>>

PutCert(t) ==
    /\ pc[t] = "putCert"
    /\ certGen' = mine[t].cert
    /\ Goto(t, "setCa")
    /\ UNCHANGED <<Memory, keyGen, op, after, mine, failed, history>>
-----------------------------------------------------------------------------
(* issue_leaf_for_covered_host: the locked branch audits its refusal while *)
(* it still holds the read guard it looked through.                        *)
StartLeaf(t) ==
    /\ CanRead
    /\ Start(t, "leaf", IF vault = "Unlocked" THEN "leafCover" ELSE "leafLocked")
    /\ UNCHANGED mine

RefuseLocked(t) ==
    /\ pc[t] = "leafLocked"
    /\ Goto(t, "nestedAdvance")
    /\ UNCHANGED <<Memory, Durable, op, after, mine, failed, history>>

NestedAdvance(t) ==
    /\ pc[t] = "nestedAdvance"
    /\ CanRead
    /\ Goto(t, "idle")
    /\ UNCHANGED <<Memory, Durable, op, after, mine, failed, history>>

CheckCoverage(t) ==
    /\ pc[t] = "leafCover"
    /\ \/ Audit(t, "idle")                      \* no active relay covers the host
       \/ Goto(t, "leafIssue") /\ UNCHANGED after
    /\ UNCHANGED <<Memory, Durable, op, mine, failed, history>>

IssueLeaf(t) ==
    /\ pc[t] = "leafIssue"
    /\ IF ca = NoCa
         THEN Goto(t, "noCaAdvance") /\ UNCHANGED after
         ELSE Audit(t, "idle")
    /\ UNCHANGED <<Memory, Durable, op, mine, failed, history>>

NoCaAdvance(t) ==
    /\ pc[t] = "noCaAdvance"
    /\ CanRead
    /\ Goto(t, "idle")
    /\ UNCHANGED <<Memory, Durable, op, after, mine, failed, history>>
-----------------------------------------------------------------------------
(* A store call fails: `?` returns the error and drops every guard.  At    *)
(* "advance" it is the append that failed, and at "setCa" ca_init's second *)
(* put_meta, the step before it being done.                                *)
StoreFails(t) ==
    /\ "io" \in Faults
    /\ \/ pc[t] \in {"advance", "advanced", "verify", "rebuild", "openKey", "putting", "getRow",
                     "initCa", "putCert", "leafCover", "nestedAdvance", "noCaAdvance"}
       \/ pc[t] = "setCa" /\ op[t] = "initCa"
    /\ failed' = TRUE
    /\ Goto(t, "idle")
    /\ UNCHANGED <<Memory, Durable, op, after, mine, history>>

(* The daemon dies and starts again with a locked vault.                   *)
Crash ==
    /\ "crash" \in Faults
    /\ vault' = "Locked"
    /\ ca' = NoCa
    /\ flag' = FALSE
    /\ failed' = FALSE
    /\ pc' = [t \in Thread |-> "idle"]
    /\ UNCHANGED <<Durable, op, after, mine, history>>

Finished ==
    /\ started = MaxCalls
    /\ \A t \in Thread : pc[t] = "idle"
    /\ UNCHANGED vars

ThreadStep(t) ==
    \/ Advance(t) \/ AdvanceReturns(t)
    \/ Verify(t) \/ CommitUnlock(t) \/ ReadCert(t) \/ OpenKey(t) \/ SetCa(t) \/ MirrorUnlock(t)
    \/ DropDek(t) \/ DropCa(t) \/ MirrorLock(t)
    \/ BeginPut(t) \/ EndPut(t) \/ EndGet(t) \/ GenerateCa(t) \/ PutCert(t)
    \/ RefuseLocked(t) \/ NestedAdvance(t) \/ CheckCoverage(t) \/ IssueLeaf(t) \/ NoCaAdvance(t)

Call(t) ==
    \/ StartUnlock(t) \/ StartLock(t) \/ StartPut(t) \/ StartGet(t)
    \/ StartCaInit(t) \/ StartLeaf(t)

Next ==
    \/ \E t \in Thread : ThreadStep(t) \/ Call(t) \/ StoreFails(t)
    \/ Crash
    \/ Finished

Spec == Init /\ [][Next]_vars

(* A call that has begun keeps running: its thread is never dropped, and   *)
(* the lock is granted to whoever may have it.                             *)
FairSpec == Spec /\ \A t \in Thread : WF_vars(ThreadStep(t))
-----------------------------------------------------------------------------
Pc == {"idle", "advance", "advanced", "verify", "commitWait", "rebuild", "openKey", "setCa",
       "unlockOk", "lockWait", "dropCa", "lockOk", "putWait", "putting", "getRow", "initCa",
       "putCert", "leafLocked", "nestedAdvance", "leafCover", "leafIssue", "noCaAdvance"}
AfterAudit == {"idle", "commitWait", "rebuild", "unlockOk", "lockOk", "putCert"}
Generation == 0 .. MaxCalls + 1
Pair == [key : Generation, cert : Generation]

(* Every variable has its type; a generation is never invented.            *)
TypeOK ==
    /\ vault \in {"Locked", "Unlocked"}
    /\ ca \in Pair
    /\ keyGen \in Generation
    /\ certGen \in Generation
    /\ flag \in BOOLEAN
    /\ pc \in [Thread -> Pc]
    /\ op \in [Thread -> CallNames]
    /\ after \in [Thread -> AfterAudit]
    /\ mine \in [Thread -> Pair]
    /\ failed \in BOOLEAN
    /\ overlapped \in BOOLEAN
    /\ started \in 0 .. MaxCalls

AllIdle == \A t \in Thread : pc[t] = "idle"

(* A CA key is sealed only under a live DEK: whatever lock() does after    *)
(* ca_init looked at the vault, secret_put looks again under the write     *)
(* guard it seals with.                                                    *)
SealsOnlyUnlocked == [][keyGen' # keyGen => vault = "Unlocked"]_vars

(* A certificate is never persisted before the key that signs for it       *)
(* (ca_init), so a rebuild after any crash finds both or neither.          *)
CertHasKey == certGen # 0 => keyGen # 0

(* lock() leaves no issuer in RAM: when nobody is inside the engine, there *)
(* is an issuer only while the vault is unlocked.                          *)
IssuerOnlyWhileUnlocked == AllIdle /\ ca # NoCa => vault = "Unlocked"

(* The same of calls that never overlapped, through any failed store call  *)
(* or crash: what lock() drops, nothing but an unlock or ca_init rebuilds. *)
IssuerDroppedWhenAlone == ~overlapped => IssuerOnlyWhileUnlocked

(* Once nobody is inside the engine, the newest sealed CA key and the      *)
(* persisted certificate are of one keygen, so leaves of a rebuilt issuer  *)
(* verify under the certificate handed to children.  Two overlapping       *)
(* ca_inits may break this; calls one after the other never do.            *)
CaKeyMatchesCert == ~overlapped /\ AllIdle /\ certGen # 0 => keyGen = certGen

(* The resident issuer is the persisted one (ca_init,                      *)
(* rebuild_ca_if_initialized), whatever calls follow one another.          *)
IssuerIsPersisted ==
    ~overlapped /\ AllIdle /\ ca # NoCa => ca = [key |-> keyGen, cert |-> certGen]

(* A lock() that has begun drops the DEK and goes on to drop the issuer:   *)
(* the panic stop completes, whoever else reads or writes the vault.       *)
PanicStopCompletes == \A t \in Thread : pc[t] = "lockWait" ~> pc[t] = "dropCa"

(* The panic stop goes through whatever unlocks, puts, gets, ca_inits and  *)
(* failing store calls it meets, unless the daemon dies first or a leaf    *)
(* refused by a locked vault audits under its own read guard.              *)
PanicStopUnlessNested ==
    \A t \in Thread :
        pc[t] = "lockWait" ~> \/ pc[t] = "dropCa"
                              \/ vault = "Locked" /\ ca = NoCa
                              \/ \E s \in Thread : pc[s] = "nestedAdvance"

(* When nobody is inside the engine, no store call has failed since the    *)
(* daemon started and no calls overlapped, its Status answers what the     *)
(* vault is (grpc.rs).                                                     *)
MirrorAgrees == ~overlapped /\ AllIdle /\ ~failed => flag = (vault = "Unlocked")

(* When the engine is at rest after calls that did not overlap, the DEK,   *)
(* the issuer in RAM, the CA rows in the store and what Status answers are *)
(* of one piece, whatever failed or crashed on the way (lock, unlock,      *)
(* ca_init, grpc.rs).                                                      *)
RestAgrees == IssuerDroppedWhenAlone /\ CaKeyMatchesCert /\ IssuerIsPersisted /\ MirrorAgrees

(* A write guard taken on an unlocked vault keeps it unlocked.             *)
PutKeepsDek == \A t \in Thread : pc[t] = "putting" => vault = "Unlocked"

(* The steps of unlock are taken by unlocks alone.                         *)
UnlockSteps ==
    \A t \in Thread :
        /\ pc[t] \in {"verify", "commitWait", "rebuild", "openKey", "unlockOk"} => op[t] = "unlock"
        /\ pc[t] \in {"advance", "advanced"} /\ after[t] \in {"commitWait", "rebuild", "unlockOk"}
             => op[t] = "unlock"

(* A ca_init has a key in its hands.                                       *)
CaInitHasKey == \A t \in Thread : op[t] = "initCa" /\ pc[t] # "idle" => mine[t].key # 0

(* A ca_init goes on to the certificate only with a key sealed.            *)
KeyBeforeCert ==
    /\ CertHasKey
    /\ \A t \in Thread :
         \/ pc[t] = "putCert"
         \/ pc[t] \in {"advance", "advanced"} /\ after[t] = "putCert"
         => keyGen # 0

(* The inductive invariant behind SealsOnlyUnlocked and CertHasKey, for    *)
(* any number of callers (secret_put's guard, the order of ca_init).       *)
VaultInv == PutKeepsDek /\ UnlockSteps /\ CaInitHasKey /\ KeyBeforeCert

(* Where a call is past its change to the vault and not yet mirrored, or   *)
(* is making a CA.                                                         *)
Auditing(t, label) == pc[t] \in {"advance", "advanced"} /\ after[t] = label
Committed(t) ==
    \/ pc[t] \in {"rebuild", "openKey", "unlockOk"}
    \/ Auditing(t, "rebuild") \/ Auditing(t, "unlockOk")
    \/ pc[t] = "setCa" /\ op[t] = "unlock"
Dropped(t) == pc[t] \in {"dropCa", "lockOk"} \/ Auditing(t, "lockOk")
MakingCa(t) == op[t] = "initCa" /\ pc[t] \in {"putWait", "putting"}
SealedKey(t) == pc[t] = "putCert" \/ Auditing(t, "putCert")

(* What a call knows at each of its places when it has the engine alone.   *)
KnowsItsPlace(t) ==
    /\ Committed(t) => vault = "Unlocked"
    /\ Dropped(t) => vault = "Locked"
    /\ pc[t] = "initCa" => vault = "Unlocked" /\ mine[t].key = mine[t].cert
    /\ MakingCa(t) => vault = "Unlocked" /\ certGen = 0 /\ mine[t].key = mine[t].cert
    /\ SealedKey(t) => vault = "Unlocked" /\ certGen = 0 /\ mine[t] = [key |-> keyGen, cert |-> keyGen]
    /\ pc[t] = "openKey" => mine[t].cert = certGen /\ certGen # 0
    /\ pc[t] = "setCa" => vault = "Unlocked" /\ mine[t] = [key |-> keyGen, cert |-> certGen] /\ certGen # 0

OneInside == \A s, t \in Thread : pc[s] # "idle" /\ pc[t] # "idle" => s = t

(* The inductive invariant behind RestAgrees: what the DEK, the issuer,    *)
(* the CA rows and the mirror are at every place of a call that has the    *)
(* engine alone (lock, unlock, ca_init, grpc.rs).                          *)
AloneInv ==
    ~overlapped =>
        /\ OneInside
        /\ \A t \in Thread : KnowsItsPlace(t)
        /\ certGen # 0 => keyGen = certGen
        /\ ca # NoCa => ca = [key |-> keyGen, cert |-> certGen] /\ certGen # 0
        /\ ca # NoCa /\ vault = "Locked" => \E t \in Thread : pc[t] = "dropCa"
        /\ \/ failed
           \/ flag = (vault = "Unlocked")
           \/ \E t \in Thread : Committed(t) \/ Dropped(t)
=============================================================================
