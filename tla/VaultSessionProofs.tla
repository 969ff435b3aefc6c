-------------------------- MODULE VaultSessionProofs --------------------------
(***************************************************************************)
(* Proofs about VaultSession, for every set of threads, calls and faults   *)
(* and every bound: types, that a CA key is sealed only under a live DEK,  *)
(* that no certificate is persisted before its key, and that the vault,    *)
(* its issuer and the Status mirror agree when calls have not overlapped.  *)
(***************************************************************************)
EXTENDS VaultSession, TLAPS

(* Next, grouped the way the proofs below split it.                        *)
SessionStep(t) ==
    \/ StartUnlock(t) \/ Verify(t) \/ CommitUnlock(t) \/ ReadCert(t) \/ OpenKey(t)
    \/ SetCa(t) \/ MirrorUnlock(t) \/ StartLock(t) \/ DropDek(t) \/ DropCa(t)
    \/ MirrorLock(t)
DataStep(t) ==
    \/ StartPut(t) \/ BeginPut(t) \/ EndPut(t) \/ StartGet(t) \/ EndGet(t)
    \/ StartCaInit(t) \/ GenerateCa(t) \/ PutCert(t)
LeafStep(t) ==
    \/ StartLeaf(t) \/ RefuseLocked(t) \/ NestedAdvance(t) \/ CheckCoverage(t) \/ IssueLeaf(t)
    \/ NoCaAdvance(t)
AuditStep(t) ==
    \/ Advance(t) \/ AdvanceReturns(t) \/ StoreFails(t)

LEMMA NextCases ==
    ASSUME [Next]_vars
    PROVE  \/ \E t \in Thread : SessionStep(t) \/ DataStep(t) \/ LeafStep(t) \/ AuditStep(t)
           \/ Crash
           \/ UNCHANGED vars
  BY DEF Next, ThreadStep, Call, Finished, SessionStep, DataStep, LeafStep, AuditStep
-----------------------------------------------------------------------------
(* The absent issuer is a pair of generations.                             *)
LEMMA NoCaIsPair == NoCa \in Pair
  BY MaxCallsAssumption DEF NoCa, Pair, Generation

LEMMA InitTypeOK == Init => TypeOK
<1> SUFFICES ASSUME Init
             PROVE  TypeOK
  OBVIOUS
<1>1. 0 \in Generation /\ 1 \in Generation /\ NoCa \in Pair
  BY MaxCallsAssumption DEF Generation, Pair, NoCa
<1>2. started \in 0 .. MaxCalls /\ vault \in {"Locked", "Unlocked"}
  BY MaxCallsAssumption DEF Init
<1>6. flag \in BOOLEAN /\ failed \in BOOLEAN /\ overlapped \in BOOLEAN
  BY DEF Init
<1>3. pc \in [Thread -> Pc] /\ op \in [Thread -> CallNames] /\ after \in [Thread -> AfterAudit]
  BY DEF Init, Pc, AfterAudit, CallNames
<1>4. mine \in [Thread -> Pair] /\ ca \in Pair
  BY <1>1 DEF Init
<1>5. keyGen \in Generation /\ certGen \in Generation
  BY <1>1 DEF Init
<1>7. QED
  BY <1>2, <1>3, <1>4, <1>5, <1>6 DEF TypeOK

LEMMA SessionStepTypeOK ==
    ASSUME TypeOK, NEW t \in Thread, SessionStep(t)
    PROVE  TypeOK'
<1> USE DEF TypeOK, Memory, Durable, Goto, Audit, history, Pc, AfterAudit, CallNames, Generation, Pair, NoCa
<1>1. CASE StartUnlock(t)
  BY <1>1, MaxCallsAssumption DEF StartUnlock, Start
<1>2. CASE Verify(t)
  BY <1>2 DEF Verify
<1>3. CASE CommitUnlock(t)
  BY <1>3 DEF CommitUnlock
<1>4. CASE ReadCert(t)
  BY <1>4 DEF ReadCert
<1>5. CASE OpenKey(t)
  BY <1>5 DEF OpenKey
<1>6. CASE SetCa(t)
  BY <1>6 DEF SetCa
<1>7. CASE MirrorUnlock(t)
  BY <1>7 DEF MirrorUnlock
<1>8. CASE StartLock(t)
  BY <1>8, MaxCallsAssumption DEF StartLock, Start
<1>9. CASE DropDek(t)
  BY <1>9 DEF DropDek
<1>10. CASE DropCa(t)
  BY <1>10, NoCaIsPair DEF DropCa
<1>11. CASE MirrorLock(t)
  BY <1>11 DEF MirrorLock
<1>12. QED
  BY <1>1, <1>2, <1>3, <1>4, <1>5, <1>6, <1>7, <1>8, <1>9, <1>10, <1>11 DEF SessionStep

LEMMA DataStepTypeOK ==
    ASSUME TypeOK, NEW t \in Thread, DataStep(t)
    PROVE  TypeOK'
<1> USE DEF TypeOK, Memory, Durable, Goto, Audit, history, Pc, AfterAudit, CallNames, Generation, Pair, NoCa
<1>1. CASE StartPut(t)
  BY <1>1, MaxCallsAssumption DEF StartPut, Start
<1>2. CASE BeginPut(t)
  BY <1>2 DEF BeginPut
<1>3. CASE EndPut(t)
  BY <1>3 DEF EndPut
<1>4. CASE StartGet(t)
  BY <1>4, MaxCallsAssumption DEF StartGet, Start
<1>5. CASE EndGet(t)
  BY <1>5 DEF EndGet
<1>6. CASE StartCaInit(t)
  BY <1>6, MaxCallsAssumption DEF StartCaInit, Start
<1>7. CASE GenerateCa(t)
  BY <1>7 DEF GenerateCa
<1>8. CASE PutCert(t)
  BY <1>8 DEF PutCert
<1>9. QED
  BY <1>1, <1>2, <1>3, <1>4, <1>5, <1>6, <1>7, <1>8 DEF DataStep

LEMMA LeafStepTypeOK ==
    ASSUME TypeOK, NEW t \in Thread, LeafStep(t)
    PROVE  TypeOK'
<1> USE DEF TypeOK, Memory, Durable, Goto, Audit, history, Pc, AfterAudit, CallNames, Generation, Pair, NoCa
<1>1. CASE StartLeaf(t)
  BY <1>1, MaxCallsAssumption DEF StartLeaf, Start
<1>2. CASE RefuseLocked(t)
  BY <1>2 DEF RefuseLocked
<1>3. CASE NestedAdvance(t)
  BY <1>3 DEF NestedAdvance
<1>4. CASE CheckCoverage(t)
  BY <1>4 DEF CheckCoverage
<1>5. CASE IssueLeaf(t)
  BY <1>5 DEF IssueLeaf
<1>6. CASE NoCaAdvance(t)
  BY <1>6 DEF NoCaAdvance
<1>7. QED
  BY <1>1, <1>2, <1>3, <1>4, <1>5, <1>6 DEF LeafStep

LEMMA AuditStepTypeOK ==
    ASSUME TypeOK, NEW t \in Thread, AuditStep(t)
    PROVE  TypeOK'
<1> USE DEF TypeOK, Memory, Durable, Goto, Audit, history, Pc, AfterAudit, CallNames, Generation, Pair, NoCa
<1>1. CASE Advance(t)
  BY <1>1 DEF Advance
<1>2. CASE AdvanceReturns(t)
  BY <1>2 DEF AdvanceReturns
<1>3. CASE StoreFails(t)
  BY <1>3 DEF StoreFails
<1>4. QED
  BY <1>1, <1>2, <1>3 DEF AuditStep

LEMMA NextTypeOK == TypeOK /\ [Next]_vars => TypeOK'
<1> SUFFICES ASSUME TypeOK, [Next]_vars
             PROVE  TypeOK'
  OBVIOUS
<1>1. CASE Crash
  <2>1. vault' \in {"Locked", "Unlocked"} /\ ca' \in Pair /\ pc' \in [Thread -> Pc]
    BY <1>1, NoCaIsPair DEF Crash, Pc
  <2>2. flag' \in BOOLEAN /\ failed' \in BOOLEAN
    BY <1>1 DEF Crash
  <2>3. UNCHANGED <<Durable, op, after, mine, history>>
    BY <1>1 DEF Crash
  <2>4. QED
    BY <2>1, <2>2, <2>3 DEF TypeOK, Durable, history
<1>2. CASE UNCHANGED vars
  BY <1>2 DEF vars, TypeOK, history
<1>3. QED
  BY <1>1, <1>2, NextCases, SessionStepTypeOK, DataStepTypeOK, LeafStepTypeOK, AuditStepTypeOK

(* Every variable of the session has its type.                             *)
THEOREM TypeCorrect == Spec => []TypeOK
  BY InitTypeOK, NextTypeOK, PTL DEF Spec
-----------------------------------------------------------------------------
LEMMA InitVaultInv == Init => VaultInv
  BY DEF Init, VaultInv, PutKeepsDek, UnlockSteps, CaInitHasKey, KeyBeforeCert, CertHasKey

LEMMA SessionStepVaultInv ==
    ASSUME TypeOK, VaultInv, NEW t \in Thread, SessionStep(t)
    PROVE  VaultInv'
<1> USE DEF TypeOK, VaultInv, PutKeepsDek, UnlockSteps, CaInitHasKey, KeyBeforeCert, CertHasKey,
            Memory, Durable, Goto, Audit, history, Pc, AfterAudit, Generation, Pair, CanWrite, HoldsWrite
<1>1. CASE StartUnlock(t)
  BY <1>1 DEF StartUnlock, Start
<1>2. CASE Verify(t)
  BY <1>2 DEF Verify
<1>3. CASE CommitUnlock(t)
  BY <1>3 DEF CommitUnlock
<1>4. CASE ReadCert(t)
  BY <1>4 DEF ReadCert
<1>5. CASE OpenKey(t)
  BY <1>5 DEF OpenKey
<1>6. CASE SetCa(t)
  BY <1>6 DEF SetCa
<1>7. CASE MirrorUnlock(t)
  BY <1>7 DEF MirrorUnlock
<1>8. CASE StartLock(t)
  BY <1>8 DEF StartLock, Start
<1>9. CASE DropDek(t)
  BY <1>9 DEF DropDek
<1>10. CASE DropCa(t)
  BY <1>10 DEF DropCa
<1>11. CASE MirrorLock(t)
  BY <1>11 DEF MirrorLock
<1>12. QED
  BY <1>1, <1>2, <1>3, <1>4, <1>5, <1>6, <1>7, <1>8, <1>9, <1>10, <1>11 DEF SessionStep

LEMMA DataStepVaultInv ==
    ASSUME TypeOK, VaultInv, NEW t \in Thread, DataStep(t)
    PROVE  VaultInv'
<1> USE DEF TypeOK, VaultInv, PutKeepsDek, UnlockSteps, CaInitHasKey, KeyBeforeCert, CertHasKey,
            Memory, Durable, Goto, Audit, history, Pc, AfterAudit, Generation, Pair, CanWrite, HoldsWrite
<1>1. CASE StartPut(t)
  BY <1>1 DEF StartPut, Start
<1>2. CASE BeginPut(t)
  BY <1>2 DEF BeginPut
<1>3. CASE EndPut(t)
  BY <1>3 DEF EndPut
<1>4. CASE StartGet(t)
  BY <1>4 DEF StartGet, Start
<1>5. CASE EndGet(t)
  BY <1>5 DEF EndGet
<1>6. CASE StartCaInit(t)
  BY <1>6 DEF StartCaInit, Start
<1>7. CASE GenerateCa(t)
  BY <1>7 DEF GenerateCa
<1>8. CASE PutCert(t)
  BY <1>8 DEF PutCert
<1>9. QED
  BY <1>1, <1>2, <1>3, <1>4, <1>5, <1>6, <1>7, <1>8 DEF DataStep

LEMMA LeafStepVaultInv ==
    ASSUME TypeOK, VaultInv, NEW t \in Thread, LeafStep(t)
    PROVE  VaultInv'
<1> USE DEF TypeOK, VaultInv, PutKeepsDek, UnlockSteps, CaInitHasKey, KeyBeforeCert, CertHasKey,
            Memory, Durable, Goto, Audit, history, Pc, AfterAudit, Generation, Pair, CanWrite, HoldsWrite
<1>1. CASE StartLeaf(t)
  BY <1>1 DEF StartLeaf, Start
<1>2. CASE RefuseLocked(t)
  BY <1>2 DEF RefuseLocked
<1>3. CASE NestedAdvance(t)
  BY <1>3 DEF NestedAdvance
<1>4. CASE CheckCoverage(t)
  BY <1>4 DEF CheckCoverage
<1>5. CASE IssueLeaf(t)
  BY <1>5 DEF IssueLeaf
<1>6. CASE NoCaAdvance(t)
  BY <1>6 DEF NoCaAdvance
<1>7. QED
  BY <1>1, <1>2, <1>3, <1>4, <1>5, <1>6 DEF LeafStep

LEMMA AuditStepVaultInv ==
    ASSUME TypeOK, VaultInv, NEW t \in Thread, AuditStep(t)
    PROVE  VaultInv'
<1> USE DEF TypeOK, VaultInv, PutKeepsDek, UnlockSteps, CaInitHasKey, KeyBeforeCert, CertHasKey,
            Memory, Durable, Goto, Audit, history, Pc, AfterAudit, Generation, Pair, CanWrite, HoldsWrite
<1>1. CASE Advance(t)
  BY <1>1 DEF Advance
<1>2. CASE AdvanceReturns(t)
  BY <1>2 DEF AdvanceReturns
<1>3. CASE StoreFails(t)
  BY <1>3 DEF StoreFails
<1>4. QED
  BY <1>1, <1>2, <1>3 DEF AuditStep

LEMMA NextVaultInv == TypeOK /\ VaultInv /\ [Next]_vars => VaultInv'
<1> SUFFICES ASSUME TypeOK, VaultInv, [Next]_vars
             PROVE  VaultInv'
  OBVIOUS
<1> USE DEF VaultInv, PutKeepsDek, UnlockSteps, CaInitHasKey, KeyBeforeCert, CertHasKey
<1>1. CASE Crash
  BY <1>1 DEF Crash, Durable
<1>2. CASE UNCHANGED vars
  BY <1>2 DEF vars
<1>3. QED
  BY <1>1, <1>2, NextCases, SessionStepVaultInv, DataStepVaultInv, LeafStepVaultInv, AuditStepVaultInv

(* The inductive invariant of the session holds.                           *)
THEOREM VaultCorrect == Spec => [](TypeOK /\ VaultInv)
  BY TypeCorrect, InitVaultInv, NextVaultInv, PTL DEF Spec

(* No certificate is persisted before a key (ca_init, in any interleaving, *)
(* with any crash or failed store call).                                   *)
THEOREM CertNeverAlone == Spec => []CertHasKey
<1>1. VaultInv => CertHasKey
  BY DEF VaultInv, KeyBeforeCert
<1>2. QED
  BY <1>1, VaultCorrect, PTL

(* A CA key is sealed only under a live DEK (secret_put).                  *)
THEOREM SealsUnderLiveDek == Spec => SealsOnlyUnlocked
<1>1. TypeOK /\ VaultInv /\ [Next]_vars => [keyGen' # keyGen => vault = "Unlocked"]_vars
  <2> SUFFICES ASSUME TypeOK, VaultInv, [Next]_vars, keyGen' # keyGen
               PROVE  vault = "Unlocked"
    OBVIOUS
  <2>1. ~Crash /\ ~UNCHANGED vars
    BY DEF Crash, Durable, vars
  <2>2. ASSUME NEW t \in Thread
        PROVE  ~SessionStep(t) /\ ~LeafStep(t) /\ ~AuditStep(t)
    BY DEF SessionStep, LeafStep, AuditStep, Durable, Start,
           StartUnlock, Verify, CommitUnlock, ReadCert, OpenKey, SetCa, MirrorUnlock,
           StartLock, DropDek, DropCa, MirrorLock,
           StartLeaf, RefuseLocked, NestedAdvance, CheckCoverage, IssueLeaf, NoCaAdvance,
           Advance, AdvanceReturns, StoreFails
  <2>3. PICK t \in Thread : DataStep(t)
    BY <2>1, <2>2, NextCases
  <2>4. pc[t] = "putting"
    BY <2>3 DEF DataStep, Durable, Start, StartPut, BeginPut, EndPut, StartGet, EndGet,
                StartCaInit, GenerateCa, PutCert
  <2>5. QED
    BY <2>4 DEF VaultInv, PutKeepsDek
<1>2. QED
  BY <1>1, VaultCorrect, PTL DEF Spec, SealsOnlyUnlocked
-----------------------------------------------------------------------------
(* AloneInv as it reads when every thread but t is outside the engine.     *)
Alone(t) == \A s \in Thread \ {t} : pc[s] = "idle"
RestOf(t) ==
    /\ KnowsItsPlace(t)
    /\ certGen # 0 => keyGen = certGen
    /\ ca # NoCa => ca = [key |-> keyGen, cert |-> certGen] /\ certGen # 0
    /\ ca # NoCa /\ vault = "Locked" => pc[t] = "dropCa"
    /\ failed \/ flag = (vault = "Unlocked") \/ Committed(t) \/ Dropped(t)

(* An idle thread is at no place of a call.                                *)
LEMMA IdleIsNowhere ==
    ASSUME NEW t \in Thread, pc[t] = "idle"
    PROVE  ~Committed(t) /\ ~Dropped(t) /\ KnowsItsPlace(t)
  BY DEF Committed, Dropped, Auditing, MakingCa, SealedKey, KnowsItsPlace

LEMMA AloneHasRest ==
    ASSUME AloneInv, ~overlapped, NEW t \in Thread, Alone(t)
    PROVE  RestOf(t)
<1>1. \A s \in Thread \ {t} : pc[s] # "dropCa" /\ ~Committed(s) /\ ~Dropped(s)
  BY IdleIsNowhere DEF Alone
<1>2. QED
  BY <1>1 DEF AloneInv, RestOf

LEMMA RestIsAlone ==
    ASSUME NEW t \in Thread, Alone(t), RestOf(t)
    PROVE  AloneInv
<1>1. \A s \in Thread \ {t} : KnowsItsPlace(s)
  BY IdleIsNowhere DEF Alone
<1>2. OneInside
  BY DEF Alone, OneInside
<1>3. QED
  BY <1>1, <1>2 DEF AloneInv, RestOf

LEMMA SessionStepRest ==
    ASSUME TypeOK, VaultInv, NEW t \in Thread, RestOf(t), SessionStep(t)
    PROVE  RestOf(t)'
<1> USE DEF TypeOK, RestOf, KnowsItsPlace, Committed, Dropped, Auditing, MakingCa, SealedKey,
            Memory, Durable, Goto, Audit, history, Pc, AfterAudit, Generation, Pair
<1>1. CASE StartUnlock(t)
  BY <1>1 DEF StartUnlock, Start
<1>2. CASE Verify(t)
  BY <1>2 DEF Verify
<1>3. CASE CommitUnlock(t)
  BY <1>3 DEF CommitUnlock
<1>4. CASE ReadCert(t)
  BY <1>4 DEF ReadCert
<1>5. CASE OpenKey(t)
  <2>1. mine'[t] = [key |-> keyGen, cert |-> mine[t].cert]
    BY <1>5 DEF OpenKey
  <2>2. vault = "Unlocked" /\ mine[t].cert = certGen /\ certGen # 0 /\ op[t] = "unlock" /\ op' = op
    BY <1>5 DEF OpenKey, VaultInv, UnlockSteps
  <2>3. UNCHANGED <<vault, ca, flag, keyGen, certGen, failed>>
    BY <1>5 DEF OpenKey
  <2>4. \/ pc'[t] = "advance" /\ after'[t] = "unlockOk"
        \/ pc'[t] = "setCa"
    BY <1>5, <2>2 DEF OpenKey
  <2>5. QED
    BY <1>5, <2>1, <2>2, <2>3, <2>4 DEF OpenKey
<1>6. CASE SetCa(t)
  BY <1>6 DEF SetCa
<1>7. CASE MirrorUnlock(t)
  BY <1>7 DEF MirrorUnlock
<1>8. CASE StartLock(t)
  BY <1>8 DEF StartLock, Start
<1>9. CASE DropDek(t)
  BY <1>9 DEF DropDek
<1>10. CASE DropCa(t)
  BY <1>10 DEF DropCa
<1>11. CASE MirrorLock(t)
  BY <1>11 DEF MirrorLock
<1>12. QED
  BY <1>1, <1>2, <1>3, <1>4, <1>5, <1>6, <1>7, <1>8, <1>9, <1>10, <1>11 DEF SessionStep

LEMMA DataStepRest ==
    ASSUME TypeOK, VaultInv, NEW t \in Thread, RestOf(t), DataStep(t)
    PROVE  RestOf(t)'
<1> USE DEF TypeOK, RestOf, KnowsItsPlace, Committed, Dropped, Auditing, MakingCa, SealedKey,
            Memory, Durable, Goto, Audit, history, Pc, AfterAudit, Generation, Pair
<1>1. CASE StartPut(t)
  BY <1>1 DEF StartPut, Start
<1>2. CASE BeginPut(t)
  BY <1>2 DEF BeginPut
<1>3. CASE EndPut(t)
  BY <1>3 DEF EndPut
<1>4. CASE StartGet(t)
  BY <1>4 DEF StartGet, Start
<1>5. CASE EndGet(t)
  BY <1>5 DEF EndGet
<1>6. CASE StartCaInit(t)
  BY <1>6 DEF StartCaInit, Start
<1>7. CASE GenerateCa(t)
  BY <1>7 DEF GenerateCa
<1>8. CASE PutCert(t)
  <2>1. vault = "Unlocked" /\ certGen = 0 /\ mine[t] = [key |-> keyGen, cert |-> keyGen] /\ ca = NoCa
    BY <1>8 DEF PutCert
  <2>2. keyGen # 0
    BY <1>8 DEF PutCert, VaultInv, KeyBeforeCert
  <2>3. certGen' = keyGen /\ pc'[t] = "setCa" /\ UNCHANGED <<vault, ca, flag, keyGen, op, after, mine, failed>>
    BY <1>8, <2>1 DEF PutCert
  <2>4. failed \/ flag = (vault = "Unlocked")
    BY <1>8 DEF PutCert
  <2>5. QED
    BY <2>1, <2>2, <2>3, <2>4
<1>9. QED
  BY <1>1, <1>2, <1>3, <1>4, <1>5, <1>6, <1>7, <1>8 DEF DataStep

LEMMA LeafStepRest ==
    ASSUME TypeOK, NEW t \in Thread, RestOf(t), LeafStep(t)
    PROVE  RestOf(t)'
<1> USE DEF TypeOK, RestOf, KnowsItsPlace, Committed, Dropped, Auditing, MakingCa, SealedKey,
            Memory, Durable, Goto, Audit, history, Pc, AfterAudit, Generation, Pair
<1>1. CASE StartLeaf(t)
  BY <1>1 DEF StartLeaf, Start
<1>2. CASE RefuseLocked(t)
  BY <1>2 DEF RefuseLocked
<1>3. CASE NestedAdvance(t)
  BY <1>3 DEF NestedAdvance
<1>4. CASE CheckCoverage(t)
  BY <1>4 DEF CheckCoverage
<1>5. CASE IssueLeaf(t)
  BY <1>5 DEF IssueLeaf
<1>6. CASE NoCaAdvance(t)
  BY <1>6 DEF NoCaAdvance
<1>7. QED
  BY <1>1, <1>2, <1>3, <1>4, <1>5, <1>6 DEF LeafStep

LEMMA AuditStepRest ==
    ASSUME TypeOK, NEW t \in Thread, RestOf(t), AuditStep(t)
    PROVE  RestOf(t)'
<1> USE DEF TypeOK, RestOf, KnowsItsPlace, Committed, Dropped, Auditing, MakingCa, SealedKey,
            Memory, Durable, Goto, Audit, history, Pc, AfterAudit, Generation, Pair
<1>1. CASE Advance(t)
  BY <1>1 DEF Advance
<1>2. CASE AdvanceReturns(t)
  BY <1>2 DEF AdvanceReturns
<1>3. CASE StoreFails(t)
  BY <1>3 DEF StoreFails
<1>4. QED
  BY <1>1, <1>2, <1>3 DEF AuditStep

(* A call that begins while another is inside is marked as overlapping, so *)
(* a thread that moves without the mark has the engine alone.              *)
LEMMA MovesAlone ==
    ASSUME TypeOK, AloneInv, ~overlapped', NEW t \in Thread,
           SessionStep(t) \/ DataStep(t) \/ LeafStep(t) \/ AuditStep(t)
    PROVE  ~overlapped /\ Alone(t) /\ Alone(t)'
<1>1. pc' = [pc EXCEPT ![t] = pc'[t]]
  BY DEF SessionStep, DataStep, LeafStep, AuditStep, TypeOK, Goto, Audit, Start,
         StartUnlock, Verify, CommitUnlock, ReadCert, OpenKey, SetCa, MirrorUnlock,
         StartLock, DropDek, DropCa, MirrorLock,
         StartPut, BeginPut, EndPut, StartGet, EndGet, StartCaInit, GenerateCa, PutCert,
         StartLeaf, RefuseLocked, NestedAdvance, CheckCoverage, IssueLeaf, NoCaAdvance,
         Advance, AdvanceReturns, StoreFails
<1>2. \/ overlapped' = overlapped /\ pc[t] # "idle"
      \/ overlapped' = (overlapped \/ \E other \in Thread : pc[other] # "idle")
  BY DEF SessionStep, DataStep, LeafStep, AuditStep, history, Start,
         StartUnlock, Verify, CommitUnlock, ReadCert, OpenKey, SetCa, MirrorUnlock,
         StartLock, DropDek, DropCa, MirrorLock,
         StartPut, BeginPut, EndPut, StartGet, EndGet, StartCaInit, GenerateCa, PutCert,
         StartLeaf, RefuseLocked, NestedAdvance, CheckCoverage, IssueLeaf, NoCaAdvance,
         Advance, AdvanceReturns, StoreFails
<1>3. ~overlapped /\ Alone(t)
  <2>1. CASE overlapped' = overlapped /\ pc[t] # "idle"
    BY <2>1 DEF AloneInv, OneInside, Alone
  <2>2. CASE overlapped' = (overlapped \/ \E other \in Thread : pc[other] # "idle")
    BY <2>2 DEF Alone
  <2>3. QED
    BY <1>2, <2>1, <2>2
<1>4. Alone(t)'
  BY <1>1, <1>3 DEF Alone, TypeOK
<1>5. QED
  BY <1>3, <1>4

LEMMA InitAloneInv == Init => AloneInv
<1> SUFFICES ASSUME Init
             PROVE  AloneInv
  OBVIOUS
<1>1. OneInside /\ \A t \in Thread : KnowsItsPlace(t)
  BY IdleIsNowhere DEF Init, OneInside
<1>2. flag = (vault = "Unlocked") /\ ca = NoCa /\ keyGen = certGen
  BY DEF Init
<1>3. QED
  BY <1>1, <1>2 DEF AloneInv

LEMMA NextAloneInv == TypeOK /\ VaultInv /\ AloneInv /\ [Next]_vars => AloneInv'
<1> SUFFICES ASSUME TypeOK, VaultInv, AloneInv, [Next]_vars, ~overlapped'
             PROVE  AloneInv'
  BY DEF AloneInv
<1>1. CASE Crash
  <2>1. \A t \in Thread : pc'[t] = "idle"
    BY <1>1 DEF Crash
  <2>2. OneInside' /\ \A t \in Thread : KnowsItsPlace(t)'
    BY <2>1, IdleIsNowhere DEF OneInside, KnowsItsPlace, Committed, Dropped, Auditing, MakingCa, SealedKey
  <2>3. certGen' # 0 => keyGen' = certGen'
    BY <1>1 DEF AloneInv, Crash, Durable, history
  <2>4. flag' = (vault' = "Unlocked") /\ ca' = NoCa
    BY <1>1 DEF Crash
  <2>5. QED
    BY <2>2, <2>3, <2>4 DEF AloneInv
<1>2. CASE UNCHANGED vars
  BY <1>2 DEF vars, AloneInv, OneInside, KnowsItsPlace, Committed, Dropped, Auditing, MakingCa, SealedKey
<1>3. ASSUME NEW t \in Thread, SessionStep(t) \/ DataStep(t) \/ LeafStep(t) \/ AuditStep(t)
      PROVE  AloneInv'
  <2>1. RestOf(t) /\ Alone(t)'
    BY <1>3, MovesAlone, AloneHasRest
  <2>2. RestOf(t)'
    BY <1>3, <2>1, SessionStepRest, DataStepRest, LeafStepRest, AuditStepRest
  <2>3. Alone(t)' /\ RestOf(t)' => AloneInv'
    BY RestIsAlone, PTL
  <2>4. QED
    BY <2>1, <2>2, <2>3
<1>4. QED
  BY <1>1, <1>2, <1>3, NextCases

(* At rest after calls that did not overlap, the DEK, the issuer in RAM,   *)
(* the CA rows and the mirror Status answers from are of one piece, for    *)
(* any number of calls, threads, crashes and failing store calls (lock,    *)
(* unlock, ca_init, grpc.rs).                                              *)
THEOREM RestIsOfOnePiece == Spec => []RestAgrees
<1>1. TypeOK /\ AloneInv => RestAgrees
  <2> SUFFICES ASSUME TypeOK, AloneInv, ~overlapped, AllIdle
               PROVE  RestAgrees
    BY DEF RestAgrees, IssuerDroppedWhenAlone, IssuerOnlyWhileUnlocked, CaKeyMatchesCert,
           IssuerIsPersisted, MirrorAgrees
  <2>1. \A t \in Thread : pc[t] # "dropCa" /\ ~Committed(t) /\ ~Dropped(t)
    BY IdleIsNowhere DEF AllIdle
  <2>2. IssuerDroppedWhenAlone
    BY <2>1 DEF AloneInv, TypeOK, IssuerDroppedWhenAlone, IssuerOnlyWhileUnlocked
  <2>3. CaKeyMatchesCert /\ IssuerIsPersisted
    BY DEF AloneInv, CaKeyMatchesCert, IssuerIsPersisted
  <2>4. MirrorAgrees
    BY <2>1 DEF AloneInv, MirrorAgrees
  <2>5. QED
    BY <2>2, <2>3, <2>4 DEF RestAgrees
<1>2. QED
  BY <1>1, VaultCorrect, InitAloneInv, NextAloneInv, PTL DEF Spec
=============================================================================
