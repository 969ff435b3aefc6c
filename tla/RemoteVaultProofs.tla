-------------------------- MODULE RemoteVaultProofs --------------------------
(***************************************************************************)
(* Proofs about RemoteVault, for every number of daemons, threads, names   *)
(* and calls and every choice of faults: types, that the statements of the *)
(* engine implement the store's promise, that what returned Ok is in the   *)
(* log and in the store exactly once, and that who holds a DEK reads all   *)
(* secrets and an init that returned Ok made a vault that opens.           *)
(***************************************************************************)
EXTENDS RemoteVault, FiniteSetTheorems, WellFoundedInduction, TLAPS

(* A bounded set of numbers has a greatest member.                         *)
LEMMA BoundedHasMax ==
    ASSUME NEW S \in SUBSET Nat, S # {}, NEW b \in Nat, \A n \in S : n <= b
    PROVE  Max(S) \in S /\ \A n \in S : n <= Max(S)
<1> DEFINE Gaps == {b - n : n \in S}
<1>1. Gaps \subseteq Nat /\ Gaps # {}
  <2>1. \A n \in S : n \in Nat /\ b - n \in Nat
    OBVIOUS
  <2>2. QED
    BY <2>1
<1>2. PICK g \in Gaps : \A h \in Gaps : <<h, g>> \notin OpToRel(<, Nat)
  BY <1>1, NatLessThanWellFounded, WFMin
<1>3. \A h \in Gaps : ~(h < g)
  BY <1>1, <1>2 DEF OpToRel
<1>4. PICK n \in S : g = b - n
  OBVIOUS
<1>5. \A k \in S : n >= k
  <2> SUFFICES ASSUME NEW k \in S PROVE n >= k
    OBVIOUS
  <2>1. b - k \in Gaps
    OBVIOUS
  <2>2. ~(b - k < b - n) /\ k \in Nat /\ n \in Nat
    BY <1>3, <1>4, <2>1
  <2>3. QED
    BY <2>2
<1>6. \E x \in S : \A y \in S : x >= y
  BY <1>5
<1>7. Max(S) \in S /\ \A y \in S : Max(S) >= y
  BY <1>6 DEF Max
<1>8. QED
  BY <1>7

(* Versions are bounded, so every name has a greatest one.                 *)
Bounded == \E b \in Nat : \A r \in secrets : r.version <= b

LEMMA MaxVersionType ==
    ASSUME TypeOK, Bounded, NEW n
    PROVE  MaxVersion(secrets, n) \in Nat
<1> DEFINE S == Versions(secrets, n) \cup {0}
<1>1. S \in SUBSET Nat
  BY DEF TypeOK, RowType, Versions
<1>2. PICK b \in Nat : \A r \in secrets : r.version <= b
  BY DEF Bounded
<1>3. \A k \in S : k <= b
  BY <1>2 DEF Versions
<1>4. Max(S) \in S
  BY <1>1, <1>2, <1>3, BoundedHasMax
<1>5. QED
  BY <1>1, <1>4 DEF MaxVersion
-----------------------------------------------------------------------------
LEMMA NothingType == Nothing \in MineType
<1>1. (CHOOSE n \in Name : TRUE) \in Name
  BY ThreadAssumption
<1>2. NoMac \in MacType
  BY DEF NoMac, MacType, CallId
<1>3. QED
  BY <1>1, <1>2 DEF Nothing, MineType, Op, CallId

LEMMA BeforeType == Before \in Nat /\ Before >= 1
  BY MaxCallsAssumption, FS_CardinalityType DEF Before

LEMMA LinkedType ==
    ASSUME NEW n \in Nat
    PROVE  Linked(n) \in Seq([by : CallId, after : CallId]) /\ Len(Linked(n)) = n
  BY DEF Linked, CallId

LEMMA InitTyped == Init => TypeOK /\ Bounded
<1> SUFFICES ASSUME Init PROVE TypeOK /\ Bounded
  OBVIOUS
<1>1. PICK n \in 0 .. Before : log = Linked(n)
  BY DEF Init
<1>2. n \in Nat /\ log \in Seq([by : CallId, after : CallId])
  <2>1. n \in Nat
    BY BeforeType
  <2>2. QED
    BY <1>1, <2>1, LinkedType
<1> USE DEF Init
<1>3. slots \subseteq SlotType /\ floor \in CallId /\ generation \in {0, 1}
  BY DEF StoreInit, SlotType, CallId
<1>4. mac \in MacType
  BY <1>3 DEF StoreInit, NoMac, MacType, CallId
<1>5. dek \in [Daemon -> CallId]
  BY <1>4 DEF MacType, CallId
<1>6. returned \subseteq [op : Op, call : CallId]
  BY <1>2 DEF Op, CallId
<1>7. mine \in [Thread -> MineType]
  BY NothingType
<1>8. QED
  BY <1>2, <1>3, <1>4, <1>5, <1>6, <1>7, BeforeType DEF StoreInit, TypeOK, Pc, Bounded

(* What a thread keeps while it leaves, starts or goes on.                 *)
ThreadType ==
    /\ pc \in [Thread -> Pc] /\ mine \in [Thread -> MineType] /\ retried \in [Thread -> BOOLEAN]
    /\ returned \subseteq [op : Op, call : CallId] /\ started \in Nat
StoreType ==
    /\ slots \subseteq SlotType /\ mac \in MacType /\ floor \in CallId /\ generation \in {0, 1}
    /\ nextId \in Nat /\ secrets \subseteq RowType /\ log \in Seq([by : CallId, after : CallId])
    /\ Bounded
MemoryType == home \in [Thread -> Daemon] /\ dek \in [Daemon -> CallId] /\ overlapped \in BOOLEAN

LEMMA TypeParts == TypeOK /\ Bounded <=> ThreadType /\ StoreType /\ MemoryType
  BY DEF TypeOK, ThreadType, StoreType, MemoryType

LEMMA TypePartsNext == (TypeOK /\ Bounded)' <=> ThreadType' /\ StoreType' /\ MemoryType'
  BY DEF TypeOK, ThreadType, StoreType, MemoryType

LEMMA StoreKept ==
    ASSUME StoreType, UNCHANGED tables
    PROVE  StoreType'
  BY DEF StoreType, tables, meta, Bounded

LEMMA MemoryKept ==
    ASSUME MemoryType, UNCHANGED memory
    PROVE  MemoryType'
  BY DEF MemoryType, memory

LEMMA GotoType ==
    ASSUME ThreadType, NEW t \in Thread, NEW label \in Pc, Goto(t, label)
    PROVE  pc' \in [Thread -> Pc] /\ retried' \in [Thread -> BOOLEAN]
  BY DEF Goto, ThreadType

LEMMA LeaveType ==
    ASSUME ThreadType, NEW t \in Thread, Fail(t) \/ Return(t)
    PROVE  ThreadType'
<1>1. "idle" \in Pc
  BY DEF Pc
<1>2. Leave(t) /\ Goto(t, "idle") /\ started' = started
  BY DEF Fail, Return, Leave
<1>3. mine' \in [Thread -> MineType]
  BY <1>2, NothingType DEF Leave, ThreadType
<1>4. returned' \subseteq [op : Op, call : CallId]
  BY DEF Fail, Return, ThreadType, MineType
<1>5. QED
  BY <1>1, <1>2, <1>3, <1>4, GotoType DEF ThreadType

LEMMA StartType ==
    ASSUME ThreadType, NEW t \in Thread, NEW call \in MineType, NEW label \in Pc, Start(t, call, label)
    PROVE  ThreadType' /\ UNCHANGED <<tables, memory>>
<1>1. Goto(t, label)
  BY DEF Start
<1>2. QED
  BY <1>1, GotoType DEF Start, ThreadType

LEMMA CallType ==
    ASSUME ThreadType, NEW op \in Op
    PROVE  /\ Call(op) \in MineType
           /\ Call(op).op = op /\ Call(op).call = started + 1 /\ Call(op).ok
<1>1. started + 1 \in CallId
  BY DEF ThreadType, CallId
<1>2. QED
  BY <1>1, NothingType DEF Call, MineType

LEMMA SendType ==
    ASSUME ThreadType, NEW t \in Thread, NEW label \in Pc, NEW ACTION effect, Send(t, effect, label)
    PROVE  ThreadType'
  BY GotoType, LeaveType DEF Send, ThreadType

LEMMA SendEffect ==
    ASSUME NEW t \in Thread, NEW label \in Pc, NEW ACTION effect, Send(t, effect, label)
    PROVE  effect \/ UNCHANGED tables
  BY DEF Send
-----------------------------------------------------------------------------
LEMMA RefusedType ==
    ASSUME ThreadType, StoreType, MemoryType, NEW t \in Thread, Refused(t)
    PROVE  ThreadType' /\ StoreType' /\ MemoryType'
  BY LeaveType, StoreKept, MemoryKept DEF Refused

(* Reading changes nothing but the reader.                                 *)
LEMMA LearnType ==
    ASSUME ThreadType, StoreType, MemoryType, NEW t \in Thread, NEW label \in Pc, NEW what,
           \/ Learn(t, "ok", what, label) /\ what \in BOOLEAN
           \/ Learn(t, "slots", what, label) /\ what \subseteq SlotType
           \/ Learn(t, "mac", what, label) /\ what \in MacType
           \/ Learn(t, "floor", what, label) /\ what \in CallId
           \/ Learn(t, "dek", what, label) /\ what \in CallId
           \/ Learn(t, "version", what, label) /\ what \in Nat
    PROVE  ThreadType' /\ StoreType' /\ MemoryType'
<1>1. Goto(t, label) /\ UNCHANGED <<tables, memory, returned, started>>
  BY DEF Learn
<1>2. mine' \in [Thread -> MineType]
  <2>1. mine[t] \in MineType
    BY DEF ThreadType
  <2>2. mine'[t] \in MineType
    BY <2>1 DEF Learn, MineType, ThreadType
  <2>3. QED
    BY <2>2 DEF Learn, ThreadType
<1>3. QED
  BY <1>1, <1>2, GotoType, StoreKept, MemoryKept DEF ThreadType

LEMMA BeginType ==
    ASSUME ThreadType, StoreType, MemoryType, NEW t \in Thread, Begin(t)
    PROVE  ThreadType' /\ StoreType' /\ MemoryType'
<1> USE DEF Op, Pc
<1>1. CASE StartInit(t)
  <2>1. PICK usb \in BOOLEAN : Start(t, [Call("init") EXCEPT !.usb = usb], "check")
    BY <1>1 DEF StartInit
  <2>2. [Call("init") EXCEPT !.usb = usb] \in MineType
    BY CallType DEF MineType
  <2>3. QED
    BY <2>1, <2>2, StartType, StoreKept, MemoryKept
<1>2. CASE StartUnlock(t)
  BY <1>2, CallType, StartType, StoreKept, MemoryKept DEF StartUnlock
<1>3. CASE StartLock(t)
  <2>1. ThreadType'
    BY <1>3, CallType, GotoType DEF StartLock, ThreadType
  <2>2. StoreType' /\ MemoryType'
    BY <1>3, StoreKept DEF StartLock, MemoryType, CallId
  <2>3. QED
    BY <2>1, <2>2
<1>4. CASE StartPut(t)
  <2>1. PICK n \in Name : Start(t, [Call("put") EXCEPT !.name = n, !.dek = dek[home[t]]], "version")
    BY <1>4 DEF StartPut
  <2>2. dek[home[t]] \in CallId
    BY DEF MemoryType
  <2>3. [Call("put") EXCEPT !.name = n, !.dek = dek[home[t]]] \in MineType
    BY <2>2, CallType DEF MineType
  <2>4. QED
    BY <2>1, <2>3, StartType, StoreKept, MemoryKept
<1>5. CASE StartGet(t)
  <2>1. PICK n \in Name : Start(t, [Call("get") EXCEPT !.name = n, !.dek = dek[home[t]]], "row")
    BY <1>5 DEF StartGet
  <2>2. dek[home[t]] \in CallId
    BY DEF MemoryType
  <2>3. [Call("get") EXCEPT !.name = n, !.dek = dek[home[t]]] \in MineType
    BY <2>2, CallType DEF MineType
  <2>4. QED
    BY <2>1, <2>3, StartType, StoreKept, MemoryKept
<1>6. QED
  BY <1>1, <1>2, <1>3, <1>4, <1>5 DEF Begin
-----------------------------------------------------------------------------
(* The writes of init_vault.                                               *)
LEMMA InitWritesType ==
    ASSUME ThreadType, StoreType, MemoryType, NEW t \in Thread,
           \/ CheckUninitialized(t) \/ SaveSlot1(t) \/ SaveSlot2(t)
           \/ PutHeaderMac(t) \/ PutFloor(t) \/ PutGeneration(t)
    PROVE  ThreadType' /\ StoreType' /\ MemoryType'
<1> USE DEF Pc
<1>0. mine[t].call \in CallId /\ mine[t].usb \in BOOLEAN /\ (IF mine[t].usb THEN "slot2" ELSE "mac") \in Pc
  BY DEF ThreadType, MineType
<1>1. Slot(t, 1) \in SlotType /\ Slot(t, 2) \in SlotType /\ SlotsOf(t) \subseteq SlotType
  BY <1>0 DEF Slot, SlotType, SlotsOf
<1>2. CASE CheckUninitialized(t)
  <2>1. CASE mac # NoMac
    BY <1>2, <2>1, LeaveType, StoreKept, MemoryKept DEF CheckUninitialized
  <2>2. CASE mac = NoMac
    <3>1. Goto(t, "slot1") /\ UNCHANGED <<tables, home, dek, mine, returned, started>>
          /\ overlapped' = (overlapped \/ \E u \in Thread : pc[u] \in InitWrites)
      BY <1>2, <2>2 DEF CheckUninitialized
    <3>2. MemoryType'
      BY <3>1 DEF MemoryType
    <3>3. QED
      BY <3>1, <3>2, GotoType, StoreKept DEF ThreadType
  <2>3. QED
    BY <2>1, <2>2
<1>3. CASE SaveSlot1(t)
  <2>1. ThreadType' /\ MemoryType'
    BY <1>0, <1>3, SendType, MemoryKept DEF SaveSlot1
  <2>2. StoreType'
    BY <1>1, <1>3 DEF SaveSlot1, Send, WithSlot, StoreType, meta, tables, Bounded
  <2>3. QED
    BY <2>1, <2>2
<1>4. CASE SaveSlot2(t)
  <2>1. ThreadType' /\ MemoryType'
    BY <1>4, SendType, MemoryKept DEF SaveSlot2
  <2>2. StoreType'
    BY <1>1, <1>4 DEF SaveSlot2, Send, WithSlot, StoreType, meta, tables, Bounded
  <2>3. QED
    BY <2>1, <2>2
<1>5. CASE PutHeaderMac(t)
  <2>1. ThreadType' /\ MemoryType'
    BY <1>5, SendType, MemoryKept DEF PutHeaderMac
  <2>2. [dek |-> mine[t].call, slots |-> SlotsOf(t), floor |-> mine[t].call] \in MacType
    BY <1>0, <1>1 DEF MacType
  <2>3. StoreType'
    BY <1>5, <2>2 DEF PutHeaderMac, Send, StoreType, meta, tables, Bounded
  <2>4. QED
    BY <2>1, <2>3
<1>6. CASE PutFloor(t)
  <2>1. ThreadType' /\ MemoryType'
    BY <1>6, SendType, MemoryKept DEF PutFloor
  <2>2. StoreType'
    BY <1>0, <1>6 DEF PutFloor, Send, StoreType, meta, tables, Bounded
  <2>3. QED
    BY <2>1, <2>2
<1>7. CASE PutGeneration(t)
  <2>1. ThreadType' /\ MemoryType'
    BY <1>7, SendType, MemoryKept DEF PutGeneration
  <2>2. StoreType'
    BY <1>7 DEF PutGeneration, Send, StoreType, meta, tables, Bounded
  <2>3. QED
    BY <2>1, <2>2
<1>8. QED
  BY <1>2, <1>3, <1>4, <1>5, <1>6, <1>7

LEMMA UnlockType ==
    ASSUME ThreadType, StoreType, MemoryType, NEW t \in Thread,
           ReadSlots(t) \/ ReadHeaderMac(t) \/ ReadFloor(t) \/ Probe(t) \/ CommitUnlock(t)
    PROVE  ThreadType' /\ StoreType' /\ MemoryType'
<1> USE DEF Pc
<1>1. CASE ReadSlots(t)
  BY <1>1, LearnType DEF ReadSlots, StoreType
<1>2. CASE ReadHeaderMac(t)
  BY <1>2, LearnType, RefusedType DEF ReadHeaderMac, StoreType
<1>3. CASE ReadFloor(t)
  BY <1>3, LearnType, RefusedType DEF ReadFloor, StoreType
<1>4. CASE Probe(t)
  <2>1. \A s \in mine[t].slots : s.dek \in CallId
    BY DEF ThreadType, MineType, SlotType
  <2>2. \/ Refused(t) \/ Learn(t, "ok", FALSE, "audit")
        \/ \E s \in mine[t].slots : Learn(t, "dek", s.dek, "audit")
    BY <1>4 DEF Probe
  <2>3. QED
    BY <2>1, <2>2, LearnType, RefusedType
<1>5. CASE CommitUnlock(t)
  <2>1. mine[t].dek \in CallId
    BY DEF ThreadType, MineType
  <2>2. MemoryType'
    BY <1>5, <2>1 DEF CommitUnlock, MemoryType
  <2>3. QED
    BY <1>5, <2>2, LeaveType, StoreKept DEF CommitUnlock
<1>6. QED
  BY <1>1, <1>2, <1>3, <1>4, <1>5

LEMMA PutType ==
    ASSUME ThreadType, StoreType, MemoryType, NEW t \in Thread,
           ReadMaxVersion(t) \/ Reserve(t) \/ InsertSecret(t) \/ OpenLatest(t)
    PROVE  ThreadType' /\ StoreType' /\ MemoryType'
<1> USE DEF Pc
<1>1. CASE ReadMaxVersion(t)
  <2>1. MaxVersion(secrets, mine[t].name) + 1 \in Nat
    BY MaxVersionType, TypeParts
  <2>2. QED
    BY <1>1, <2>1, LearnType, RefusedType DEF ReadMaxVersion
<1>2. CASE Reserve(t)
  <2>1. MemoryType' /\ StoreType'
    BY <1>2, MemoryKept DEF Reserve, StoreType, meta, Bounded
  <2>2. CASE Leave(t)
    <3>1. Goto(t, "idle") /\ mine' \in [Thread -> MineType]
      BY <2>2, NothingType DEF Leave, ThreadType
    <3>2. QED
      BY <1>2, <2>1, <3>1, GotoType DEF Reserve, ThreadType
  <2>3. CASE Goto(t, "insert") /\ mine' = [mine EXCEPT ![t].id = nextId + 1]
    <3>1. nextId + 1 \in Nat
      BY DEF StoreType
    <3>2. [mine[t] EXCEPT !.id = nextId + 1] \in MineType
      BY <3>1 DEF ThreadType, MineType
    <3>3. mine' \in [Thread -> MineType]
      BY <2>3, <3>2 DEF ThreadType
    <3>4. QED
      BY <1>2, <2>1, <2>3, <3>3, GotoType DEF Reserve, ThreadType
  <2>4. CASE retried' = [retried EXCEPT ![t] = TRUE] /\ UNCHANGED <<pc, mine>>
    BY <1>2, <2>1, <2>4 DEF Reserve, ThreadType
  <2>5. QED
    BY <1>2, <2>2, <2>3, <2>4 DEF Reserve
<1>3. CASE InsertSecret(t)
  <2>1. Row(t) \in RowType
    BY DEF Row, RowType, ThreadType, MineType
  <2>2. CASE Accepts(Row(t))
    <3>1. ThreadType' /\ MemoryType'
      BY <1>3, <2>2, SendType, MemoryKept DEF InsertSecret
    <3>2. \/ secrets' = secrets \cup {Row(t)} /\ UNCHANGED <<slots, meta, nextId, log>>
          \/ UNCHANGED tables
      BY <1>3, <2>2 DEF InsertSecret, Send
    <3>3. CASE secrets' = secrets \cup {Row(t)} /\ UNCHANGED <<slots, meta, nextId, log>>
      <4>1. PICK b \in Nat : \A r \in secrets : r.version <= b
        BY DEF StoreType, Bounded
      <4>2. Row(t).version \in Nat
        BY <2>1 DEF RowType
      <4>3. \A r \in secrets : r.version \in Nat
        BY DEF StoreType, RowType
      <4>4. \A r \in secrets' : r.version <= b + Row(t).version
        BY <3>3, <4>1, <4>2, <4>3
      <4>5. b + Row(t).version \in Nat
        BY <4>2
      <4>6. Bounded'
        BY <4>4, <4>5 DEF Bounded
      <4>7. QED
        BY <2>1, <3>1, <3>3, <4>6 DEF StoreType, meta
    <3>4. QED
      BY <3>1, <3>2, <3>3, StoreKept
  <2>3. QED
    BY <1>3, <2>2, RefusedType DEF InsertSecret, Rejected
<1>4. CASE OpenLatest(t)
  BY <1>4, LearnType DEF OpenLatest
<1>5. QED
  BY <1>1, <1>2, <1>3, <1>4

LEMMA LastIsElement ==
    ASSUME NEW T, NEW q \in Seq(T), q # <<>>
    PROVE  Len(q) \in 1 .. Len(q) /\ q[Len(q)] \in T
  OBVIOUS

LEMMA AppendIsSeq ==
    ASSUME NEW T, NEW q \in Seq(T), NEW e \in T
    PROVE  Append(q, e) \in Seq(T)
  OBVIOUS

LEMMA TailType ==
    ASSUME StoreType
    PROVE  TailOf(log) \in CallId /\ Len(log) \in Nat
<1>1. log \in Seq([by : CallId, after : CallId]) /\ Len(log) \in Nat
  BY DEF StoreType
<1>2. CASE log = <<>>
  BY <1>1, <1>2 DEF TailOf, CallId
<1>3. CASE log # <<>>
  <2>1. log[Len(log)] \in [by : CallId, after : CallId]
    BY <1>1, <1>3, LastIsElement
  <2>2. QED
    BY <1>1, <1>3, <2>1 DEF TailOf
<1>4. QED
  BY <1>2, <1>3

LEMMA AuditType ==
    ASSUME ThreadType, StoreType, MemoryType, NEW t \in Thread, ReadTail(t) \/ AppendRow(t)
    PROVE  ThreadType' /\ StoreType' /\ MemoryType'
<1> USE DEF Pc
<1>1. CASE ReadTail(t)
  <2>1. [mine[t] EXCEPT !.tail = TailOf(log), !.seq = Len(log) + 1] \in MineType
    <3>1. mine[t] \in MineType /\ TailOf(log) \in CallId /\ Len(log) + 1 \in Nat
      BY TailType DEF ThreadType
    <3>2. QED
      BY <3>1 DEF MineType
  <2>2. mine' \in [Thread -> MineType]
    BY <1>1, <2>1 DEF ReadTail, ThreadType
  <2>3. QED
    BY <1>1, <2>2, GotoType, StoreKept, MemoryKept DEF ReadTail, ThreadType
<1>2. CASE AppendRow(t)
  <2>1. AuditRow(t) \in [by : CallId, after : CallId]
    BY DEF AuditRow, ThreadType, MineType
  <2>2. CASE Collides(t)
    BY <1>2, <2>2, RefusedType DEF AppendRow, Collision
  <2>3. CASE ~Collides(t)
    <3>1. /\ UNCHANGED <<slots, meta, secrets, nextId, memory>>
          /\ log' \in {log, Append(log, AuditRow(t))}
          /\ \/ Audited(t) \/ Fail(t)
             \/ retried' = [retried EXCEPT ![t] = TRUE] /\ UNCHANGED <<pc, mine, returned, started>>
      BY <1>2, <2>3 DEF AppendRow
    <3>2. log' \in Seq([by : CallId, after : CallId])
      <4>1. log \in Seq([by : CallId, after : CallId])
        BY DEF StoreType
      <4>2. Append(log, AuditRow(t)) \in Seq([by : CallId, after : CallId])
        BY <2>1, <4>1, AppendIsSeq
      <4>3. QED
        BY <3>1, <4>1, <4>2
    <3>3. StoreType' /\ MemoryType'
      BY <3>1, <3>2, MemoryKept DEF StoreType, meta, Bounded
    <3>4. ThreadType'
      BY <3>1, GotoType, LeaveType DEF Audited, ThreadType
    <3>5. QED
      BY <3>3, <3>4
  <2>4. QED
    BY <2>2, <2>3
<1>3. QED
  BY <1>1, <1>2

LEMMA FaultType ==
    ASSUME ThreadType, StoreType, MemoryType,
           (\E t \in Thread : StoreFails(t)) \/ (\E d \in Daemon : Crash(d))
    PROVE  ThreadType' /\ StoreType' /\ MemoryType'
<1>1. CASE \E t \in Thread : StoreFails(t)
  BY <1>1, LeaveType, StoreKept, MemoryKept DEF StoreFails
<1>2. CASE \E d \in Daemon : Crash(d)
  <2>1. PICK d \in Daemon : Crash(d)
    BY <1>2
  <2>2. MemoryType' /\ StoreType'
    BY <2>1, StoreKept DEF Crash, MemoryType, CallId
  <2>3. ThreadType'
    BY <2>1, NothingType DEF Crash, ThreadType, Pc
  <2>4. QED
    BY <2>2, <2>3
<1>3. QED
  BY <1>1, <1>2

LEMMA NextTyped == TypeOK /\ Bounded /\ [Next]_vars => (TypeOK /\ Bounded)'
<1> SUFFICES ASSUME ThreadType, StoreType, MemoryType, [Next]_vars
             PROVE  ThreadType' /\ StoreType' /\ MemoryType'
  BY TypeParts, TypePartsNext
<1>1. CASE UNCHANGED vars
  BY <1>1, StoreKept, MemoryKept DEF vars, ThreadType
<1>2. CASE Next
  <2>1. CASE \E t \in Thread : Step(t)
    <3>1. PICK t \in Thread : Step(t)
      BY <2>1
    <3>2. QED
      BY <3>1, InitWritesType, UnlockType, PutType, AuditType DEF Step
  <2>2. CASE \E t \in Thread : Begin(t)
    BY <2>2, BeginType
  <2>3. CASE (\E t \in Thread : StoreFails(t)) \/ (\E d \in Daemon : Crash(d))
    BY <2>3, FaultType
  <2>4. CASE Finished
    BY <1>1, <2>4 DEF Finished
  <2>5. QED
    BY <1>2, <2>1, <2>2, <2>3, <2>4 DEF Next
<1>3. QED
  BY <1>1, <1>2

LEMMA TypedAndBounded == Spec => [](TypeOK /\ Bounded)
  BY InitTyped, NextTyped, PTL DEF Spec

(* Every reachable state is typed, for any number of daemons and calls.    *)
THEOREM TypeCorrect == Spec => []TypeOK
  BY TypedAndBounded, PTL
-----------------------------------------------------------------------------
(* Where a thread is, and whose call it makes.                             *)
Ops ==
    \A t \in Thread :
        /\ pc[t] \in {"check"} \cup InitWrites => mine[t].op = "init"
        /\ pc[t] \in {"slots", "readMac", "readFloor", "readGeneration", "commit"} => mine[t].op = "unlock"
        /\ pc[t] \in {"version", "reserve", "insert"} => mine[t].op = "put"
        /\ pc[t] = "row" => mine[t].op = "get"

(* No two threads make one call, and nothing is by a call to come.         *)
Calls ==
    /\ \A t \in Thread : pc[t] # "idle" => mine[t].call \in 1 .. started
    /\ \A t, u \in Thread : pc[t] # "idle" /\ pc[u] # "idle" /\ mine[t].call = mine[u].call => t = u
    /\ \A i \in 1 .. Len(log) : log[i].by \in 1 .. started
    /\ \A r \in secrets : r.body \in 1 .. started

(* A call is in the log from its append on, and not before.  Once it is in *)
(* the log, sending its row again collides.                                *)
InLog(t) == \E i \in 1 .. Len(log) : log[i].by = mine[t].call
Chained ==
    \A t \in Thread :
        /\ pc[t] \notin {"idle", "append", "commit"} => ~InLog(t)
        /\ pc[t] = "append" => /\ mine[t].seq \in 1 .. Len(log) + 1
                               /\ mine[t].seq = Len(log) + 1 => mine[t].tail = TailOf(log) /\ ~InLog(t)
        /\ pc[t] = "commit" => InLog(t)

(* A put is in the store from its insert on, and its row id is then taken. *)
InStore(t) == \E q \in secrets : q.body = mine[t].call
Stored ==
    \A t \in Thread :
        /\ pc[t] \in {"version", "reserve"} => ~InStore(t)
        /\ pc[t] = "insert" /\ InStore(t) => \E q \in secrets : q.id = mine[t].id
        /\ pc[t] \in {"audit", "append"} /\ mine[t].op = "put" => InStore(t)

Placed == Ops /\ Calls /\ Chained /\ Stored
IInv == TypeOK /\ Bounded /\ Placed /\ OkMeansAudited /\ PutOnce
-----------------------------------------------------------------------------
(* What a step of a thread can do to the log and to the secrets ...        *)
Quiet == UNCHANGED <<log, secrets>>
Inserts(t) ==
    pc[t] = "insert" /\ Accepts(Row(t)) /\ log' = log /\ secrets' = secrets \cup {Row(t)}
Appends(t) ==
    pc[t] = "append" /\ ~Collides(t) /\ log' = Append(log, AuditRow(t)) /\ secrets' = secrets

(* ... and to the thread itself.                                           *)
Others(t) == \A u \in Thread \ {t} : pc'[u] = pc[u] /\ mine'[u] = mine[u]
Same(t) == mine'[t].call = mine[t].call /\ mine'[t].op = mine[t].op
NoReturn == returned' = returned /\ started' = started

Stays(t) == pc'[t] = pc[t] /\ mine'[t] = mine[t] /\ NoReturn /\ (Quiet \/ Inserts(t) \/ Appends(t))
Gone(t) == pc'[t] = "idle" /\ NoReturn /\ (Quiet \/ Inserts(t) \/ Appends(t))
Returns(t) ==
    /\ pc'[t] = "idle"
    /\ returned' = returned \cup {[op |-> mine[t].op, call |-> mine[t].call]}
    /\ started' = started
    /\ (pc[t] = "commit" /\ Quiet) \/ Appends(t)
Begins(t) ==
    /\ pc[t] = "idle" /\ Quiet
    /\ started' = started + 1 /\ returned' = returned
    /\ mine'[t].call = started + 1
    /\ \/ pc'[t] = "check" /\ mine'[t].op = "init"
       \/ pc'[t] = "slots" /\ mine'[t].op = "unlock"
       \/ pc'[t] = "version" /\ mine'[t].op = "put"
       \/ pc'[t] = "row" /\ mine'[t].op = "get"
       \/ pc'[t] = "audit" /\ mine'[t].op = "lock"
Advances(t) ==
    /\ Quiet /\ NoReturn /\ Same(t)
    /\ \/ /\ pc[t] \in {"check"} \cup InitWrites
          /\ pc'[t] \in InitWrites \cup {"audit"}
       \/ /\ pc[t] \in {"slots", "readMac", "readFloor", "readGeneration"}
          /\ pc'[t] \in {"readMac", "readFloor", "readGeneration", "audit"}
       \/ pc[t] = "version" /\ pc'[t] = "reserve"
       \/ pc[t] = "reserve" /\ pc'[t] = "insert"
       \/ pc[t] = "row" /\ pc'[t] = "audit"
Inserted(t) == Inserts(t) /\ NoReturn /\ Same(t) /\ pc'[t] = "audit"
ReadsTail(t) ==
    /\ Quiet /\ NoReturn /\ Same(t)
    /\ pc[t] = "audit" /\ pc'[t] = "append"
    /\ mine'[t].tail = TailOf(log) /\ mine'[t].seq = Len(log) + 1
Commits(t) ==
    Appends(t) /\ NoReturn /\ Same(t) /\ pc'[t] = "commit" /\ mine[t].op = "unlock"

Shape(t) ==
    /\ Others(t)
    /\ \/ Stays(t) \/ Gone(t) \/ Returns(t) \/ Begins(t)
       \/ Advances(t) \/ Inserted(t) \/ ReadsTail(t) \/ Commits(t)

LEMMA GotoOthers ==
    ASSUME ThreadType, NEW t \in Thread, NEW label, Goto(t, label)
    PROVE  pc'[t] = label /\ \A u \in Thread \ {t} : pc'[u] = pc[u]
  BY DEF Goto, ThreadType

LEMMA LeaveOthers ==
    ASSUME ThreadType, NEW t \in Thread, Leave(t)
    PROVE  pc'[t] = "idle" /\ Others(t)
  BY GotoOthers DEF Leave, Others, ThreadType

LEMMA FailGoes ==
    ASSUME ThreadType, NEW t \in Thread, Fail(t), Quiet \/ Inserts(t) \/ Appends(t)
    PROVE  Shape(t)
  BY LeaveOthers DEF Fail, Shape, Gone, NoReturn

LEMMA RefusedGoes ==
    ASSUME ThreadType, NEW t \in Thread, Refused(t)
    PROVE  Shape(t)
  BY FailGoes DEF Refused, tables, Quiet

LEMMA LearnAdvances ==
    ASSUME ThreadType, NEW t \in Thread, NEW label, NEW what,
           NEW field \in {"ok", "slots", "mac", "floor", "dek", "version"}, Learn(t, field, what, label)
    PROVE  Others(t) /\ Quiet /\ NoReturn /\ Same(t) /\ pc'[t] = label
<1>1. Goto(t, label)
  BY DEF Learn
<1>2. mine[t] \in MineType
  BY DEF ThreadType
<1>3. Same(t) /\ \A u \in Thread \ {t} : mine'[u] = mine[u]
  BY <1>2 DEF Learn, Same, ThreadType, MineType
<1>4. QED
  BY <1>1, <1>3, GotoOthers DEF Learn, Others, Quiet, NoReturn, tables

(* A statement outside the log and the secrets.                            *)
LEMMA SendGoes ==
    ASSUME ThreadType, NEW t \in Thread, NEW label, NEW ACTION effect, Send(t, effect, label),
           effect => Quiet
    PROVE  Shape(t) \/ (Others(t) /\ Quiet /\ NoReturn /\ Same(t) /\ pc'[t] = label)
<1>1. Quiet
  BY DEF Send, tables, Quiet
<1>2. CASE Fail(t)
  BY <1>1, <1>2, FailGoes
<1>3. CASE UNCHANGED <<pc, mine, returned, started>>
  BY <1>1, <1>3 DEF Shape, Stays, Others, NoReturn
<1>4. CASE Goto(t, label) /\ UNCHANGED <<mine, returned, started>>
  BY <1>1, <1>4, GotoOthers DEF Others, NoReturn, Same
<1>5. QED
  BY <1>2, <1>3, <1>4 DEF Send

LEMMA InitGoes ==
    ASSUME ThreadType, NEW t \in Thread,
           \/ CheckUninitialized(t) \/ SaveSlot1(t) \/ SaveSlot2(t)
           \/ PutHeaderMac(t) \/ PutFloor(t) \/ PutGeneration(t)
    PROVE  Shape(t)
<1>1. CASE CheckUninitialized(t)
  <2>1. CASE mac # NoMac
    BY <1>1, <2>1, FailGoes DEF CheckUninitialized, tables, Quiet
  <2>2. CASE mac = NoMac
    <3>1. pc[t] = "check" /\ Goto(t, "slot1") /\ UNCHANGED <<tables, home, dek, mine, returned, started>>
      BY <1>1, <2>2 DEF CheckUninitialized
    <3>2. Others(t) /\ Advances(t)
      BY <3>1, GotoOthers DEF Others, Advances, NoReturn, Same, Quiet, tables, InitWrites
    <3>3. QED
      BY <3>2 DEF Shape
  <2>3. QED
    BY <2>1, <2>2
<1>2. CASE ~CheckUninitialized(t)
  <2>1. pc[t] \in InitWrites
    BY <1>2 DEF SaveSlot1, SaveSlot2, PutHeaderMac, PutFloor, PutGeneration, InitWrites
  <2>2. Shape(t) \/ \E label \in InitWrites \cup {"audit"} :
            Others(t) /\ Quiet /\ NoReturn /\ Same(t) /\ pc'[t] = label
    <3>1. CASE SaveSlot1(t)
      BY <3>1, SendGoes DEF SaveSlot1, Quiet, InitWrites
    <3>2. CASE SaveSlot2(t)
      BY <3>2, SendGoes DEF SaveSlot2, Quiet, InitWrites
    <3>3. CASE PutHeaderMac(t)
      BY <3>3, SendGoes DEF PutHeaderMac, Quiet, InitWrites
    <3>4. CASE PutFloor(t)
      BY <3>4, SendGoes DEF PutFloor, Quiet, InitWrites
    <3>5. CASE PutGeneration(t)
      BY <3>5, SendGoes DEF PutGeneration, Quiet, InitWrites
    <3>6. QED
      BY <1>2, <3>1, <3>2, <3>3, <3>4, <3>5
  <2>3. QED
    BY <2>1, <2>2 DEF Shape, Advances
<1>3. QED
  BY <1>1, <1>2

LEMMA UnlockGoes ==
    ASSUME ThreadType, NEW t \in Thread,
           ReadSlots(t) \/ ReadHeaderMac(t) \/ ReadFloor(t) \/ Probe(t) \/ CommitUnlock(t)
    PROVE  Shape(t)
<1>1. CASE CommitUnlock(t)
  <2>1. pc[t] = "commit" /\ Return(t) /\ UNCHANGED tables
    BY <1>1 DEF CommitUnlock
  <2>2. Returns(t) /\ Others(t)
    BY <2>1, LeaveOthers DEF Return, Returns, Quiet, tables
  <2>3. QED
    BY <2>2 DEF Shape
<1>2. CASE ~CommitUnlock(t)
  <2>1. pc[t] \in {"slots", "readMac", "readFloor", "readGeneration"}
    BY <1>2 DEF ReadSlots, ReadHeaderMac, ReadFloor, Probe
  <2>2. Refused(t) \/ (Others(t) /\ Advances(t))
    <3>1. CASE ReadSlots(t)
      BY <2>1, <3>1, LearnAdvances DEF ReadSlots, Advances
    <3>2. CASE ReadHeaderMac(t)
      BY <2>1, <3>2, LearnAdvances DEF ReadHeaderMac, Advances
    <3>3. CASE ReadFloor(t)
      BY <2>1, <3>3, LearnAdvances DEF ReadFloor, Advances
    <3>4. CASE Probe(t)
      <4>1. \/ Refused(t) \/ Learn(t, "ok", FALSE, "audit")
            \/ \E s \in mine[t].slots : Learn(t, "dek", s.dek, "audit")
        BY <3>4 DEF Probe
      <4>2. QED
        BY <2>1, <4>1, LearnAdvances DEF Advances
    <3>5. QED
      BY <1>2, <3>1, <3>2, <3>3, <3>4
  <2>3. QED
    BY <2>2, RefusedGoes DEF Shape
<1>3. QED
  BY <1>1, <1>2

LEMMA PutGoes ==
    ASSUME ThreadType, NEW t \in Thread,
           ReadMaxVersion(t) \/ Reserve(t) \/ InsertSecret(t) \/ OpenLatest(t)
    PROVE  Shape(t)
<1>1. CASE ReadMaxVersion(t)
  BY <1>1, RefusedGoes, LearnAdvances DEF ReadMaxVersion, Shape, Advances
<1>2. CASE Reserve(t)
  <2>1. pc[t] = "reserve" /\ Quiet /\ NoReturn
    BY <1>2 DEF Reserve, Quiet, NoReturn
  <2>2. CASE Leave(t)
    BY <2>1, <2>2, LeaveOthers DEF Shape, Gone
  <2>3. CASE Goto(t, "insert") /\ mine' = [mine EXCEPT ![t].id = nextId + 1]
    <3>1. mine[t] \in MineType
      BY DEF ThreadType
    <3>2. Others(t) /\ Same(t)
      BY <2>3, <3>1, GotoOthers DEF Others, Same, ThreadType, MineType
    <3>3. QED
      BY <2>1, <2>3, <3>2, GotoOthers DEF Shape, Advances
  <2>4. CASE UNCHANGED <<pc, mine>>
    BY <2>1, <2>4 DEF Shape, Stays, Others
  <2>5. QED
    BY <1>2, <2>2, <2>3, <2>4 DEF Reserve
<1>3. CASE InsertSecret(t)
  <2>1. CASE Accepts(Row(t))
    <3>1. /\ pc[t] = "insert"
          /\ Send(t, secrets' = secrets \cup {Row(t)} /\ UNCHANGED <<slots, meta, nextId, log>>, "audit")
      BY <1>3, <2>1 DEF InsertSecret
    <3>2. Quiet \/ Inserts(t)
      BY <2>1, <3>1 DEF Send, Quiet, Inserts, tables
    <3>3. CASE Fail(t)
      BY <3>2, <3>3, FailGoes
    <3>4. CASE UNCHANGED <<pc, mine, returned, started>>
      BY <3>2, <3>4 DEF Shape, Stays, Others, NoReturn
    <3>5. CASE Goto(t, "audit") /\ UNCHANGED <<mine, returned, started>>
               /\ secrets' = secrets \cup {Row(t)} /\ log' = log
      BY <2>1, <3>1, <3>5, GotoOthers DEF Shape, Inserted, Inserts, Others, NoReturn, Same
    <3>6. QED
      BY <3>1, <3>3, <3>4, <3>5 DEF Send
  <2>2. QED
    BY <1>3, <2>1, RefusedGoes DEF InsertSecret, Rejected
<1>4. CASE OpenLatest(t)
  BY <1>4, LearnAdvances DEF OpenLatest, Shape, Advances
<1>5. QED
  BY <1>1, <1>2, <1>3, <1>4

LEMMA AuditGoes ==
    ASSUME ThreadType, NEW t \in Thread, ReadTail(t) \/ AppendRow(t)
    PROVE  Shape(t)
<1>0. mine[t] \in MineType
  BY DEF ThreadType
<1>1. CASE ReadTail(t)
  <2>1. Others(t) /\ pc'[t] = "append"
    BY <1>1, GotoOthers DEF ReadTail, Others, ThreadType
  <2>2. Same(t) /\ mine'[t].tail = TailOf(log) /\ mine'[t].seq = Len(log) + 1
    BY <1>0, <1>1 DEF ReadTail, Same, ThreadType, MineType
  <2>3. QED
    BY <1>1, <2>1, <2>2 DEF ReadTail, Shape, ReadsTail, Quiet, NoReturn, tables
<1>2. CASE AppendRow(t)
  <2>1. CASE Collides(t)
    BY <1>2, <2>1, RefusedGoes DEF AppendRow, Collision
  <2>2. CASE ~Collides(t)
    <3>1. pc[t] = "append" /\ secrets' = secrets
      BY <1>2, <2>2 DEF AppendRow
    <3>2. CASE log' \in {log, Append(log, AuditRow(t))} /\ UNCHANGED <<pc, mine, returned, started>>
      BY <2>2, <3>1, <3>2 DEF Shape, Stays, Others, NoReturn, Appends, Quiet
    <3>3. CASE log' = Append(log, AuditRow(t)) /\ Fail(t)
      BY <2>2, <3>1, <3>3, FailGoes DEF Appends
    <3>4. CASE log' = Append(log, AuditRow(t)) /\ Return(t)
      BY <2>2, <3>1, <3>4, LeaveOthers DEF Return, Shape, Returns, Appends
    <3>5. CASE /\ log' = Append(log, AuditRow(t))
               /\ mine[t].op = "unlock" /\ Goto(t, "commit") /\ UNCHANGED <<mine, returned, started>>
      BY <2>2, <3>1, <3>5, GotoOthers DEF Shape, Commits, Appends, Others, NoReturn, Same
    <3>6. QED
      BY <1>2, <2>2, <3>2, <3>3, <3>4, <3>5 DEF AppendRow, Audited
  <2>3. QED
    BY <2>1, <2>2
<1>3. QED
  BY <1>1, <1>2

LEMMA StartGoes ==
    ASSUME ThreadType, NEW t \in Thread, NEW call, NEW label, Start(t, call, label),
           call.call = started + 1
    PROVE  /\ Others(t) /\ pc[t] = "idle" /\ Quiet /\ started' = started + 1 /\ returned' = returned
           /\ mine'[t].call = started + 1 /\ mine'[t].op = call.op /\ pc'[t] = label
  BY GotoOthers DEF Start, Others, Quiet, tables, ThreadType

LEMMA BeginGoes ==
    ASSUME ThreadType, NEW t \in Thread, Begin(t)
    PROVE  Shape(t)
<1> USE DEF Op
<1>1. CASE StartInit(t)
  <2>1. PICK usb \in BOOLEAN : Start(t, [Call("init") EXCEPT !.usb = usb], "check")
    BY <1>1 DEF StartInit
  <2> DEFINE call == [Call("init") EXCEPT !.usb = usb]
  <2>2. call.call = started + 1 /\ call.op = "init"
    BY CallType DEF MineType
  <2> HIDE DEF call
  <2>3. Start(t, call, "check")
    BY <2>1 DEF call
  <2>4. QED
    BY <2>2, <2>3, StartGoes DEF Shape, Begins
<1>2. CASE StartUnlock(t)
  BY <1>2, CallType, StartGoes DEF StartUnlock, Shape, Begins
<1>3. CASE StartLock(t)
  BY <1>3, CallType, GotoOthers DEF StartLock, Shape, Begins, Others, Quiet, tables, ThreadType
<1>4. CASE StartPut(t)
  <2>1. PICK n \in Name : Start(t, [Call("put") EXCEPT !.name = n, !.dek = dek[home[t]]], "version")
    BY <1>4 DEF StartPut
  <2> DEFINE call == [Call("put") EXCEPT !.name = n, !.dek = dek[home[t]]]
  <2>2. call.call = started + 1 /\ call.op = "put"
    BY CallType DEF MineType
  <2> HIDE DEF call
  <2>3. Start(t, call, "version")
    BY <2>1 DEF call
  <2>4. QED
    BY <2>2, <2>3, StartGoes DEF Shape, Begins
<1>5. CASE StartGet(t)
  <2>1. PICK n \in Name : Start(t, [Call("get") EXCEPT !.name = n, !.dek = dek[home[t]]], "row")
    BY <1>5 DEF StartGet
  <2> DEFINE call == [Call("get") EXCEPT !.name = n, !.dek = dek[home[t]]]
  <2>2. call.call = started + 1 /\ call.op = "get"
    BY CallType DEF MineType
  <2> HIDE DEF call
  <2>3. Start(t, call, "row")
    BY <2>1 DEF call
  <2>4. QED
    BY <2>2, <2>3, StartGoes DEF Shape, Begins
<1>6. QED
  BY <1>1, <1>2, <1>3, <1>4, <1>5 DEF Begin

(* Every step but a crash is one of a thread, of such a shape.             *)
CrashShape ==
    /\ Quiet /\ NoReturn
    /\ \A u \in Thread : pc'[u] = "idle" \/ (pc'[u] = pc[u] /\ mine'[u] = mine[u])

LEMMA EveryShape ==
    ASSUME ThreadType, [Next]_vars
    PROVE  CrashShape \/ \E t \in Thread : Shape(t)
<1>1. CASE UNCHANGED vars
  BY <1>1 DEF vars, CrashShape, Quiet, NoReturn, tables
<1>2. CASE \E t \in Thread : Step(t)
  BY <1>2, InitGoes, UnlockGoes, PutGoes, AuditGoes DEF Step
<1>3. CASE \E t \in Thread : Begin(t)
  BY <1>3, BeginGoes
<1>4. CASE \E t \in Thread : StoreFails(t)
  BY <1>4, FailGoes DEF StoreFails, tables, Quiet
<1>5. CASE \E d \in Daemon : Crash(d)
  BY <1>5 DEF Crash, CrashShape, Quiet, NoReturn, tables, ThreadType
<1>6. CASE Finished
  BY <1>1, <1>6 DEF Finished
<1>7. QED
  BY <1>1, <1>2, <1>3, <1>4, <1>5, <1>6 DEF Next
-----------------------------------------------------------------------------
(* The log and the secrets only grow, each by the row of a caller.         *)
LEMMA LogGrows ==
    ASSUME StoreType, NEW t \in Thread, Quiet \/ Inserts(t) \/ Appends(t)
    PROVE  /\ Len(log) \in Nat /\ Len(log') \in Nat /\ Len(log) <= Len(log')
           /\ \A i \in 1 .. Len(log) : log'[i] = log[i]
           /\ log' = log \/ (Len(log') = Len(log) + 1 /\ log'[Len(log')] = AuditRow(t))
<1>1. log \in Seq([by : CallId, after : CallId])
  BY DEF StoreType
<1>2. Len(log) \in Nat
  BY <1>1
<1>3. CASE log' = log
  <2>1. Len(log') = Len(log)
    BY <1>3
  <2>2. QED
    BY <1>2, <1>3, <2>1
<1>4. CASE log' = Append(log, AuditRow(t))
  <2>1. Len(log') = Len(log) + 1 /\ log'[Len(log) + 1] = AuditRow(t)
        /\ \A i \in 1 .. Len(log) : log'[i] = log[i]
    BY <1>1, <1>4
  <2>2. QED
    BY <1>2, <2>1
<1>5. QED
  BY <1>3, <1>4 DEF Quiet, Inserts, Appends

LEMMA AppendRowFields ==
    ASSUME NEW t \in Thread
    PROVE  AuditRow(t).by = mine[t].call /\ AuditRow(t).after = mine[t].tail
           /\ Row(t).body = mine[t].call /\ Row(t).id = mine[t].id
  BY DEF AuditRow, Row

LEMMA InitPlaced == Init => Placed /\ OkMeansAudited /\ PutOnce
<1> SUFFICES ASSUME Init PROVE Placed /\ OkMeansAudited /\ PutOnce
  OBVIOUS
<1>1. PICK n \in 0 .. Before : log = Linked(n)
  BY DEF Init
<1>2. n \in Nat /\ n <= Before /\ Before \in Nat
  BY BeforeType
<1>3. Len(log) = n /\ DOMAIN log = 1 .. n /\ \A i \in 1 .. n : log[i].by = i
  BY <1>1, <1>2 DEF Linked
<1>4. secrets = {} /\ started = Before /\ \A t \in Thread : pc[t] = "idle"
  BY DEF Init, StoreInit
<1>5. Ops /\ Chained /\ Stored
  BY <1>4 DEF Ops, Chained, Stored, InitWrites
<1>6. Calls
  BY <1>2, <1>3, <1>4 DEF Calls
<1>7. \A r \in returned : r.call \in 1 .. n /\ r.op # "put"
  BY <1>3 DEF Init
<1>8. OkMeansAudited
  BY <1>3, <1>7 DEF OkMeansAudited
<1>9. PutOnce
  BY <1>4, <1>7 DEF PutOnce
<1>10. QED
  BY <1>5, <1>6, <1>8, <1>9 DEF Placed

LEMMA CrashKeeps ==
    ASSUME IInv, CrashShape
    PROVE  Placed' /\ OkMeansAudited' /\ PutOnce'
<1>1. /\ log' = log /\ secrets' = secrets /\ returned' = returned /\ started' = started
      /\ Len(log') = Len(log) /\ TailOf(log') = TailOf(log)
  BY DEF CrashShape, Quiet, NoReturn
<1>2. \A u \in Thread : pc'[u] # "idle" => pc'[u] = pc[u] /\ mine'[u] = mine[u]
  BY DEF CrashShape
<1>3. Ops'
  BY <1>2 DEF IInv, Placed, Ops, InitWrites
<1>4. Calls'
  BY <1>1, <1>2 DEF IInv, Placed, Calls
<1>5. Chained'
  BY <1>1, <1>2 DEF IInv, Placed, Chained, InLog
<1>6. Stored'
  BY <1>1, <1>2 DEF IInv, Placed, Stored, InStore
<1>7. OkMeansAudited' /\ PutOnce'
  BY <1>1 DEF IInv, OkMeansAudited, PutOnce
<1>8. QED
  BY <1>3, <1>4, <1>5, <1>6, <1>7 DEF Placed

(* A thread of its own call never stores or appends it twice.              *)
LEMMA RowIsNew ==
    ASSUME IInv, NEW t \in Thread
    PROVE  /\ Inserts(t) => ~InStore(t)
           /\ Appends(t) => /\ ~InLog(t) /\ mine[t].tail = TailOf(log) /\ mine[t].seq = Len(log) + 1
<1>1. ASSUME Inserts(t) PROVE ~InStore(t)
  BY <1>1, AppendRowFields DEF Inserts, Accepts, IInv, Placed, Stored
<1>2. ASSUME Appends(t) PROVE ~InLog(t) /\ mine[t].tail = TailOf(log) /\ mine[t].seq = Len(log) + 1
  <2>1. mine[t].seq \in 1 .. Len(log) + 1 /\ ~(mine[t].seq <= Len(log)) /\ Len(log) \in Nat
    BY <1>2, TailType, TypeParts DEF Appends, Collides, IInv, Placed, Chained
  <2>2. mine[t].seq = Len(log) + 1
    BY <2>1
  <2>3. QED
    BY <1>2, <2>2 DEF Appends, IInv, Placed, Chained
<1>3. QED
  BY <1>1, <1>2
-----------------------------------------------------------------------------
LEMMA SecretsGrow ==
    ASSUME NEW t \in Thread, Quiet \/ Inserts(t) \/ Appends(t)
    PROVE  secrets' = secrets \/ (Inserts(t) /\ secrets' = secrets \cup {Row(t)})
  BY DEF Quiet, Inserts, Appends

LEMMA ShapeTables ==
    ASSUME NEW t \in Thread, Shape(t)
    PROVE  Quiet \/ Inserts(t) \/ Appends(t)
  BY DEF Shape, Stays, Gone, Returns, Begins, Advances, Inserted, ReadsTail, Commits

LEMMA OpsKept ==
    ASSUME IInv, NEW t \in Thread, Shape(t)
    PROVE  Ops'
<1>1. \A u \in Thread \ {t} : pc'[u] = pc[u] /\ mine'[u] = mine[u]
  BY DEF Shape, Others
<1>2. /\ pc'[t] \in {"check"} \cup InitWrites => mine'[t].op = "init"
      /\ pc'[t] \in {"slots", "readMac", "readFloor", "readGeneration", "commit"} => mine'[t].op = "unlock"
      /\ pc'[t] \in {"version", "reserve", "insert"} => mine'[t].op = "put"
      /\ pc'[t] = "row" => mine'[t].op = "get"
  <2> USE DEF InitWrites
  <2>1. CASE Stays(t)
    BY <2>1 DEF Stays, IInv, Placed, Ops
  <2>2. CASE Gone(t) \/ Returns(t)
    BY <2>2 DEF Gone, Returns
  <2>3. CASE Begins(t)
    BY <2>3 DEF Begins
  <2>4. CASE Advances(t)
    BY <2>4 DEF Advances, Same, IInv, Placed, Ops
  <2>5. CASE Inserted(t) \/ ReadsTail(t) \/ Commits(t)
    BY <2>5 DEF Inserted, ReadsTail, Commits, Same
  <2>6. QED
    BY <2>1, <2>2, <2>3, <2>4, <2>5 DEF Shape
<1>3. QED
  BY <1>1, <1>2 DEF IInv, Placed, Ops

LEMMA CallsKept ==
    ASSUME IInv, NEW t \in Thread, Shape(t)
    PROVE  Calls'
<1> USE DEF Shape
<1>0. started \in Nat /\ (started' = started \/ started' = started + 1)
  BY DEF IInv, TypeOK, Stays, Gone, Returns, Begins, Advances, Inserted, ReadsTail, Commits, NoReturn
<1>1. \A u \in Thread \ {t} : pc'[u] = pc[u] /\ mine'[u] = mine[u]
  BY DEF Others
<1>2. \/ pc'[t] = "idle"
      \/ pc[t] # "idle" /\ mine'[t].call = mine[t].call
      \/ mine'[t].call = started + 1 /\ started' = started + 1
      \/ pc'[t] = pc[t] /\ mine'[t] = mine[t]
  BY DEF Stays, Gone, Returns, Begins, Advances, Inserted, ReadsTail, Commits, Inserts, Appends, Same, InitWrites
<1>3. \A i \in 1 .. started : i \in 1 .. started' /\ i # started + 1
  BY <1>0
<1>4. \A u \in Thread : pc'[u] # "idle" => mine'[u].call \in 1 .. started'
  BY <1>0, <1>1, <1>2, <1>3 DEF IInv, Placed, Calls
<1>5. \A u, v \in Thread : pc'[u] # "idle" /\ pc'[v] # "idle" /\ mine'[u].call = mine'[v].call => u = v
  BY <1>1, <1>2, <1>3 DEF IInv, Placed, Calls
<1>6. (Inserts(t) \/ Appends(t)) => mine[t].call \in 1 .. started'
  BY <1>3 DEF Inserts, Appends, IInv, Placed, Calls
<1>7. \A r \in secrets' : r.body \in 1 .. started'
  BY <1>3, <1>6, ShapeTables, SecretsGrow, AppendRowFields DEF IInv, Placed, Calls
<1>8. \A i \in 1 .. Len(log') : log'[i].by \in 1 .. started'
  <2>1. CASE log' = log
    <3>1. Len(log') = Len(log)
      BY <2>1
    <3>2. QED
      BY <1>3, <2>1, <3>1 DEF IInv, Placed, Calls
  <2>2. CASE log' # log
    <3>1. Appends(t)
      BY <2>2, ShapeTables DEF Quiet, Inserts
    <3>2. Len(log) \in Nat /\ Len(log') = Len(log) + 1 /\ log'[Len(log')] = AuditRow(t)
          /\ \A i \in 1 .. Len(log) : log'[i] = log[i]
      BY <2>2, <3>1, LogGrows, TypeParts DEF IInv
    <3>3. \A i \in 1 .. Len(log') : i \in 1 .. Len(log) \/ i = Len(log')
      BY <3>2
    <3>4. QED
      BY <1>3, <1>6, <3>1, <3>2, <3>3, AppendRowFields DEF IInv, Placed, Calls
  <2>3. QED
    BY <2>1, <2>2
<1>9. QED
  BY <1>4, <1>5, <1>7, <1>8 DEF Calls

(* A row already in the log stays, and no other thread's is added.         *)
LEMMA LogSteps ==
    ASSUME IInv, NEW t \in Thread, Shape(t)
    PROVE  /\ log' = log => Len(log') = Len(log) /\ TailOf(log') = TailOf(log)
           /\ log' # log => /\ Appends(t) /\ Len(log) \in Nat /\ Len(log') = Len(log) + 1
                            /\ log'[Len(log')].by = mine[t].call
           /\ \A i \in 1 .. Len(log) : log'[i] = log[i] /\ i \in 1 .. Len(log')
           /\ \A i \in 1 .. Len(log') : i \in 1 .. Len(log) \/ log'[i].by = mine[t].call
<1>1. /\ Len(log) \in Nat /\ Len(log') \in Nat /\ Len(log) <= Len(log')
      /\ \A i \in 1 .. Len(log) : log'[i] = log[i]
      /\ log' = log \/ (Len(log') = Len(log) + 1 /\ log'[Len(log')] = AuditRow(t))
  BY ShapeTables, LogGrows, TypeParts DEF IInv
<1>2. log' = log => Len(log') = Len(log) /\ TailOf(log') = TailOf(log)
  OBVIOUS
<1>3. log' # log => Appends(t)
  BY ShapeTables DEF Quiet, Inserts
<1>4. \A i \in 1 .. Len(log) : i \in 1 .. Len(log')
  BY <1>1
<1>5. ASSUME NEW i \in 1 .. Len(log'), i \notin 1 .. Len(log) PROVE log'[i].by = mine[t].call
  <2>1. log' # log
    BY <1>2, <1>5
  <2>2. i = Len(log')
    BY <1>1, <1>5, <2>1
  <2>3. QED
    BY <1>1, <2>1, <2>2, AppendRowFields
<1>6. QED
  BY <1>1, <1>2, <1>3, <1>4, <1>5, AppendRowFields

LEMMA ChainedKept ==
    ASSUME IInv, NEW t \in Thread, Shape(t)
    PROVE  Chained'
<1>0. Len(log) \in Nat /\ started \in Nat
  BY TypeParts, TailType DEF IInv, TypeOK
<1> DEFINE Good(u) ==
        /\ pc[u] \notin {"idle", "append", "commit"} => ~InLog(u)
        /\ pc[u] = "append" => /\ mine[u].seq \in 1 .. Len(log) + 1
                               /\ mine[u].seq = Len(log) + 1 => mine[u].tail = TailOf(log) /\ ~InLog(u)
        /\ pc[u] = "commit" => InLog(u)
<1>1. \A u \in Thread : Good(u)
  BY DEF IInv, Placed, Chained
<1>2. ASSUME NEW u \in Thread, u # t PROVE Good(u)'
  <2>1. pc'[u] = pc[u] /\ mine'[u] = mine[u]
    BY <1>2 DEF Shape, Others
  <2>2. CASE log' = log
    BY <1>1, <2>1, <2>2, LogSteps DEF InLog
  <2>3. CASE log' # log /\ pc[u] # "idle"
    <3>1. mine[u].call # mine[t].call
      BY <1>2, <2>3, LogSteps DEF IInv, Placed, Calls, Appends
    <3>2. InLog(u)' <=> InLog(u)
      BY <2>1, <3>1, LogSteps DEF InLog
    <3>3. Len(log') = Len(log) + 1
      BY <2>3, LogSteps
    <3>4. QED
      BY <1>0, <1>1, <2>1, <3>2, <3>3
  <2>4. CASE pc[u] = "idle"
    BY <2>1, <2>4
  <2>5. QED
    BY <2>2, <2>3, <2>4
<1>3. Good(t)'
  <2>1. CASE Stays(t)
    <3>1. pc'[t] = pc[t] /\ mine'[t] = mine[t]
      BY <2>1 DEF Stays
    <3>2. CASE log' = log
      BY <1>1, <3>1, <3>2, LogSteps DEF InLog
    <3>3. CASE log' # log
      <4>1. pc[t] = "append" /\ mine[t].seq = Len(log) + 1 /\ Len(log') = Len(log) + 1
        BY <3>3, LogSteps, RowIsNew DEF Appends
      <4>2. QED
        BY <1>0, <3>1, <4>1
    <3>4. QED
      BY <3>2, <3>3
  <2>2. CASE Gone(t) \/ Returns(t)
    BY <2>2 DEF Gone, Returns
  <2>3. CASE Begins(t)
    <3>1. log' = log /\ mine'[t].call = started + 1 /\ pc'[t] \notin {"append", "commit"}
      BY <2>3 DEF Begins, Quiet
    <3>2. \A i \in 1 .. Len(log) : log[i].by # started + 1
      BY <1>0 DEF IInv, Placed, Calls
    <3>3. ~InLog(t)'
      BY <3>1, <3>2, LogSteps DEF InLog
    <3>4. QED
      BY <3>1, <3>3
  <2>4. CASE Advances(t)
    <3>1. log' = log /\ mine'[t].call = mine[t].call
      BY <2>4 DEF Advances, Quiet, Same
    <3>2. pc[t] \notin {"idle", "append", "commit"} /\ pc'[t] \notin {"append", "commit"}
      BY <2>4 DEF Advances, InitWrites
    <3>3. QED
      BY <1>1, <3>1, <3>2, LogSteps DEF InLog
  <2>5. CASE Inserted(t)
    <3>1. log' = log /\ mine'[t].call = mine[t].call /\ pc[t] = "insert" /\ pc'[t] = "audit"
      BY <2>5 DEF Inserted, Inserts, Same
    <3>2. QED
      BY <1>1, <3>1, LogSteps DEF InLog
  <2>6. CASE ReadsTail(t)
    <3>1. /\ log' = log /\ mine'[t].call = mine[t].call /\ pc[t] = "audit" /\ pc'[t] = "append"
          /\ mine'[t].tail = TailOf(log) /\ mine'[t].seq = Len(log) + 1
      BY <2>6 DEF ReadsTail, Quiet, Same
    <3>2. ~InLog(t)'
      BY <1>1, <3>1, LogSteps DEF InLog
    <3>3. QED
      BY <1>0, <3>1, <3>2, LogSteps
  <2>7. CASE Commits(t)
    <3>1. Appends(t) /\ mine'[t].call = mine[t].call /\ pc'[t] = "commit"
      BY <2>7 DEF Commits, Same
    <3>2. log' = Append(log, AuditRow(t)) /\ log \in Seq([by : CallId, after : CallId])
      BY <3>1 DEF Appends, IInv, TypeOK
    <3>3. log' # log
      <4>1. Len(log') = Len(log) + 1
        BY <3>2
      <4>2. QED
        BY <1>0, <4>1
    <3>4. Len(log') \in 1 .. Len(log') /\ log'[Len(log')].by = mine[t].call
      BY <1>0, <3>3, LogSteps
    <3>5. InLog(t)'
      BY <3>1, <3>4 DEF InLog
    <3>6. QED
      BY <3>1, <3>5
  <2>8. QED
    BY <2>1, <2>2, <2>3, <2>4, <2>5, <2>6, <2>7 DEF Shape
<1>4. QED
  BY <1>2, <1>3 DEF Chained

LEMMA StoredKept ==
    ASSUME IInv, NEW t \in Thread, Shape(t)
    PROVE  Stored'
<1>0. started \in Nat
  BY DEF IInv, TypeOK
<1>1. secrets \subseteq secrets' /\ \A r \in secrets' : r \in secrets \/ (Inserts(t) /\ r = Row(t))
  BY ShapeTables, SecretsGrow
<1> DEFINE Good(u) ==
        /\ pc[u] \in {"version", "reserve"} => ~InStore(u)
        /\ pc[u] = "insert" /\ InStore(u) => \E q \in secrets : q.id = mine[u].id
        /\ pc[u] \in {"audit", "append"} /\ mine[u].op = "put" => InStore(u)
<1>2. \A u \in Thread : Good(u)
  BY DEF IInv, Placed, Stored
<1>3. ASSUME NEW u \in Thread, u # t, pc[u] # "idle" PROVE Good(u)'
  <2>1. pc'[u] = pc[u] /\ mine'[u] = mine[u]
    BY <1>3 DEF Shape, Others
  <2>2. ASSUME Inserts(t) PROVE Row(t).body # mine[u].call
    BY <1>3, <2>2, AppendRowFields DEF Inserts, IInv, Placed, Calls
  <2>3. InStore(u)' <=> InStore(u)
    BY <1>1, <2>1, <2>2 DEF InStore
  <2>4. QED
    BY <1>1, <1>2, <2>1, <2>3
<1>4. ASSUME NEW u \in Thread, u # t, pc[u] = "idle" PROVE Good(u)'
  BY <1>4 DEF Shape, Others
<1>5. Good(t)'
  <2>1. CASE Stays(t)
    <3>1. pc'[t] = pc[t] /\ mine'[t] = mine[t]
      BY <2>1 DEF Stays
    <3>2. CASE Inserts(t)
      BY <3>1, <3>2, AppendRowFields DEF Inserts
    <3>3. CASE ~Inserts(t)
      BY <1>1, <1>2, <3>1, <3>3 DEF InStore
    <3>4. QED
      BY <3>2, <3>3
  <2>2. CASE Gone(t) \/ Returns(t)
    BY <2>2 DEF Gone, Returns
  <2>3. CASE Begins(t)
    <3>1. secrets' = secrets /\ mine'[t].call = started + 1
      BY <2>3 DEF Begins, Quiet
    <3>2. \A r \in secrets : r.body # started + 1
      BY <1>0 DEF IInv, Placed, Calls
    <3>3. ~InStore(t)'
      BY <3>1, <3>2 DEF InStore
    <3>4. QED
      BY <2>3, <3>3 DEF Begins
  <2>4. CASE Advances(t)
    <3>1. secrets' = secrets /\ mine'[t].call = mine[t].call /\ mine'[t].op = mine[t].op
      BY <2>4 DEF Advances, Quiet, Same
    <3>2. InStore(t)' <=> InStore(t)
      BY <3>1 DEF InStore
    <3>3. \/ pc[t] \in {"version", "reserve"} /\ pc'[t] \in {"reserve", "insert"}
          \/ pc'[t] \notin {"version", "reserve", "insert"} /\ mine[t].op # "put"
      BY <2>4 DEF Advances, InitWrites, IInv, Placed, Ops
    <3>4. QED
      BY <1>2, <3>1, <3>2, <3>3
  <2>5. CASE Inserted(t)
    <3>1. Row(t) \in secrets' /\ mine'[t].call = mine[t].call /\ pc'[t] = "audit"
      BY <2>5 DEF Inserted, Inserts, Same
    <3>2. InStore(t)'
      BY <3>1, AppendRowFields DEF InStore
    <3>3. QED
      BY <3>1, <3>2
  <2>6. CASE ReadsTail(t)
    <3>1. /\ secrets' = secrets /\ mine'[t].call = mine[t].call /\ mine'[t].op = mine[t].op
          /\ pc[t] = "audit" /\ pc'[t] = "append"
      BY <2>6 DEF ReadsTail, Quiet, Same
    <3>2. QED
      BY <1>2, <3>1 DEF InStore
  <2>7. CASE Commits(t)
    BY <2>7 DEF Commits
  <2>8. QED
    BY <2>1, <2>2, <2>3, <2>4, <2>5, <2>6, <2>7 DEF Shape
<1>6. QED
  BY <1>3, <1>4, <1>5 DEF Stored

LEMMA AuditedKept ==
    ASSUME IInv, NEW t \in Thread, Shape(t)
    PROVE  OkMeansAudited'
<1>1. \A r \in returned' : \E i \in 1 .. Len(log') : log'[i].by = r.call
  <2>1. ASSUME NEW r \in returned PROVE \E i \in 1 .. Len(log') : log'[i].by = r.call
    <3>1. PICK i \in 1 .. Len(log) : log[i].by = r.call
      BY DEF IInv, OkMeansAudited
    <3>2. QED
      BY <3>1, LogSteps
  <2>2. ASSUME NEW r \in returned', r \notin returned
        PROVE  \E i \in 1 .. Len(log') : log'[i].by = r.call
    <3>1. Returns(t) /\ r.call = mine[t].call
      BY <2>2 DEF Shape, Stays, Gone, Returns, Begins, Advances, Inserted, ReadsTail, Commits, NoReturn
    <3>2. CASE pc[t] = "commit" /\ Quiet
      <4>1. PICK i \in 1 .. Len(log) : log[i].by = mine[t].call
        BY <3>2 DEF IInv, Placed, Chained, InLog
      <4>2. QED
        BY <3>1, <4>1, LogSteps
    <3>3. CASE Appends(t)
      <4>1. log' = Append(log, AuditRow(t)) /\ log \in Seq([by : CallId, after : CallId])
        BY <3>3 DEF Appends, IInv, TypeOK
      <4>2. Len(log') = Len(log) + 1 /\ Len(log) \in Nat
        BY <4>1
      <4>3. log' # log
        BY <4>2
      <4>4. Len(log') \in 1 .. Len(log') /\ log'[Len(log')].by = mine[t].call
        BY <4>2, <4>3, LogSteps
      <4>5. QED
        BY <3>1, <4>4
    <3>4. QED
      BY <3>1, <3>2, <3>3 DEF Returns
  <2>3. QED
    BY <2>1, <2>2
<1>2. ASSUME NEW i \in 1 .. Len(log'), NEW j \in 1 .. Len(log'), log'[i].by = log'[j].by
      PROVE  i = j
  <2>1. CASE log' = log
    BY <1>2, <2>1, LogSteps DEF IInv, OkMeansAudited
  <2>2. CASE log' # log
    <3>1. ~InLog(t) /\ Len(log) \in Nat /\ Len(log') = Len(log) + 1
      BY <2>2, LogSteps, RowIsNew
    <3>2. \A k \in 1 .. Len(log) : log'[k].by # mine[t].call
      BY <3>1, LogSteps DEF InLog
    <3>3. \A k \in 1 .. Len(log') : k \in 1 .. Len(log) \/ (k = Len(log') /\ log'[k].by = mine[t].call)
      BY <3>1, LogSteps
    <3>4. CASE i \in 1 .. Len(log) /\ j \in 1 .. Len(log)
      BY <1>2, <3>4, LogSteps DEF IInv, OkMeansAudited
    <3>5. QED
      BY <1>2, <3>2, <3>3, <3>4
  <2>3. QED
    BY <2>1, <2>2
<1>3. QED
  BY <1>1, <1>2 DEF OkMeansAudited

LEMMA PutOnceKept ==
    ASSUME IInv, NEW t \in Thread, Shape(t)
    PROVE  PutOnce'
<1>1. secrets \subseteq secrets' /\ \A r \in secrets' : r \in secrets \/ (Inserts(t) /\ r = Row(t))
  BY ShapeTables, SecretsGrow
<1>2. \A r \in returned' : r.op = "put" => \E q \in secrets' : q.body = r.call
  <2>1. ASSUME NEW r \in returned, r.op = "put" PROVE \E q \in secrets' : q.body = r.call
    BY <1>1, <2>1 DEF IInv, PutOnce
  <2>2. ASSUME NEW r \in returned', r \notin returned, r.op = "put"
        PROVE  \E q \in secrets' : q.body = r.call
    <3>1. Returns(t) /\ r.call = mine[t].call /\ mine[t].op = "put"
      BY <2>2 DEF Shape, Stays, Gone, Returns, Begins, Advances, Inserted, ReadsTail, Commits, NoReturn
    <3>2. pc[t] = "append"
      BY <3>1 DEF Returns, Appends, IInv, Placed, Ops
    <3>3. QED
      BY <1>1, <3>1, <3>2 DEF IInv, Placed, Stored, InStore
  <2>3. QED
    BY <2>1, <2>2
<1>3. ASSUME NEW q \in secrets', NEW r \in secrets', q.body = r.body PROVE q = r
  <2>1. CASE Inserts(t)
    <3>1. \A k \in secrets : k.body # Row(t).body
      BY <2>1, RowIsNew, AppendRowFields DEF InStore
    <3>2. QED
      BY <1>1, <1>3, <3>1 DEF IInv, PutOnce
  <2>2. CASE ~Inserts(t)
    BY <1>1, <1>3, <2>2 DEF IInv, PutOnce
  <2>3. QED
    BY <2>1, <2>2
<1>4. QED
  BY <1>2, <1>3 DEF PutOnce

LEMMA NextPlaced == IInv /\ [Next]_vars => IInv'
<1> SUFFICES ASSUME IInv, [Next]_vars PROVE IInv'
  OBVIOUS
<1>1. (TypeOK /\ Bounded)' /\ ThreadType
  BY NextTyped, TypeParts DEF IInv
<1>2. CASE CrashShape
  BY <1>1, <1>2, CrashKeeps DEF IInv
<1>3. CASE \E t \in Thread : Shape(t)
  BY <1>1, <1>3, OpsKept, CallsKept, ChainedKept, StoredKept, AuditedKept, PutOnceKept DEF IInv, Placed
<1>4. QED
  BY <1>1, <1>2, <1>3, EveryShape

LEMMA PlacedAlways == Spec => []IInv
  BY InitTyped, InitPlaced, NextPlaced, PTL DEF Spec, IInv

(* What returned Ok is in the log once, whatever was lost or sent twice.   *)
THEOREM OkIsAudited == Spec => []OkMeansAudited
<1>1. IInv => OkMeansAudited
  BY DEF IInv
<1>2. QED
  BY <1>1, PlacedAlways, PTL

(* A put that returned Ok is stored, and none is stored twice.             *)
THEOREM PutsOnce == Spec => []PutOnce
<1>1. IInv => PutOnce
  BY DEF IInv
<1>2. QED
  BY <1>1, PlacedAlways, PTL

(* Whatever was lost, sent twice or refused, Ok means logged and stored,   *)
(* once (append_audit, put_secret, with_retry).                            *)
THEOREM OkDurable == Spec => []OkIsDurable
<1>1. OkMeansAudited /\ PutOnce => OkIsDurable
  BY DEF OkIsDurable
<1>2. QED
  BY <1>1, OkIsAudited, PutsOnce, PTL
-----------------------------------------------------------------------------
(* Every statement does what the Store trait promises of one call.         *)
LEMMA WithSlotSaves ==
    ASSUME NEW s, slots' = WithSlot(s), UNCHANGED <<meta, secrets, nextId, log>>
    PROVE  StoreNext
<1>1. s \in slots'
  BY DEF WithSlot
<1>2. QED
  BY <1>1 DEF StoreNext, SaveKeyslot

LEMMA InitStores ==
    ASSUME IInv, NEW t \in Thread,
           \/ CheckUninitialized(t) \/ SaveSlot1(t) \/ SaveSlot2(t)
           \/ PutHeaderMac(t) \/ PutFloor(t) \/ PutGeneration(t)
    PROVE  StoreNext \/ UNCHANGED tables
<1>1. CASE CheckUninitialized(t)
  BY <1>1 DEF CheckUninitialized
<1>2. CASE SaveSlot1(t)
  BY <1>2, WithSlotSaves DEF SaveSlot1, Send
<1>3. CASE SaveSlot2(t)
  BY <1>3, WithSlotSaves DEF SaveSlot2, Send
<1>4. CASE PutHeaderMac(t)
  BY <1>4 DEF PutHeaderMac, Send, StoreNext, PutMeta
<1>5. CASE PutFloor(t)
  BY <1>5 DEF PutFloor, Send, StoreNext, PutMeta
<1>6. CASE PutGeneration(t)
  BY <1>6 DEF PutGeneration, Send, StoreNext, PutMeta
<1>7. QED
  BY <1>1, <1>2, <1>3, <1>4, <1>5, <1>6

LEMMA PutStores ==
    ASSUME IInv, NEW t \in Thread,
           ReadMaxVersion(t) \/ Reserve(t) \/ InsertSecret(t) \/ OpenLatest(t)
    PROVE  StoreNext \/ UNCHANGED tables
<1>1. CASE ReadMaxVersion(t) \/ OpenLatest(t)
  BY <1>1 DEF ReadMaxVersion, OpenLatest, Learn, Refused
<1>2. CASE Reserve(t)
  BY <1>2 DEF Reserve, StoreNext, ReserveRowId, meta
<1>3. CASE InsertSecret(t)
  <2>1. CASE Accepts(Row(t))
    <3>1. mine[t] \in MineType /\ nextId \in Nat
      BY DEF IInv, TypeOK
    <3>2. Row(t).id \in Nat
      BY <3>1, AppendRowFields DEF MineType
    <3>3. Admits(Row(t))
      BY <2>1, <3>1, <3>2 DEF Accepts, Admits
    <3>4. \/ UNCHANGED tables
          \/ secrets' = secrets \cup {Row(t)} /\ UNCHANGED <<slots, meta, nextId, log>>
      BY <1>3, <2>1 DEF InsertSecret, Send
    <3>5. QED
      BY <3>3, <3>4 DEF StoreNext, PutSecret
  <2>2. CASE ~Accepts(Row(t))
    BY <1>3, <2>2 DEF InsertSecret, Rejected, Refused
  <2>3. QED
    BY <2>1, <2>2
<1>4. QED
  BY <1>1, <1>2, <1>3

LEMMA AppendStores ==
    ASSUME IInv, NEW t \in Thread, AppendRow(t)
    PROVE  StoreNext \/ UNCHANGED tables
<1>1. CASE Collides(t)
  BY <1>1 DEF AppendRow, Collision, Refused
<1>2. CASE ~Collides(t)
  <2>1. UNCHANGED <<slots, meta, secrets, nextId>> /\ log' \in {log, Append(log, AuditRow(t))}
    BY <1>2 DEF AppendRow
  <2>2. CASE log' = log
    BY <2>1, <2>2 DEF tables
  <2>3. CASE log' = Append(log, AuditRow(t))
    <3>1. Appends(t)
      BY <1>2, <2>1, <2>3 DEF AppendRow, Appends
    <3>2. mine[t].tail = TailOf(log)
      BY <3>1, RowIsNew
    <3>3. log \in Seq([by : CallId, after : CallId])
      BY DEF IInv, TypeOK
    <3>4. Len(log') = Len(log) + 1 /\ log'[Len(log')] = AuditRow(t)
      BY <2>3, <3>3
    <3>5. log' = Append(log, log'[Len(log')]) /\ log'[Len(log')].after = TailOf(log)
      BY <2>3, <3>2, <3>4, AppendRowFields
    <3>6. QED
      BY <2>1, <3>4, <3>5 DEF StoreNext, AppendAudit
  <2>4. QED
    BY <2>1, <2>2, <2>3
<1>3. QED
  BY <1>1, <1>2

LEMMA NextStores == IInv /\ [Next]_vars => [StoreNext]_tables
<1> SUFFICES ASSUME IInv, [Next]_vars PROVE StoreNext \/ UNCHANGED tables
  OBVIOUS
<1>1. CASE UNCHANGED vars \/ Finished
  BY <1>1 DEF vars, Finished
<1>2. CASE \E t \in Thread : Step(t)
  <2>1. PICK t \in Thread : Step(t)
    BY <1>2
  <2>2. CASE ReadSlots(t) \/ ReadHeaderMac(t) \/ ReadFloor(t) \/ Probe(t)
    BY <2>2 DEF ReadSlots, ReadHeaderMac, ReadFloor, Probe, Learn, Refused
  <2>3. CASE CommitUnlock(t) \/ ReadTail(t)
    BY <2>3 DEF CommitUnlock, ReadTail
  <2>4. QED
    BY <2>1, <2>2, <2>3, InitStores, PutStores, AppendStores DEF Step
<1>3. CASE \E t \in Thread : Begin(t)
  BY <1>3 DEF Begin, StartInit, StartUnlock, StartLock, StartPut, StartGet, Start
<1>4. CASE \E t \in Thread : StoreFails(t)
  BY <1>4 DEF StoreFails
<1>5. CASE \E d \in Daemon : Crash(d)
  BY <1>5 DEF Crash
<1>6. QED
  BY <1>1, <1>2, <1>3, <1>4, <1>5 DEF Next

(* The engine's statements implement the Store trait: each changes one     *)
(* table as the in-memory store would, whatever is lost or sent twice.     *)
THEOREM ImplementsStore == Spec => StoreSpec
<1>1. Init => StoreInit
  BY DEF Init
<1>2. QED
  BY <1>1, PlacedAlways, NextStores, PTL DEF Spec, StoreSpec
-----------------------------------------------------------------------------
(* What an init writes once the slots are there.                           *)
MacOf(t) == [dek |-> mine[t].call, slots |-> SlotsOf(t), floor |-> mine[t].call]

(* A thread that holds, or is about to store, a DEK it did not make.       *)
Keyed(t) ==
    \/ pc[t] \in {"version", "reserve", "insert", "commit"}
    \/ pc[t] \in {"audit", "append"} /\ mine[t].op = "unlock" /\ mine[t].ok

(* What each place of a call knows of the header and the slots, as long as *)
(* one init writes at a time.                                              *)
KeyPlace(t) ==
    /\ pc[t] = "check" => \A s \in slots : s.dek # mine[t].call
    /\ pc[t] \in InitWrites => \A s \in slots : s.dek = mine[t].call => s \in SlotsOf(t)
    /\ pc[t] \in {"slot1", "slot2"} => mac = NoMac
    /\ pc[t] = "slot2" => mine[t].usb /\ Slot(t, 1) \in slots
    /\ pc[t] \in {"mac", "floor", "generation"} => SlotsOf(t) \subseteq slots
    /\ pc[t] = "mac" => mac = NoMac \/ mac = MacOf(t)
    /\ pc[t] \in {"floor", "generation"} => mac = MacOf(t)
    /\ pc[t] = "generation" => floor = mine[t].call
    /\ pc[t] \in {"readFloor", "readGeneration"} => mac # NoMac /\ mine[t].mac = mac
    /\ Keyed(t) => mac # NoMac /\ mine[t].dek = mac.dek
    /\ pc[t] \in {"audit", "append"} /\ mine[t].op = "init" => generation = 1

(* The header commits to slots that are there, and every DEK in use is its.*)
HeaderFits ==
    /\ mac = NoMac => floor = 0 /\ generation = 0
    /\ mac # NoMac => /\ mac.dek # 0 /\ mac.floor = mac.dek
                      /\ mac.slots \subseteq slots
                      /\ \A s \in slots : s.dek = mac.dek => s \in mac.slots
    /\ floor = 0 \/ floor = mac.floor
    /\ generation = 1 => floor = mac.floor
KeysFit ==
    /\ \A d \in Daemon : dek[d] # 0 => mac # NoMac /\ dek[d] = mac.dek
    /\ \A r \in secrets : mac # NoMac /\ r.dek = mac.dek
    /\ (\E r \in returned : r.op = "init") => generation = 1
OneWriter == \A t, u \in Thread : pc[t] \in InitWrites /\ pc[u] \in InitWrites => t = u
SlotsKnown == \A s \in slots : s.dek \in 1 .. started

KeysInv ==
    ~overlapped => /\ OneWriter /\ SlotsKnown /\ HeaderFits /\ KeysFit
                   /\ \A t \in Thread : KeyPlace(t)

HeaderSame == UNCHANGED <<slots, mac, floor, generation, overlapped>>
DekFrom(t) ==
    \A d \in Daemon : \/ dek'[d] = dek[d] \/ dek'[d] = 0
                      \/ pc[t] = "commit" /\ dek'[d] = mine[t].dek

(* A thread that does not move knows what it knew while the header stays.  *)
LEMMA PlaceKept ==
    ASSUME HeaderSame, NEW u \in Thread, KeyPlace(u), pc'[u] = pc[u], mine'[u] = mine[u]
    PROVE  KeyPlace(u)'
  BY DEF HeaderSame, KeyPlace, Keyed, MacOf, SlotsOf, Slot

LEMMA IdlePlace ==
    ASSUME NEW u \in Thread, pc'[u] = "idle"
    PROVE  KeyPlace(u)'
  BY DEF KeyPlace, Keyed, InitWrites

(* What a step does to the DEKs in use, whatever it does to the header.    *)
LEMMA KeysFitKept ==
    ASSUME IInv, NEW t \in Thread, Shape(t), KeysFit, KeyPlace(t), DekFrom(t),
           mac # NoMac => mac' = mac, generation = 1 => generation' = 1
    PROVE  KeysFit'
<1>1. \A d \in Daemon : dek'[d] # 0 => mac' # NoMac /\ dek'[d] = mac'.dek
  BY DEF KeysFit, DekFrom, KeyPlace, Keyed
<1>2. \A r \in secrets' : mac' # NoMac /\ r.dek = mac'.dek
  <2>1. \A r \in secrets' : r \in secrets \/ (pc[t] = "insert" /\ r.dek = mine[t].dek)
    BY DEF Shape, Stays, Gone, Returns, Begins, Advances, Inserted, ReadsTail, Commits,
           Quiet, Inserts, Appends, Row
  <2>2. QED
    BY <2>1 DEF KeysFit, KeyPlace, Keyed
<1>3. (\E r \in returned' : r.op = "init") => generation' = 1
  <2>1. ASSUME NEW r \in returned', r.op = "init", r \notin returned PROVE generation = 1
    <3>1. Returns(t) /\ mine[t].op = "init"
      BY <2>1 DEF Shape, Stays, Gone, Returns, Begins, Advances, Inserted, ReadsTail, Commits, NoReturn
    <3>2. pc[t] = "append"
      BY <3>1 DEF Returns, Appends, IInv, Placed, Ops
    <3>3. QED
      BY <3>1, <3>2 DEF KeyPlace
  <2>2. QED
    BY <2>1 DEF KeysFit
<1>4. QED
  BY <1>1, <1>2, <1>3 DEF KeysFit

LEMMA StartedGrows ==
    ASSUME IInv, NEW t \in Thread, Shape(t)
    PROVE  started \in Nat /\ started' \in {started, started + 1}
  BY DEF IInv, TypeOK, Shape, Stays, Gone, Returns, Begins, Advances, Inserted, ReadsTail, Commits, NoReturn

(* A step that leaves the header alone.                                    *)
LEMMA HeaderSameKeys ==
    ASSUME IInv, KeysInv, ~overlapped, NEW t \in Thread, Shape(t), HeaderSame, DekFrom(t),
           KeyPlace(t)', pc'[t] \in InitWrites => pc[t] \in InitWrites
    PROVE  KeysInv'
<1>1. OneWriter /\ SlotsKnown /\ HeaderFits /\ KeysFit /\ \A u \in Thread : KeyPlace(u)
  BY DEF KeysInv
<1>2. \A u \in Thread \ {t} : pc'[u] = pc[u] /\ mine'[u] = mine[u]
  BY DEF Shape, Others
<1>3. \A u \in Thread : KeyPlace(u)'
  BY <1>1, <1>2, PlaceKept
<1>4. OneWriter'
  BY <1>1, <1>2 DEF OneWriter
<1>5. SlotsKnown'
  BY <1>1, StartedGrows DEF SlotsKnown, HeaderSame
<1>6. HeaderFits'
  BY <1>1 DEF HeaderFits, HeaderSame
<1>7. KeysFit'
  BY <1>1, KeysFitKept DEF HeaderSame
<1>8. QED
  BY <1>3, <1>4, <1>5, <1>6, <1>7 DEF KeysInv

(* A thread that has done nothing, or has left, is no writer.              *)
LEMMA LeftKeys ==
    ASSUME IInv, KeysInv, ~overlapped, NEW t \in Thread, Shape(t), HeaderSame, DekFrom(t),
           pc'[t] = "idle" \/ (pc'[t] = pc[t] /\ mine'[t] = mine[t])
    PROVE  KeysInv'
<1>1. KeyPlace(t)'
  BY IdlePlace, PlaceKept DEF KeysInv
<1>2. "idle" \notin InitWrites
  BY DEF InitWrites
<1>3. QED
  BY <1>1, <1>2, HeaderSameKeys

(* What a read leaves as it was in the reader's hands.                     *)
LEMMA LearnKeeps ==
    ASSUME ThreadType, NEW t \in Thread, NEW label, NEW what,
           NEW field \in {"ok", "slots", "mac", "floor", "dek", "version"}, Learn(t, field, what, label)
    PROVE  /\ HeaderSame /\ DekFrom(t) /\ pc'[t] = label /\ mine'[t].op = mine[t].op
           /\ field = "ok" => mine'[t].ok = what
           /\ field # "dek" => mine'[t].dek = mine[t].dek
           /\ field = "dek" => mine'[t].dek = what
           /\ field # "mac" => mine'[t].mac = mine[t].mac
           /\ field = "mac" => mine'[t].mac = what
<1>1. Goto(t, label) /\ UNCHANGED <<tables, memory>>
  BY DEF Learn
<1>2. mine[t] \in MineType
  BY DEF ThreadType
<1>3. /\ mine'[t].op = mine[t].op
      /\ field = "ok" => mine'[t].ok = what
      /\ field # "dek" => mine'[t].dek = mine[t].dek
      /\ field = "dek" => mine'[t].dek = what
      /\ field # "mac" => mine'[t].mac = mine[t].mac
      /\ field = "mac" => mine'[t].mac = what
  BY <1>2 DEF Learn, ThreadType, MineType
<1>4. HeaderSame /\ DekFrom(t)
  BY <1>1 DEF HeaderSame, DekFrom, tables, meta, memory
<1>5. QED
  BY <1>1, <1>3, <1>4, GotoOthers

LEMMA RefusedKeys ==
    ASSUME IInv, KeysInv, ~overlapped, NEW t \in Thread, Refused(t)
    PROVE  KeysInv'
<1>1. Shape(t) /\ pc'[t] = "idle"
  BY RefusedGoes, LeaveOthers, TypeParts DEF IInv, Refused, Fail
<1>2. HeaderSame /\ DekFrom(t)
  BY DEF Refused, HeaderSame, DekFrom, tables, meta, memory
<1>3. QED
  BY <1>1, <1>2, LeftKeys

(* An unlock that verifies holds the DEK of the header it read.            *)
LEMMA UnlockKeys ==
    ASSUME IInv, KeysInv, ~overlapped, NEW t \in Thread,
           ReadSlots(t) \/ ReadHeaderMac(t) \/ ReadFloor(t) \/ Probe(t) \/ CommitUnlock(t)
    PROVE  KeysInv'
<1>1. ThreadType /\ KeyPlace(t) /\ Shape(t)
  BY UnlockGoes, TypeParts DEF IInv, KeysInv
<1>2. pc[t] \in {"slots", "readMac", "readFloor", "readGeneration"} => mine[t].op = "unlock"
  BY DEF IInv, Placed, Ops
<1>3. CASE ReadSlots(t)
  <2>1. HeaderSame /\ DekFrom(t) /\ pc'[t] = "readMac"
    BY <1>1, <1>3, LearnKeeps DEF ReadSlots
  <2>2. KeyPlace(t)' /\ pc'[t] \notin InitWrites
    BY <2>1 DEF KeyPlace, Keyed, InitWrites
  <2>3. QED
    BY <1>1, <2>1, <2>2, HeaderSameKeys
<1>4. CASE ReadHeaderMac(t)
  <2>1. CASE mac # NoMac
    <3>1. HeaderSame /\ DekFrom(t) /\ pc'[t] = "readFloor" /\ mine'[t].mac = mac
      BY <1>1, <1>4, <2>1, LearnKeeps DEF ReadHeaderMac
    <3>2. KeyPlace(t)' /\ pc'[t] \notin InitWrites
      BY <2>1, <3>1 DEF KeyPlace, Keyed, InitWrites, HeaderSame
    <3>3. QED
      BY <1>1, <3>1, <3>2, HeaderSameKeys
  <2>2. QED
    BY <1>4, <2>1, RefusedKeys DEF ReadHeaderMac
<1>5. CASE ReadFloor(t)
  <2>1. CASE floor # 0
    <3>1. HeaderSame /\ DekFrom(t) /\ pc'[t] = "readGeneration" /\ mine'[t].mac = mine[t].mac
      BY <1>1, <1>5, <2>1, LearnKeeps DEF ReadFloor
    <3>2. mac # NoMac /\ mine[t].mac = mac
      BY <1>1, <1>5 DEF ReadFloor, KeyPlace
    <3>3. KeyPlace(t)' /\ pc'[t] \notin InitWrites
      BY <3>1, <3>2 DEF KeyPlace, Keyed, InitWrites, HeaderSame
    <3>4. QED
      BY <1>1, <3>1, <3>3, HeaderSameKeys
  <2>2. QED
    BY <1>5, <2>1, RefusedKeys DEF ReadFloor
<1>6. CASE Probe(t)
  <2>1. mac # NoMac /\ mine[t].mac = mac /\ mine[t].op = "unlock"
    BY <1>1, <1>2, <1>6 DEF Probe, KeyPlace
  <2>2. CASE Learn(t, "ok", FALSE, "audit")
    <3>1. HeaderSame /\ DekFrom(t) /\ pc'[t] = "audit" /\ ~mine'[t].ok /\ mine'[t].op = "unlock"
      BY <1>1, <2>1, <2>2, LearnKeeps
    <3>2. KeyPlace(t)' /\ pc'[t] \notin InitWrites
      BY <3>1 DEF KeyPlace, Keyed, InitWrites
    <3>3. QED
      BY <1>1, <3>1, <3>2, HeaderSameKeys
  <2>3. ASSUME NEW s \in mine[t].slots, Verified(t, s.dek), Learn(t, "dek", s.dek, "audit")
        PROVE  KeysInv'
    <3>1. /\ HeaderSame /\ DekFrom(t) /\ pc'[t] = "audit"
          /\ mine'[t].dek = s.dek /\ mine'[t].op = "unlock"
      BY <1>1, <2>1, <2>3, LearnKeeps
    <3>2. s.dek = mac.dek
      BY <2>1, <2>3 DEF Verified
    <3>3. KeyPlace(t)' /\ pc'[t] \notin InitWrites
      BY <2>1, <3>1, <3>2 DEF KeyPlace, Keyed, InitWrites, HeaderSame
    <3>4. QED
      BY <1>1, <3>1, <3>3, HeaderSameKeys
  <2>4. QED
    BY <1>6, <2>2, <2>3, RefusedKeys DEF Probe
<1>7. CASE CommitUnlock(t)
  <2>1. pc[t] = "commit" /\ Leave(t) /\ HeaderSame
    BY <1>7 DEF CommitUnlock, Return, HeaderSame, tables, meta
  <2>2. DekFrom(t)
    BY <1>7, <2>1 DEF CommitUnlock, DekFrom, IInv, TypeOK
  <2>3. pc'[t] = "idle"
    BY <1>1, <2>1, LeaveOthers
  <2>4. QED
    BY <1>1, <2>1, <2>2, <2>3, LeftKeys
<1>8. QED
  BY <1>3, <1>4, <1>5, <1>6, <1>7

LEMMA PutKeys ==
    ASSUME IInv, KeysInv, ~overlapped, NEW t \in Thread,
           ReadMaxVersion(t) \/ Reserve(t) \/ InsertSecret(t) \/ OpenLatest(t)
    PROVE  KeysInv'
<1>1. ThreadType /\ KeyPlace(t) /\ Shape(t)
  BY PutGoes, TypeParts DEF IInv, KeysInv
<1>2. CASE ReadMaxVersion(t)
  <2>1. CASE generation # 0
    <3>1. HeaderSame /\ DekFrom(t) /\ pc'[t] = "reserve" /\ mine'[t].dek = mine[t].dek
      BY <1>1, <1>2, <2>1, LearnKeeps DEF ReadMaxVersion
    <3>2. mac # NoMac /\ mine[t].dek = mac.dek
      BY <1>1, <1>2 DEF ReadMaxVersion, KeyPlace, Keyed
    <3>3. KeyPlace(t)' /\ pc'[t] \notin InitWrites
      BY <3>1, <3>2 DEF KeyPlace, Keyed, InitWrites, HeaderSame
    <3>4. QED
      BY <1>1, <3>1, <3>3, HeaderSameKeys
  <2>2. QED
    BY <1>2, <2>1, RefusedKeys DEF ReadMaxVersion
<1>3. CASE Reserve(t)
  <2>1. HeaderSame /\ DekFrom(t) /\ pc[t] = "reserve"
    BY <1>3 DEF Reserve, HeaderSame, DekFrom, meta, memory
  <2>2. CASE Leave(t) \/ UNCHANGED <<pc, mine>>
    BY <1>1, <2>1, <2>2, LeaveOthers, LeftKeys
  <2>3. CASE Goto(t, "insert") /\ mine' = [mine EXCEPT ![t].id = nextId + 1]
    <3>1. pc'[t] = "insert" /\ mine'[t].dek = mine[t].dek
      BY <1>1, <2>3, GotoOthers DEF ThreadType, MineType
    <3>2. KeyPlace(t)' /\ pc'[t] \notin InitWrites
      BY <1>1, <2>1, <3>1 DEF KeyPlace, Keyed, InitWrites, HeaderSame
    <3>3. QED
      BY <1>1, <2>1, <3>2, HeaderSameKeys
  <2>4. QED
    BY <1>3, <2>2, <2>3 DEF Reserve
<1>4. CASE InsertSecret(t)
  <2>1. CASE Accepts(Row(t))
    <3>1. HeaderSame /\ DekFrom(t) /\ pc[t] = "insert" /\ mine[t].op = "put"
      BY <1>4, <2>1 DEF InsertSecret, Send, HeaderSame, DekFrom, tables, meta, memory, IInv, Placed, Ops
    <3>2. \/ Leave(t) \/ UNCHANGED <<pc, mine>>
          \/ Goto(t, "audit") /\ mine' = mine
      BY <1>4, <2>1 DEF InsertSecret, Send, Fail
    <3>3. CASE Goto(t, "audit") /\ mine' = mine
      <4>1. pc'[t] = "audit" /\ mine'[t].op = "put"
        BY <1>1, <3>1, <3>3, GotoOthers
      <4>2. KeyPlace(t)' /\ pc'[t] \notin InitWrites
        BY <4>1 DEF KeyPlace, Keyed, InitWrites
      <4>3. QED
        BY <1>1, <3>1, <4>2, HeaderSameKeys
    <3>4. QED
      BY <1>1, <3>1, <3>2, <3>3, LeaveOthers, LeftKeys
  <2>2. QED
    BY <1>4, <2>1, RefusedKeys DEF InsertSecret, Rejected
<1>5. CASE OpenLatest(t)
  <2>1. HeaderSame /\ DekFrom(t) /\ pc'[t] = "audit" /\ mine'[t].op = "get"
    BY <1>1, <1>5, LearnKeeps DEF OpenLatest, IInv, Placed, Ops
  <2>2. KeyPlace(t)' /\ pc'[t] \notin InitWrites
    BY <2>1 DEF KeyPlace, Keyed, InitWrites
  <2>3. QED
    BY <1>1, <2>1, <2>2, HeaderSameKeys
<1>6. QED
  BY <1>2, <1>3, <1>4, <1>5

LEMMA AuditKeys ==
    ASSUME IInv, KeysInv, ~overlapped, NEW t \in Thread, ReadTail(t) \/ AppendRow(t)
    PROVE  KeysInv'
<1>1. ThreadType /\ KeyPlace(t) /\ Shape(t) /\ mine[t] \in MineType
  BY AuditGoes, TypeParts DEF IInv, KeysInv, ThreadType
<1>2. CASE ReadTail(t)
  <2>1. HeaderSame /\ DekFrom(t) /\ pc[t] = "audit" /\ pc'[t] = "append"
    BY <1>1, <1>2, GotoOthers DEF ReadTail, HeaderSame, DekFrom, tables, meta, memory
  <2>2. mine'[t].op = mine[t].op /\ mine'[t].ok = mine[t].ok /\ mine'[t].dek = mine[t].dek
    BY <1>1, <1>2 DEF ReadTail, ThreadType, MineType
  <2>3. KeyPlace(t)' /\ pc'[t] \notin InitWrites
    BY <1>1, <2>1, <2>2 DEF KeyPlace, Keyed, InitWrites, HeaderSame
  <2>4. QED
    BY <1>1, <2>1, <2>3, HeaderSameKeys
<1>3. CASE AppendRow(t)
  <2>1. CASE Collides(t)
    BY <1>3, <2>1, RefusedKeys DEF AppendRow, Collision
  <2>2. CASE ~Collides(t)
    <3>1. HeaderSame /\ DekFrom(t) /\ pc[t] = "append"
      BY <1>3, <2>2 DEF AppendRow, HeaderSame, DekFrom, meta, memory
    <3>2. \/ Leave(t) \/ UNCHANGED <<pc, mine>>
          \/ mine[t].ok /\ mine[t].op = "unlock" /\ Goto(t, "commit") /\ mine' = mine
      BY <1>3, <2>2 DEF AppendRow, Audited, Fail, Return
    <3>3. CASE mine[t].ok /\ mine[t].op = "unlock" /\ Goto(t, "commit") /\ mine' = mine
      <4>1. pc'[t] = "commit" /\ mac # NoMac /\ mine'[t].dek = mac.dek
        BY <1>1, <3>1, <3>3, GotoOthers DEF KeyPlace, Keyed
      <4>2. KeyPlace(t)' /\ pc'[t] \notin InitWrites
        BY <3>1, <4>1 DEF KeyPlace, Keyed, InitWrites, HeaderSame
      <4>3. QED
        BY <1>1, <3>1, <4>2, HeaderSameKeys
    <3>4. QED
      BY <1>1, <3>1, <3>2, <3>3, LeaveOthers, LeftKeys
  <2>3. QED
    BY <2>1, <2>2
<1>4. QED
  BY <1>2, <1>3

(* A call that begins has a name of its own, and a DEK that is the vault's.*)
LEMMA BeginKeys ==
    ASSUME IInv, KeysInv, ~overlapped, NEW t \in Thread, Begin(t)
    PROVE  KeysInv'
<1>1. ThreadType /\ Shape(t) /\ SlotsKnown /\ KeysFit /\ started \in Nat
  BY BeginGoes, TypeParts DEF IInv, KeysInv, TypeOK
<1>2. mine'[t].call = started + 1 /\ pc'[t] \notin InitWrites
      /\ HeaderSame /\ pc[t] = "idle"
  <2>0. started' = started + 1
    <3>1. CASE StartInit(t)
      BY <3>1 DEF StartInit, Start
    <3>2. CASE StartUnlock(t)
      BY <3>2 DEF StartUnlock, Start
    <3>3. CASE StartLock(t)
      BY <3>3 DEF StartLock
    <3>4. CASE StartPut(t)
      BY <3>4 DEF StartPut, Start
    <3>5. CASE StartGet(t)
      BY <3>5 DEF StartGet, Start
    <3>6. QED
      BY <3>1, <3>2, <3>3, <3>4, <3>5 DEF Begin
  <2>a. started' # started
    BY <1>1, <2>0
  <2>1. Begins(t)
    BY <1>1, <2>0, <2>a DEF Shape, Stays, Gone, Returns, Advances, Inserted, ReadsTail, Commits, NoReturn
  <2>2. HeaderSame
    BY DEF Begin, StartInit, StartUnlock, StartLock, StartPut, StartGet, Start, HeaderSame,
           tables, meta, memory
  <2>3. QED
    BY <2>1, <2>2 DEF Begins, InitWrites
<1>3. DekFrom(t)
  BY DEF Begin, StartInit, StartUnlock, StartLock, StartPut, StartGet, Start, DekFrom, memory, IInv, TypeOK
<1>4. CASE StartPut(t)
  <2>1. PICK n \in Name : Start(t, [Call("put") EXCEPT !.name = n, !.dek = dek[home[t]]], "version")
    BY <1>4 DEF StartPut
  <2>2. Call("put") \in MineType
    BY <1>1, CallType DEF Op
  <2>3. mine'[t].dek = dek[home[t]] /\ pc'[t] = "version"
    BY <1>1, <2>1, <2>2, GotoOthers DEF Start, ThreadType, MineType
  <2>4. mac # NoMac /\ mine'[t].dek = mac.dek
    BY <1>1, <1>4, <2>3 DEF StartPut, KeysFit, IInv, TypeOK
  <2>5. KeyPlace(t)'
    BY <1>2, <2>3, <2>4 DEF KeyPlace, Keyed, InitWrites, HeaderSame
  <2>6. QED
    BY <1>1, <1>2, <1>3, <2>5, HeaderSameKeys
<1>5. CASE ~StartPut(t)
  <2>1. pc'[t] \in {"check", "slots", "row", "audit"}
    BY <1>1, <1>5, GotoOthers DEF Begin, StartInit, StartUnlock, StartLock, StartGet, Start
  <2>2. pc'[t] = "audit" => mine'[t].op = "lock"
    BY <1>1, <1>2, <2>1 DEF Shape, Stays, Gone, Returns, Begins, Advances, Inserted, ReadsTail,
                            Commits, InitWrites, Inserts, Appends
  <2>3. \A s \in slots : s.dek # started + 1
    BY <1>1 DEF SlotsKnown
  <2>4. KeyPlace(t)'
    BY <1>2, <2>1, <2>2, <2>3 DEF KeyPlace, Keyed, InitWrites, HeaderSame
  <2>5. QED
    BY <1>1, <1>2, <1>3, <2>4, HeaderSameKeys
<1>6. QED
  BY <1>4, <1>5
-----------------------------------------------------------------------------
(* The writes of an init that has the header for itself.                   *)
WriteTo(t, label) ==
    /\ Shape(t) /\ DekFrom(t) /\ overlapped' = overlapped /\ started' = started
    /\ \/ pc'[t] = "idle"
       \/ mine'[t] = mine[t] /\ pc'[t] \in {pc[t], label}

LEMMA SendWrites ==
    ASSUME ThreadType, NEW t \in Thread, NEW label, NEW ACTION effect, Send(t, effect, label),
           UNCHANGED memory, Shape(t)
    PROVE  \/ WriteTo(t, label) /\ effect
           \/ /\ UNCHANGED tables /\ WriteTo(t, label)
              /\ pc'[t] = "idle" \/ (pc'[t] = pc[t] /\ mine'[t] = mine[t])
<1>1. DekFrom(t) /\ overlapped' = overlapped
  BY DEF DekFrom, memory
<1>2. CASE effect /\ Goto(t, label) /\ UNCHANGED <<mine, returned, started>>
  BY <1>1, <1>2, GotoOthers DEF WriteTo
<1>3. CASE effect /\ Fail(t)
  BY <1>1, <1>3, LeaveOthers DEF WriteTo, Fail
<1>4. CASE (effect \/ UNCHANGED tables) /\ UNCHANGED <<pc, mine, returned, started>>
  BY <1>1, <1>4 DEF WriteTo
<1>5. QED
  BY <1>2, <1>3, <1>4 DEF Send

(* What the threads that write nothing know survives the writer's step.    *)
LEMMA BesideWriter ==
    ASSUME NEW t \in Thread, NEW u \in Thread, KeyPlace(u), pc[u] \notin InitWrites,
           pc'[u] = pc[u], mine'[u] = mine[u],
           mac # NoMac => mac' = mac, generation = 1 => generation' = 1,
           \A s \in slots' : s \in slots \/ s.dek = mine[t].call,
           pc[u] = "check" => mine[u].call # mine[t].call
    PROVE  KeyPlace(u)'
<1>1. pc[u] \notin {"slot1", "slot2", "mac", "floor", "generation"}
  BY DEF InitWrites
<1>2. pc[u] = "check" => \A s \in slots' : s.dek # mine[u].call
  BY DEF KeyPlace
<1>3. Keyed(u)' <=> Keyed(u)
  BY DEF Keyed
<1>4. /\ pc[u] \in {"readFloor", "readGeneration"} => mac' # NoMac /\ mine[u].mac = mac'
      /\ Keyed(u) => mac' # NoMac /\ mine[u].dek = mac'.dek
      /\ pc[u] \in {"audit", "append"} /\ mine[u].op = "init" => generation' = 1
  BY DEF KeyPlace
<1>5. QED
  BY <1>1, <1>2, <1>3, <1>4 DEF KeyPlace, InitWrites

(* It is enough to look at the header and at the writer.                   *)
LEMMA WriterKeys ==
    ASSUME IInv, KeysInv, ~overlapped, NEW t \in Thread, NEW label \in InitWrites \cup {"audit"},
           pc[t] \in InitWrites, WriteTo(t, label),
           mac # NoMac => mac' = mac, generation = 1 => generation' = 1,
           \A s \in slots' : s \in slots \/ s.dek = mine[t].call,
           HeaderFits', pc'[t] # "idle" => KeyPlace(t)'
    PROVE  KeysInv'
<1>1. OneWriter /\ SlotsKnown /\ KeysFit /\ \A u \in Thread : KeyPlace(u)
  BY DEF KeysInv
<1>2. Shape(t) /\ DekFrom(t) /\ \A u \in Thread \ {t} : pc'[u] = pc[u] /\ mine'[u] = mine[u]
  BY DEF WriteTo, Shape, Others
<1>3. pc[t] # "idle" /\ mine[t].call \in 1 .. started /\ started' = started
  BY DEF InitWrites, WriteTo, IInv, Placed, Calls
<1>4. ASSUME NEW u \in Thread \ {t} PROVE KeyPlace(u)'
  <2>1. pc[u] \notin InitWrites
    BY <1>1 DEF OneWriter
  <2>2. pc[u] = "check" => mine[u].call # mine[t].call
    BY <1>3 DEF IInv, Placed, Calls
  <2>3. QED
    BY <1>1, <1>2, <2>1, <2>2, BesideWriter
<1>5. \A u \in Thread : KeyPlace(u)'
  BY <1>4, IdlePlace
<1>6. OneWriter'
  BY <1>1, <1>2 DEF OneWriter
<1>7. SlotsKnown'
  BY <1>1, <1>3 DEF SlotsKnown
<1>8. KeysFit'
  BY <1>1, <1>2, KeysFitKept
<1>9. QED
  BY <1>5, <1>6, <1>7, <1>8 DEF KeysInv

(* A slot is saved while there is no header.                               *)
LEMMA SlotKeys ==
    ASSUME IInv, KeysInv, ~overlapped, NEW t \in Thread, SaveSlot1(t) \/ SaveSlot2(t)
    PROVE  KeysInv'
<1>1. ThreadType /\ Shape(t) /\ KeyPlace(t) /\ HeaderFits /\ mine[t].usb \in BOOLEAN
  BY InitGoes, TypeParts DEF IInv, KeysInv, ThreadType, MineType
<1>2. pc[t] \in {"slot1", "slot2"} /\ pc[t] \in InitWrites /\ mac = NoMac
  BY <1>1 DEF SaveSlot1, SaveSlot2, InitWrites, KeyPlace
<1> DEFINE next == IF mine[t].usb THEN "slot2" ELSE "mac"
<1>3. next \in InitWrites \cup {"audit"} /\ "mac" \in InitWrites \cup {"audit"}
  BY DEF InitWrites
<1>4. CASE UNCHANGED tables /\ (WriteTo(t, next) \/ WriteTo(t, "mac"))
           /\ (pc'[t] = "idle" \/ (pc'[t] = pc[t] /\ mine'[t] = mine[t]))
  BY <1>1, <1>4, LeftKeys DEF WriteTo, HeaderSame, tables, meta
<1>5. CASE /\ pc[t] = "slot1" /\ WriteTo(t, next)
           /\ slots' = WithSlot(Slot(t, 1)) /\ UNCHANGED <<meta, secrets, nextId, log>>
  <2>1. mac' = mac /\ floor' = floor /\ generation' = generation
    BY <1>5 DEF meta
  <2>2. Slot(t, 1) \in slots' /\ Slot(t, 1).dek = mine[t].call /\ Slot(t, 1) \in SlotsOf(t)
    BY <1>5 DEF WithSlot, Slot, SlotsOf
  <2>3. \A s \in slots' : s \in slots \/ s = Slot(t, 1)
    BY <1>5 DEF WithSlot
  <2>4. HeaderFits'
    BY <1>1, <1>2, <2>1 DEF HeaderFits
  <2>5. ASSUME pc'[t] # "idle" PROVE KeyPlace(t)'
    <3>1. mine'[t] = mine[t] /\ pc'[t] \in {"slot1", next}
      BY <1>5, <2>5 DEF WriteTo
    <3>2. SlotsOf(t)' = SlotsOf(t) /\ Slot(t, 1)' = Slot(t, 1)
      BY <3>1 DEF SlotsOf, Slot
    <3>3. \A s \in slots' : s.dek = mine[t].call => s \in SlotsOf(t)
      BY <1>1, <1>2, <2>2, <2>3 DEF KeyPlace
    <3>4. pc'[t] = "slot2" => mine[t].usb
      BY <3>1
    <3>5. pc'[t] = "mac" => SlotsOf(t) \subseteq slots'
      BY <2>2, <3>1 DEF SlotsOf
    <3>6. pc'[t] \in {"slot1", "slot2", "mac"}
      BY <3>1
    <3>7. QED
      BY <1>2, <2>1, <2>2, <3>1, <3>2, <3>3, <3>4, <3>5, <3>6 DEF KeyPlace, Keyed
  <2> HIDE DEF next
  <2>6. QED
    BY <1>2, <1>3, <1>5, <2>1, <2>2, <2>3, <2>4, <2>5, WriterKeys
<1>6. CASE /\ pc[t] = "slot2" /\ WriteTo(t, "mac")
           /\ slots' = WithSlot(Slot(t, 2)) /\ UNCHANGED <<meta, secrets, nextId, log>>
  <2>1. mac' = mac /\ floor' = floor /\ generation' = generation
    BY <1>6 DEF meta
  <2>2. mine[t].usb /\ Slot(t, 1) \in slots
    BY <1>1, <1>6 DEF KeyPlace
  <2>3. /\ Slot(t, 2) \in slots' /\ Slot(t, 2).dek = mine[t].call
        /\ SlotsOf(t) = {Slot(t, 1), Slot(t, 2)} /\ Slot(t, 1) \in slots'
    BY <1>6, <2>2 DEF WithSlot, Slot, SlotsOf
  <2>4. \A s \in slots' : s \in slots \/ s = Slot(t, 2)
    BY <1>6 DEF WithSlot
  <2>5. HeaderFits'
    BY <1>1, <1>2, <2>1 DEF HeaderFits
  <2>6. ASSUME pc'[t] # "idle" PROVE KeyPlace(t)'
    <3>1. mine'[t] = mine[t] /\ pc'[t] \in {"slot2", "mac"}
      BY <1>6, <2>6 DEF WriteTo
    <3>2. SlotsOf(t)' = SlotsOf(t) /\ Slot(t, 1)' = Slot(t, 1)
      BY <3>1 DEF SlotsOf, Slot
    <3>3. \A s \in slots' : s.dek = mine[t].call => s \in SlotsOf(t)
      BY <1>1, <1>2, <2>3, <2>4 DEF KeyPlace
    <3>4. QED
      BY <1>2, <2>1, <2>2, <2>3, <3>1, <3>2, <3>3 DEF KeyPlace, Keyed
  <2>7. QED
    BY <1>2, <1>3, <1>6, <2>1, <2>3, <2>4, <2>5, <2>6, WriterKeys
<1>7. CASE SaveSlot1(t)
  BY <1>1, <1>4, <1>5, <1>7, SendWrites DEF SaveSlot1
<1>8. CASE SaveSlot2(t)
  BY <1>1, <1>4, <1>6, <1>8, SendWrites DEF SaveSlot2
<1>9. QED
  BY <1>7, <1>8

(* The header is written once the slots it covers are saved.               *)
LEMMA MacKeys ==
    ASSUME IInv, KeysInv, ~overlapped, NEW t \in Thread, PutHeaderMac(t)
    PROVE  KeysInv'
<1>1. /\ ThreadType /\ Shape(t) /\ KeyPlace(t) /\ HeaderFits
      /\ pc[t] = "mac" /\ pc[t] \in InitWrites /\ "floor" \in InitWrites \cup {"audit"}
  BY InitGoes, TypeParts DEF IInv, KeysInv, PutHeaderMac, InitWrites
<1>2. mine[t].call \in 1 .. started /\ started \in Nat
  BY <1>1 DEF IInv, Placed, Calls, TypeOK
<1>3. CASE UNCHANGED tables /\ WriteTo(t, "floor")
           /\ (pc'[t] = "idle" \/ (pc'[t] = pc[t] /\ mine'[t] = mine[t]))
  BY <1>1, <1>3, LeftKeys DEF WriteTo, HeaderSame, tables, meta
<1>4. CASE /\ WriteTo(t, "floor") /\ mac' = MacOf(t)
           /\ UNCHANGED <<slots, floor, generation, secrets, nextId, log>>
  <2>1. MacOf(t).dek = mine[t].call /\ MacOf(t).floor = mine[t].call /\ MacOf(t).slots = SlotsOf(t)
    BY DEF MacOf
  <2>2. mac' # NoMac /\ mine[t].call # 0
    BY <1>2, <1>4, <2>1 DEF NoMac
  <2>3. SlotsOf(t) \subseteq slots /\ \A s \in slots : s.dek = mine[t].call => s \in SlotsOf(t)
    BY <1>1 DEF KeyPlace
  <2>4. mac = NoMac \/ mac = MacOf(t)
    BY <1>1 DEF KeyPlace
  <2>5. floor = 0 \/ floor = mac'.floor
    BY <1>1, <1>4, <2>4 DEF HeaderFits
  <2>6. generation = 1 => floor = mac'.floor
    BY <1>1, <1>4, <2>4 DEF HeaderFits
  <2>7. HeaderFits'
    BY <1>4, <2>1, <2>2, <2>3, <2>5, <2>6 DEF HeaderFits
  <2>8. ASSUME pc'[t] # "idle" PROVE KeyPlace(t)'
    <3>1. mine'[t] = mine[t] /\ pc'[t] \in {"mac", "floor"}
      BY <1>1, <1>4, <2>8 DEF WriteTo
    <3>2. SlotsOf(t)' = SlotsOf(t) /\ MacOf(t)' = MacOf(t)
      BY <3>1 DEF SlotsOf, Slot, MacOf
    <3>3. QED
      BY <1>4, <2>3, <3>1, <3>2 DEF KeyPlace, Keyed
  <2>9. QED
    BY <1>1, <1>4, <2>4, <2>7, <2>8, WriterKeys
<1>5. QED
  BY <1>1, <1>3, <1>4, SendWrites DEF PutHeaderMac, MacOf

LEMMA FloorKeys ==
    ASSUME IInv, KeysInv, ~overlapped, NEW t \in Thread, PutFloor(t)
    PROVE  KeysInv'
<1>1. /\ ThreadType /\ Shape(t) /\ KeyPlace(t) /\ HeaderFits
      /\ pc[t] = "floor" /\ pc[t] \in InitWrites /\ "generation" \in InitWrites \cup {"audit"}
  BY InitGoes, TypeParts DEF IInv, KeysInv, PutFloor, InitWrites
<1>2. mac = MacOf(t) /\ mac.floor = mine[t].call /\ mac.dek = mine[t].call
  BY <1>1 DEF KeyPlace, MacOf
<1>3. mac # NoMac
  <2>1. mine[t].call \in 1 .. started /\ started \in Nat
    BY <1>1 DEF IInv, Placed, Calls, TypeOK
  <2>2. mine[t].call # 0
    BY <2>1
  <2>3. QED
    BY <1>2, <2>2 DEF NoMac
<1>4. CASE UNCHANGED tables /\ WriteTo(t, "generation")
           /\ (pc'[t] = "idle" \/ (pc'[t] = pc[t] /\ mine'[t] = mine[t]))
  BY <1>1, <1>4, LeftKeys DEF WriteTo, HeaderSame, tables, meta
<1>5. CASE /\ WriteTo(t, "generation") /\ floor' = mine[t].call
           /\ UNCHANGED <<slots, mac, generation, secrets, nextId, log>>
  <2>1. HeaderFits'
    BY <1>1, <1>2, <1>3, <1>5 DEF HeaderFits
  <2>2. ASSUME pc'[t] # "idle" PROVE KeyPlace(t)'
    <3>1. mine'[t] = mine[t] /\ pc'[t] \in {"floor", "generation"}
      BY <1>1, <1>5, <2>2 DEF WriteTo
    <3>2. SlotsOf(t)' = SlotsOf(t) /\ MacOf(t)' = MacOf(t)
      BY <3>1 DEF SlotsOf, Slot, MacOf
    <3>3. SlotsOf(t) \subseteq slots /\ \A s \in slots : s.dek = mine[t].call => s \in SlotsOf(t)
      BY <1>1 DEF KeyPlace
    <3>4. QED
      BY <1>2, <1>5, <3>1, <3>2, <3>3 DEF KeyPlace, Keyed
  <2>3. QED
    BY <1>1, <1>5, <2>1, <2>2, WriterKeys
<1>6. QED
  BY <1>1, <1>4, <1>5, SendWrites DEF PutFloor

LEMMA GenerationKeys ==
    ASSUME IInv, KeysInv, ~overlapped, NEW t \in Thread, PutGeneration(t)
    PROVE  KeysInv'
<1>1. /\ ThreadType /\ Shape(t) /\ KeyPlace(t) /\ HeaderFits
      /\ pc[t] = "generation" /\ pc[t] \in InitWrites
  BY InitGoes, TypeParts DEF IInv, KeysInv, PutGeneration, InitWrites
<1>2. mac = MacOf(t) /\ mac.floor = mine[t].call /\ mac.dek = mine[t].call /\ floor = mine[t].call
  BY <1>1 DEF KeyPlace, MacOf
<1>3. mac # NoMac
  <2>1. mine[t].call \in 1 .. started /\ started \in Nat
    BY <1>1 DEF IInv, Placed, Calls, TypeOK
  <2>2. mine[t].call # 0
    BY <2>1
  <2>3. QED
    BY <1>2, <2>2 DEF NoMac
<1>4. CASE UNCHANGED tables /\ WriteTo(t, "audit")
           /\ (pc'[t] = "idle" \/ (pc'[t] = pc[t] /\ mine'[t] = mine[t]))
  BY <1>1, <1>4, LeftKeys DEF WriteTo, HeaderSame, tables, meta
<1>5. CASE /\ WriteTo(t, "audit") /\ generation' = 1
           /\ UNCHANGED <<slots, mac, floor, secrets, nextId, log>>
  <2>1. HeaderFits'
    BY <1>1, <1>2, <1>3, <1>5 DEF HeaderFits
  <2>2. ASSUME pc'[t] # "idle" PROVE KeyPlace(t)'
    <3>1. mine'[t] = mine[t] /\ pc'[t] \in {"generation", "audit"}
      BY <1>1, <1>5, <2>2 DEF WriteTo
    <3>2. SlotsOf(t)' = SlotsOf(t) /\ MacOf(t)' = MacOf(t)
      BY <3>1 DEF SlotsOf, Slot, MacOf
    <3>3. SlotsOf(t) \subseteq slots /\ \A s \in slots : s.dek = mine[t].call => s \in SlotsOf(t)
      BY <1>1 DEF KeyPlace
    <3>4. mine[t].op = "init"
      BY <1>1 DEF IInv, Placed, Ops
    <3>5. QED
      BY <1>2, <1>5, <3>1, <3>2, <3>3, <3>4 DEF KeyPlace, Keyed, InitWrites
  <2>3. QED
    BY <1>1, <1>5, <2>1, <2>2, WriterKeys
<1>6. QED
  BY <1>1, <1>4, <1>5, SendWrites DEF PutGeneration

(* An init goes on only where there is no header, and overlapped marks it  *)
(* when another one is writing.                                            *)
LEMMA CheckKeys ==
    ASSUME IInv, KeysInv, ~overlapped', NEW t \in Thread, CheckUninitialized(t)
    PROVE  KeysInv'
<1>1. CASE mac # NoMac
  <2>1. Fail(t) /\ UNCHANGED <<tables, memory>>
    BY <1>1 DEF CheckUninitialized
  <2>2. QED
    BY <2>1, RefusedKeys DEF Refused, memory
<1>2. CASE mac = NoMac
  <2>1. /\ Goto(t, "slot1") /\ UNCHANGED <<tables, home, dek, mine, returned, started>>
        /\ ~overlapped /\ overlapped' = overlapped /\ \A u \in Thread : pc[u] \notin InitWrites
    BY <1>2 DEF CheckUninitialized, IInv, TypeOK
  <2>2. OneWriter /\ SlotsKnown /\ HeaderFits /\ KeysFit /\ \A u \in Thread : KeyPlace(u)
    BY <2>1 DEF KeysInv
  <2>3. Shape(t) /\ HeaderSame /\ DekFrom(t)
    BY <2>1, InitGoes, TypeParts DEF IInv, HeaderSame, DekFrom, tables, meta
  <2>4. /\ pc'[t] = "slot1" /\ mine' = mine
        /\ \A u \in Thread \ {t} : pc'[u] = pc[u]
    BY <2>1, GotoOthers, TypeParts DEF IInv
  <2>5. \A u \in Thread \ {t} : KeyPlace(u)'
    BY <2>2, <2>3, <2>4, PlaceKept
  <2>6. KeyPlace(t)'
    <3>1. \A s \in slots : s.dek # mine[t].call
      BY <2>2 DEF CheckUninitialized, KeyPlace
    <3>2. QED
      BY <1>2, <2>3, <2>4, <3>1 DEF KeyPlace, Keyed, HeaderSame
  <2>7. OneWriter'
    BY <2>1, <2>4 DEF OneWriter
  <2>8. SlotsKnown' /\ HeaderFits'
    BY <2>1, <2>2, <2>3 DEF SlotsKnown, HeaderFits, HeaderSame
  <2>9. KeysFit'
    BY <2>2, <2>3, KeysFitKept DEF HeaderSame
  <2>10. QED
    BY <2>5, <2>6, <2>7, <2>8, <2>9 DEF KeysInv
<1>3. QED
  BY <1>1, <1>2
-----------------------------------------------------------------------------
LEMMA CrashKeys ==
    ASSUME IInv, KeysInv, ~overlapped, NEW d \in Daemon, Crash(d)
    PROVE  KeysInv'
<1>1. OneWriter /\ SlotsKnown /\ HeaderFits /\ KeysFit /\ \A u \in Thread : KeyPlace(u)
  BY DEF KeysInv
<1>2. HeaderSame /\ UNCHANGED <<secrets, returned, started>>
  BY DEF Crash, HeaderSame, tables, meta
<1>3. \A u \in Thread : pc'[u] = "idle" \/ (pc'[u] = pc[u] /\ mine'[u] = mine[u])
  BY DEF Crash
<1>4. \A u \in Thread : KeyPlace(u)'
  BY <1>1, <1>2, <1>3, PlaceKept, IdlePlace
<1>5. OneWriter'
  BY <1>1, <1>3 DEF OneWriter, InitWrites
<1>6. SlotsKnown' /\ HeaderFits'
  BY <1>1, <1>2 DEF SlotsKnown, HeaderFits, HeaderSame
<1>7. \A e \in Daemon : dek'[e] = dek[e] \/ dek'[e] = 0
  BY DEF Crash, IInv, TypeOK
<1>8. KeysFit'
  BY <1>1, <1>2, <1>7 DEF KeysFit, HeaderSame
<1>9. QED
  BY <1>4, <1>5, <1>6, <1>8 DEF KeysInv

LEMMA InitKeys == Init => KeysInv
<1> SUFFICES ASSUME Init PROVE KeysInv
  OBVIOUS
<1>1. PICK n \in 0 .. Before : log = Linked(n)
  BY DEF Init
<1>2. n \in Nat /\ Len(log) = n /\ Before \in Nat /\ Before >= 1 /\ DOMAIN log = 1 .. n
  <2>1. n \in Nat /\ Before \in Nat /\ Before >= 1
    BY BeforeType
  <2>2. QED
    BY <1>1, <2>1 DEF Linked
<1>3. \A t \in Thread : pc[t] = "idle"
  BY DEF Init
<1>4. OneWriter /\ \A t \in Thread : KeyPlace(t)
  BY <1>3 DEF OneWriter, KeyPlace, Keyed, InitWrites
<1>5. secrets = {} /\ started = Before
  BY DEF Init, StoreInit
<1>6. CASE log = <<>>
  <2>1. slots = {} /\ mac = NoMac /\ floor = 0 /\ generation = 0 /\ NoMac.dek = 0
    BY <1>6 DEF Init, StoreInit, NoMac
  <2>2. \A d \in Daemon : dek[d] = 0
    BY <2>1 DEF Init
  <2>3. returned = {}
    BY <1>2, <1>6 DEF Init
  <2>4. QED
    BY <1>4, <1>5, <2>1, <2>2, <2>3 DEF KeysInv, SlotsKnown, HeaderFits, KeysFit
<1>7. CASE log # <<>>
  <2>1. /\ slots = {[id |-> 1, dek |-> 1]} /\ mac = [dek |-> 1, slots |-> slots, floor |-> 1]
        /\ floor = 1 /\ generation = 1
    BY <1>7 DEF Init, StoreInit
  <2>2. mac # NoMac /\ mac.dek = 1 /\ mac.floor = 1 /\ mac.slots = slots
    BY <2>1 DEF NoMac
  <2>3. \A d \in Daemon : dek[d] # 0 => dek[d] = mac.dek
    BY DEF Init
  <2>4. SlotsKnown
    BY <1>2, <1>5, <2>1 DEF SlotsKnown
  <2>5. QED
    BY <1>4, <1>5, <2>1, <2>2, <2>3, <2>4 DEF KeysInv, HeaderFits, KeysFit
<1>8. QED
  BY <1>6, <1>7

LEMMA NextKeys == IInv /\ KeysInv /\ [Next]_vars => KeysInv'
<1> SUFFICES ASSUME IInv, KeysInv, [Next]_vars, ~overlapped'
             PROVE  KeysInv'
  BY DEF KeysInv
<1>1. ASSUME NEW t \in Thread, CheckUninitialized(t)
      PROVE  KeysInv'
  BY <1>1, CheckKeys
<1>2. CASE overlapped' = overlapped
  <2>1. CASE UNCHANGED vars \/ Finished
    <3>1. UNCHANGED <<slots, mac, floor, generation, overlapped, secrets, returned, started, dek, pc, mine>>
      BY <2>1 DEF Finished, vars, tables, meta, memory
    <3>2. \A u \in Thread : KeyPlace(u)' <=> KeyPlace(u)
      BY <3>1 DEF KeyPlace, Keyed, MacOf, SlotsOf, Slot
    <3>3. QED
      BY <1>2, <3>1, <3>2 DEF KeysInv, OneWriter, SlotsKnown, HeaderFits, KeysFit
  <2>2. ASSUME NEW t \in Thread, Step(t)
        PROVE  KeysInv'
    BY <1>1, <1>2, <2>2, SlotKeys, MacKeys, FloorKeys, GenerationKeys, UnlockKeys, PutKeys, AuditKeys
       DEF Step
  <2>3. ASSUME NEW t \in Thread, Begin(t)
        PROVE  KeysInv'
    BY <1>2, <2>3, BeginKeys
  <2>4. ASSUME NEW t \in Thread, StoreFails(t)
        PROVE  KeysInv'
    BY <1>2, <2>4, RefusedKeys DEF StoreFails, Refused
  <2>5. ASSUME NEW d \in Daemon, Crash(d)
        PROVE  KeysInv'
    BY <1>2, <2>5, CrashKeys
  <2>6. QED
    BY <2>1, <2>2, <2>3, <2>4, <2>5 DEF Next
<1>3. overlapped' = overlapped \/ \E t \in Thread : CheckUninitialized(t)
  BY DEF Next, vars, Finished, Step, Begin, SaveSlot1, SaveSlot2, PutHeaderMac, PutFloor, PutGeneration,
         ReadSlots, ReadHeaderMac, ReadFloor, Probe, CommitUnlock, ReadMaxVersion, Reserve, InsertSecret,
         OpenLatest, ReadTail, AppendRow, Learn, Refused, Rejected, Collision, StartInit, StartUnlock,
         StartLock, StartPut, StartGet, Start, StoreFails, Crash, memory
<1>4. QED
  BY <1>1, <1>2, <1>3

LEMMA KeysAlways == Spec => []KeysInv
  BY PlacedAlways, InitKeys, NextKeys, PTL DEF Spec

(* As long as no two inits wrote at once, whoever holds a DEK opens every  *)
(* secret, for any number of daemons, calls, crashes, lost answers and     *)
(* statements sent twice (init_vault, unlock, secret_put).                 *)
THEOREM SecretsReadable == Spec => []SecretsStayReadable
<1>1. KeysInv => SecretsStayReadable
  BY DEF KeysInv, KeysFit, SecretsStayReadable
<1>2. QED
  BY <1>1, KeysAlways, PTL

(* A vault whose init returned Ok opens with every slot of its header, or  *)
(* a slot of an init that died before it is still there (init_vault,       *)
(* verify_header_mac).                                                     *)
THEOREM InitOpens == Spec => []OpensAfterInit
<1>1. IInv /\ KeysInv => OpensAfterInit
  <2> SUFFICES ASSUME IInv, KeysInv, ~overlapped, \E r \in returned : r.op = "init",
                      \A s \in slots : s.dek = mac.dek
               PROVE  Openable
    BY DEF OpensAfterInit
  <2>1. generation = 1 /\ floor = mac.floor /\ mac # NoMac
    BY DEF KeysInv, KeysFit, HeaderFits
  <2>2. mac.slots = slots
    BY <2>1 DEF KeysInv, HeaderFits
  <2>3. mac \in MacType
    BY DEF IInv, TypeOK
  <2>4. mac = [dek |-> mac.dek, slots |-> slots, floor |-> floor]
    BY <2>1, <2>2, <2>3 DEF MacType
  <2>5. QED
    BY <2>1, <2>4 DEF Openable
<1>2. QED
  BY <1>1, PlacedAlways, KeysAlways, PTL
=============================================================================
