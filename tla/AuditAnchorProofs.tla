-------------------------- MODULE AuditAnchorProofs --------------------------
(***************************************************************************)
(* Proofs about AuditAnchor, for every set of threads, bound and fault     *)
(* set: types, the lock discipline of the anchor, and - when only one      *)
(* thread is inside the engine at a time - that the anchored log           *)
(* implements the abstract ledger.                                         *)
(***************************************************************************)
EXTENDS AuditAnchor, TLAPS

(* The steps that write no audit row, one disjunct per program step.       *)
QuietStep(t) ==
    \/ SkipAdvance(t) \/ ReadTail(t) \/ ReadHighWater(t) \/ PutHighWater(t) \/ PutHead(t)
    \/ VerifyHead(t) \/ VerifyHw(t) \/ Decide(t) \/ CommitUnlock(t)
    \/ StartUnlock(t) \/ StartLock(t) \/ StoreFails(t)

(* The steps that append one row and enter the anchor advance.             *)
RowStep(t) ==
    \E purpose \in {"audit", "admit"} :
        /\ pc[t] \in {"idle", "refused", "admitted", "locked"}
        /\ purpose = "admit" => pc[t] = "admitted"
        /\ AppendRow(t, purpose)

(* Next, grouped the way the proofs below split it.                        *)
LEMMA NextCases ==
    ASSUME TypeOK, [Next]_vars
    PROVE  /\ crew' = crew
           /\ \/ \E t \in Thread : t \in crew /\ (RowStep(t) \/ QuietStep(t))
              \/ Crash
              \/ LoseTail
              \/ UNCHANGED vars
<1>0. crew \subseteq Thread
  BY DEF TypeOK
<1>1. ASSUME NEW t \in Thread, StartAudit(t) \/ RefuseUnlock(t) \/ AdmitUnlock(t) \/ AuditLock(t)
      PROVE  RowStep(t)
  BY <1>1 DEF StartAudit, RefuseUnlock, AdmitUnlock, AuditLock, RowStep
<1>2. ASSUME NEW t \in Thread, ThreadStep(t) \/ Call(t) \/ StoreFails(t)
      PROVE  RowStep(t) \/ QuietStep(t)
  BY <1>1, <1>2 DEF ThreadStep, Call, QuietStep
<1>3. CASE UNCHANGED vars
  BY <1>3 DEF vars
<1>4. CASE Next
  BY <1>0, <1>2, <1>3, <1>4 DEF Next, Finished
<1>5. QED
  BY <1>3, <1>4

(* Appending keeps every earlier row in place and puts the new one last.   *)
LEMMA AppendKeepsRows ==
    ASSUME NEW rows \in Seq(Nat), NEW row \in Nat
    PROVE  /\ Append(rows, row) \in Seq(Nat)
           /\ Len(Append(rows, row)) = Len(rows) + 1
           /\ \A i \in 1 .. Len(rows) : Append(rows, row)[i] = rows[i]
           /\ Append(rows, row)[Len(rows) + 1] = row
           /\ \A n \in 0 .. Len(rows) : RowAt(Append(rows, row), n) = RowAt(rows, n)
  BY DEF RowAt

(* Losing a tail keeps the rows before it.                                 *)
LEMMA PrefixKeepsRows ==
    ASSUME NEW rows \in Seq(Nat), NEW n \in 0 .. Len(rows)
    PROVE  /\ SubSeq(rows, 1, n) \in Seq(Nat)
           /\ Len(SubSeq(rows, 1, n)) = n
           /\ \A i \in 1 .. n : SubSeq(rows, 1, n)[i] = rows[i]
  OBVIOUS

(* The tail a thread reads is a position of the log.                       *)
LEMMA LastAuditIsAnchor ==
    ASSUME TypeOK
    PROVE  /\ LastAudit(log) \in Anchor
           /\ LastAudit(log).seq = Len(log)
           /\ LastAudit(log).row = RowAt(log, Len(log))
  BY DEF TypeOK, LastAudit, RowAt, Anchor, Position

LEMMA HighWaterIsPosition ==
    ASSUME TypeOK, NEW t \in Thread
    PROVE  HighWater(t) \in Position
  BY DEF TypeOK, HighWater, MaxOf, Anchor, Position
-----------------------------------------------------------------------------
LEMMA InitTypeOK == Init => TypeOK
  BY DEF Init, TypeOK, Pc, Op, Anchor, Position

(* A row step makes one more position; everything copied stays in range.   *)
LEMMA RowStepTypeOK ==
    ASSUME TypeOK, crew' = crew, NEW t \in Thread, RowStep(t)
    PROVE  TypeOK'
<1>1. next' = next + 1 /\ next \in Nat \ {0} /\ next' \in Nat \ {0}
  BY DEF TypeOK, RowStep, AppendRow
<1>2. Position \subseteq Position' /\ Anchor \subseteq Anchor'
  BY <1>1 DEF Position, Anchor
<1>3. log' \in Seq(Nat) /\ Len(log') < next' /\ \A i \in 1 .. Len(log') : log'[i] \in 1 .. next' - 1
  <2>1. log' = Append(log, next) /\ log \in Seq(Nat) /\ Len(log) < next
    BY DEF TypeOK, RowStep, AppendRow
  <2>2. Len(log') = Len(log) + 1 /\ log'[Len(log) + 1] = next
        /\ \A i \in 1 .. Len(log) : log'[i] = log[i]
    BY <1>1, <2>1, AppendKeepsRows
  <2>3. QED
    BY <1>1, <2>1, <2>2 DEF TypeOK
<1>4. pc' \in [Thread -> Pc] /\ op' \in [Thread -> Op]
  BY DEF TypeOK, RowStep, AppendRow, Goto, Pc, Op
<1>5. UNCHANGED <<hw, head, vault, tail, prev, seen, seenHw, fence, lone>>
  BY DEF RowStep, AppendRow, locals
<1>6. QED
  BY <1>1, <1>2, <1>3, <1>4, <1>5 DEF TypeOK

LEMMA QuietStepTypeOK ==
    ASSUME TypeOK, crew' = crew, NEW t \in Thread, QuietStep(t)
    PROVE  TypeOK'
<1> USE DEF TypeOK, Goto, Pc, Op, store, locals
<1>1. CASE SkipAdvance(t)
  BY <1>1 DEF SkipAdvance, AfterAdvance, Position, Anchor
<1>2. CASE ReadTail(t)
  BY <1>2, LastAuditIsAnchor DEF ReadTail, Position, Anchor
<1>3. CASE ReadHighWater(t)
  BY <1>3 DEF ReadHighWater, Position, Anchor
<1>4. CASE PutHighWater(t)
  BY <1>4, HighWaterIsPosition DEF PutHighWater, Position, Anchor
<1>5. CASE PutHead(t)
  BY <1>5, HighWaterIsPosition DEF PutHead, AfterAdvance, Position, Anchor
<1>6. CASE VerifyHead(t)
  BY <1>6 DEF VerifyHead, Position, Anchor
<1>7. CASE VerifyHw(t)
  BY <1>7 DEF VerifyHw, Position, Anchor
<1>8. CASE Decide(t)
  BY <1>8 DEF Decide, Position, Anchor
<1>9. CASE CommitUnlock(t)
  BY <1>9 DEF CommitUnlock, Position, Anchor
<1>10. CASE StartUnlock(t)
  BY <1>10 DEF StartUnlock, Position, Anchor
<1>11. CASE StartLock(t)
  BY <1>11 DEF StartLock, Position, Anchor
<1>12. CASE StoreFails(t)
  BY <1>12 DEF StoreFails, Position, Anchor
<1>13. QED
  BY <1>1, <1>2, <1>3, <1>4, <1>5, <1>6, <1>7, <1>8, <1>9, <1>10, <1>11, <1>12 DEF QuietStep

LEMMA NextTypeOK == TypeOK /\ [Next]_vars => TypeOK'
<1> SUFFICES ASSUME TypeOK, [Next]_vars
             PROVE  TypeOK'
  OBVIOUS
<1>0. crew' = crew
  BY NextCases
<1>1. CASE Crash
  BY <1>0, <1>1 DEF Crash, TypeOK, store, locals, Pc, Position, Anchor
<1>2. CASE LoseTail
  <2>1. PICK n \in 0 .. Len(log) - 1 : log' = SubSeq(log, 1, n)
    BY <1>2 DEF LoseTail
  <2>2. log' \in Seq(Nat) /\ Len(log') = n /\ \A i \in 1 .. n : log'[i] = log[i]
    BY <2>1, PrefixKeepsRows DEF TypeOK
  <2>3. UNCHANGED <<next, hw, head, vault, pc, op, tail, prev, seen, seenHw, fence, lone>>
    BY <1>2 DEF LoseTail, locals
  <2>4. Position' = Position /\ Anchor' = Anchor
    BY <2>3 DEF Position, Anchor
  <2>5. n \in Nat /\ n < Len(log) /\ Len(log) \in Nat /\ next \in Nat
    BY DEF TypeOK
  <2>6. Len(log') < next' /\ \A i \in 1 .. Len(log') : log'[i] \in 1 .. next' - 1
    <3>1. Len(log) < next /\ \A i \in 1 .. Len(log) : log[i] \in 1 .. next - 1
      BY DEF TypeOK
    <3>2. Len(log') = n /\ next' = next
      BY <2>2, <2>3
    <3>3. Len(log') < next'
      BY <2>5, <3>1, <3>2
    <3>4. ASSUME NEW i \in 1 .. n
          PROVE  log'[i] \in 1 .. next' - 1
      <4>1. log'[i] = log[i]
        BY <2>2
      <4>2. i \in 1 .. Len(log)
        BY <2>5
      <4>3. QED
        BY <3>1, <3>2, <4>1, <4>2
    <3>5. QED
      BY <3>2, <3>3, <3>4
  <2>7. QED
    BY <1>0, <2>2, <2>3, <2>4, <2>6 DEF TypeOK
<1>3. CASE UNCHANGED vars
  BY <1>3 DEF vars, TypeOK, Position, Anchor
<1>4. QED
  BY <1>0, <1>1, <1>2, <1>3, NextCases, RowStepTypeOK, QuietStepTypeOK

(* Every reachable state is well typed, and no stored or copied position   *)
(* is beyond the rows ever appended, for any number of threads.            *)
THEOREM TypeCorrect == Spec => []TypeOK
  BY InitTypeOK, NextTypeOK, PTL DEF Spec
-----------------------------------------------------------------------------
(* A thread inside an advance holds the read guard over an unlocked vault, *)
(* because both writers of the vault lock wait for every such guard.       *)
GuardInv == \A t \in Thread : HoldsRead(t) => vault = "Unlocked"

LEMMA RowStepGuard ==
    ASSUME TypeOK, GuardInv, NEW t \in Thread, RowStep(t)
    PROVE  GuardInv' /\ UNCHANGED <<hw, head>>
  BY DEF TypeOK, GuardInv, HoldsRead, RowStep, AppendRow, Goto

LEMMA QuietStepGuard ==
    ASSUME TypeOK, GuardInv, NEW t \in Thread, QuietStep(t)
    PROVE  GuardInv'
<1> USE DEF TypeOK, GuardInv, HoldsRead, Goto
<1>1. CASE SkipAdvance(t)
  BY <1>1 DEF SkipAdvance, AfterAdvance
<1>2. CASE ReadTail(t)
  BY <1>2 DEF ReadTail
<1>3. CASE ReadHighWater(t)
  BY <1>3 DEF ReadHighWater
<1>4. CASE PutHighWater(t)
  BY <1>4 DEF PutHighWater
<1>5. CASE PutHead(t)
  BY <1>5 DEF PutHead, AfterAdvance
<1>6. CASE VerifyHead(t) \/ VerifyHw(t) \/ Decide(t)
  BY <1>6 DEF VerifyHead, VerifyHw, Decide
<1>7. CASE CommitUnlock(t)
  BY <1>7 DEF CommitUnlock
<1>8. CASE StartUnlock(t)
  BY <1>8 DEF StartUnlock
<1>9. CASE StartLock(t)
  BY <1>9 DEF StartLock, WriteGuardFree
<1>10. CASE StoreFails(t)
  BY <1>10 DEF StoreFails
<1>11. QED
  BY <1>1, <1>2, <1>3, <1>4, <1>5, <1>6, <1>7, <1>8, <1>9, <1>10 DEF QuietStep

LEMMA NextGuard == TypeOK /\ GuardInv /\ [Next]_vars => GuardInv'
<1> SUFFICES ASSUME TypeOK, GuardInv, [Next]_vars
             PROVE  GuardInv'
  OBVIOUS
<1>1. CASE Crash
  BY <1>1 DEF Crash, GuardInv, HoldsRead
<1>2. CASE LoseTail \/ UNCHANGED vars
  BY <1>2 DEF LoseTail, vars, GuardInv, HoldsRead
<1>3. QED
  BY <1>1, <1>2, NextCases, RowStepGuard, QuietStepGuard

LEMMA GuardCorrect == Spec => [](TypeOK /\ GuardInv)
<1>1. Init => GuardInv
  BY DEF Init, GuardInv, HoldsRead
<1>2. QED
  BY <1>1, InitTypeOK, NextTypeOK, NextGuard, PTL DEF Spec

(* Only the two anchor writes of a guarded thread change the anchor.       *)
LEMMA AnchorStep ==
    ASSUME TypeOK, GuardInv, [Next]_vars, hw' # hw \/ head' # head
    PROVE  vault = "Unlocked" /\ vault' = "Unlocked"
<1>1. ASSUME NEW t \in Thread, QuietStep(t)
      PROVE  PutHighWater(t) \/ PutHead(t)
  BY <1>1 DEF QuietStep, SkipAdvance, ReadTail, ReadHighWater, VerifyHead, VerifyHw,
              Decide, CommitUnlock, StartUnlock, StartLock, StoreFails, store
<1>2. ASSUME NEW t \in Thread, PutHighWater(t) \/ PutHead(t)
      PROVE  vault = "Unlocked" /\ vault' = "Unlocked"
  BY <1>2 DEF PutHighWater, PutHead, GuardInv, HoldsRead
<1>3. ~Crash /\ ~LoseTail /\ ~UNCHANGED vars
  BY DEF Crash, LoseTail, vars, store
<1>4. QED
  BY <1>1, <1>2, <1>3, NextCases, RowStepGuard

(* The anchor moves only while the vault is unlocked, for any number of    *)
(* threads, any faults and either build.                                   *)
THEOREM AnchorNeverMovesLocked == Spec => AnchorMovesOnlyUnlocked
<1>1. TypeOK /\ GuardInv /\ [Next]_vars
        => [hw' # hw \/ head' # head => vault = "Unlocked" /\ vault' = "Unlocked"]_vars
  BY AnchorStep
<1>2. QED
  BY <1>1, GuardCorrect, PTL DEF Spec, AnchorMovesOnlyUnlocked
-----------------------------------------------------------------------------
(* What an advance that nobody overlaps rests on.  It is the only one under way. *)
LoneHolds == \A t \in lone : HoldsRead(t) => \A u \in Thread : HoldsRead(u) => u = t

(* From a passed verification to the next lock the high-water is within    *)
(* the log, and a verification that reads it early learns nothing else.    *)
FloorHeld == vault = "Unlocked" \/ (\E t \in Thread : Opening(t)) => hw <= Len(log)
FloorSeen == \A t \in Thread : pc[t] = "decide" => seenHw[t] = hw \/ hw <= Len(log)

(* A running advance has a row of the log in its hands.                    *)
TailIsRow ==
    \A t \in Thread : HoldsRead(t) =>
        tail[t].seq <= Len(log) /\ RowAt(log, tail[t].seq) = tail[t].row
PrevWithin == \A t \in Thread : pc[t] \in {"putHw", "putHead"} => prev[t] <= Len(log)

(* Nothing has been stored past the row of an advance that runs alone.     *)
LoneIsFresh ==
    \A t \in lone :
        /\ pc[t] = "readHw" => hw <= tail[t].seq
        /\ pc[t] \in {"putHw", "putHead"} => prev[t] <= tail[t].seq
        /\ pc[t] = "putHead" => hw = HighWater(t)

LoneInv == LoneHolds /\ FloorHeld /\ FloorSeen /\ TailIsRow /\ PrevWithin /\ LoneIsFresh

LEMMA InitLone == Init => LoneInv
  BY DEF Init, LoneInv, LoneHolds, FloorHeld, FloorSeen, TailIsRow, PrevWithin, LoneIsFresh,
         HoldsRead, Opening

LEMMA PositionsAreNat ==
    ASSUME TypeOK
    PROVE  /\ hw \in Nat /\ Len(log) \in Nat
           /\ \A t \in Thread : tail[t].seq \in Nat /\ prev[t] \in Nat /\ seenHw[t] \in Nat
  BY DEF TypeOK, Position, Anchor

LEMMA RowStepLone ==
    ASSUME TypeOK, GuardInv, LoneInv, NEW t \in Thread, RowStep(t)
    PROVE  LoneInv'
<1>1. PICK purpose \in {"audit", "admit"} :
        /\ pc[t] \in {"idle", "refused", "admitted", "locked"}
        /\ purpose = "admit" => pc[t] = "admitted"
        /\ AppendRow(t, purpose)
  BY DEF RowStep
<1>2. /\ log' = Append(log, next) /\ log \in Seq(Nat) /\ next \in Nat
      /\ pc' = [pc EXCEPT ![t] = "advance"] /\ op' = [op EXCEPT ![t] = purpose]
      /\ UNCHANGED <<hw, vault, tail, prev, seenHw, lone>>
  BY <1>1 DEF AppendRow, Goto, TypeOK, locals
<1>3. /\ Len(log') = Len(log) + 1
      /\ \A n \in 0 .. Len(log) : RowAt(log', n) = RowAt(log, n)
  BY <1>2, AppendKeepsRows
<1>4. /\ hw \in Nat /\ Len(log) \in Nat
      /\ \A u \in Thread : tail[u].seq \in Nat /\ prev[u] \in Nat
  BY PositionsAreNat
<1>5. \A u \in Thread : pc'[u] = IF u = t THEN "advance" ELSE pc[u]
  BY <1>2 DEF TypeOK
<1>6. \A u \in Thread : HoldsRead(u)' => HoldsRead(u) /\ pc'[u] = pc[u]
  BY <1>5 DEF HoldsRead
<1>7. \A u \in Thread : Opening(u)' => Opening(u)
  BY <1>1, <1>2, <1>5 DEF Opening, TypeOK
<1>8. LoneHolds'
  BY <1>2, <1>6 DEF LoneInv, LoneHolds, TypeOK
<1>9. FloorHeld'
  BY <1>2, <1>3, <1>4, <1>7 DEF LoneInv, FloorHeld
<1>10. FloorSeen'
  BY <1>2, <1>3, <1>4, <1>5 DEF LoneInv, FloorSeen
<1>11. TailIsRow'
  <2>1. SUFFICES ASSUME NEW u \in Thread, HoldsRead(u)
                 PROVE  tail[u].seq <= Len(log') /\ RowAt(log', tail[u].seq) = tail[u].row
    BY <1>2, <1>6 DEF TailIsRow
  <2>2. tail[u].seq <= Len(log) /\ RowAt(log, tail[u].seq) = tail[u].row
    BY <2>1 DEF LoneInv, TailIsRow
  <2>3. tail[u].seq \in 0 .. Len(log)
    BY <1>4, <2>2
  <2>4. QED
    BY <1>3, <1>4, <2>2, <2>3
<1>12. PrevWithin'
  BY <1>2, <1>3, <1>4, <1>5 DEF LoneInv, PrevWithin
<1>13. LoneIsFresh'
  BY <1>2, <1>5 DEF LoneInv, LoneIsFresh, HighWater, TypeOK
<1>14. QED
  BY <1>8, <1>9, <1>10, <1>11, <1>12, <1>13 DEF LoneInv

(* A step that writes neither the log nor the high-water, reads neither    *)
(* and leads out of the advance.                                           *)
LEMMA CalmStepLone ==
    ASSUME TypeOK, LoneInv, NEW t \in Thread, NEW l,
           l \notin {"readHw", "putHw", "putHead", "decide"},
           pc' = [pc EXCEPT ![t] = l],
           UNCHANGED <<log, hw, tail, prev, seenHw>>, lone' \subseteq lone,
           FloorHeld'
    PROVE  LoneInv'
<1>1. \A u \in Thread : pc'[u] = IF u = t THEN l ELSE pc[u]
  BY DEF TypeOK
<1>2. \A u \in Thread : HoldsRead(u)' => HoldsRead(u) /\ pc'[u] = pc[u]
  BY <1>1 DEF HoldsRead
<1>3. LoneHolds'
  BY <1>2 DEF LoneInv, LoneHolds, TypeOK
<1>4. FloorSeen'
  BY <1>1 DEF LoneInv, FloorSeen
<1>5. TailIsRow'
  BY <1>2 DEF LoneInv, TailIsRow
<1>6. PrevWithin'
  BY <1>1 DEF LoneInv, PrevWithin
<1>7. LoneIsFresh'
  BY <1>1 DEF LoneInv, LoneIsFresh, HighWater, TypeOK
<1>8. QED
  BY <1>3, <1>4, <1>5, <1>6, <1>7 DEF LoneInv

LEMMA ReadTailLone ==
    ASSUME TypeOK, GuardInv, LoneInv, NEW t \in Thread, ReadTail(t)
    PROVE  LoneInv'
<1>1. /\ pc[t] = "advance" /\ vault = "Unlocked" /\ pc' = [pc EXCEPT ![t] = "readHw"]
      /\ tail' = [tail EXCEPT ![t] = LastAudit(log)]
      /\ lone' = IF WriteGuardFree THEN {t} ELSE {}
      /\ UNCHANGED <<log, hw, vault, op, prev, seenHw>>
  BY DEF ReadTail, Goto, store
<1>2. /\ \A u \in Thread : pc'[u] = IF u = t THEN "readHw" ELSE pc[u]
      /\ \A u \in Thread : tail'[u] = IF u = t THEN LastAudit(log) ELSE tail[u]
  BY <1>1 DEF TypeOK
<1>3. LastAudit(log).seq = Len(log) /\ LastAudit(log).row = RowAt(log, Len(log))
  BY LastAuditIsAnchor
<1>4. hw <= Len(log) /\ Len(log) \in Nat
  BY <1>1, PositionsAreNat DEF LoneInv, FloorHeld
<1>5. LoneHolds'
  BY <1>1, <1>2 DEF LoneHolds, HoldsRead, WriteGuardFree
<1>6. FloorHeld' /\ FloorSeen'
  BY <1>1, <1>2, <1>4 DEF FloorHeld, FloorSeen
<1>7. TailIsRow'
  BY <1>1, <1>2, <1>3, <1>4 DEF LoneInv, TailIsRow, HoldsRead
<1>8. PrevWithin'
  BY <1>1, <1>2 DEF LoneInv, PrevWithin
<1>9. LoneIsFresh'
  <2>1. \A u \in lone' : u = t /\ pc'[u] = "readHw" /\ tail'[u].seq = Len(log)
    BY <1>1, <1>2, <1>3
  <2>2. QED
    BY <1>1, <1>4, <2>1 DEF LoneIsFresh
<1>10. QED
  BY <1>5, <1>6, <1>7, <1>8, <1>9 DEF LoneInv

LEMMA ReadHighWaterLone ==
    ASSUME TypeOK, GuardInv, LoneInv, NEW t \in Thread, ReadHighWater(t)
    PROVE  LoneInv'
<1>1. /\ pc[t] = "readHw" /\ pc' = [pc EXCEPT ![t] = "putHw"]
      /\ prev' = [prev EXCEPT ![t] = hw]
      /\ UNCHANGED <<log, hw, vault, op, tail, seenHw, lone>>
  BY DEF ReadHighWater, Goto, store
<1>2. /\ \A u \in Thread : pc'[u] = IF u = t THEN "putHw" ELSE pc[u]
      /\ \A u \in Thread : prev'[u] = IF u = t THEN hw ELSE prev[u]
  BY <1>1 DEF TypeOK
<1>3. hw <= Len(log)
  BY <1>1 DEF GuardInv, HoldsRead, LoneInv, FloorHeld
<1>4. LoneHolds'
  BY <1>1, <1>2 DEF LoneInv, LoneHolds, HoldsRead, TypeOK
<1>5. FloorHeld' /\ FloorSeen'
  BY <1>1, <1>2, <1>3 DEF FloorHeld, FloorSeen
<1>6. TailIsRow'
  BY <1>1, <1>2 DEF LoneInv, TailIsRow, HoldsRead
<1>7. PrevWithin'
  BY <1>1, <1>2, <1>3 DEF LoneInv, PrevWithin
<1>8. LoneIsFresh'
  BY <1>1, <1>2 DEF LoneInv, LoneIsFresh, HighWater, TypeOK
<1>9. QED
  BY <1>4, <1>5, <1>6, <1>7, <1>8 DEF LoneInv

LEMMA PutHighWaterLone ==
    ASSUME TypeOK, GuardInv, LoneInv, NEW t \in Thread, PutHighWater(t)
    PROVE  LoneInv'
<1> DEFINE l == IF DebugAsserts /\ HighWater(t) # tail[t].seq THEN "idle" ELSE "putHead"
<1>1. /\ pc[t] = "putHw" /\ pc' = [pc EXCEPT ![t] = l] /\ hw' = HighWater(t)
      /\ UNCHANGED <<log, vault, op, tail, prev, seenHw, lone>>
  BY DEF PutHighWater, Goto, locals
<1>2. \A u \in Thread : pc'[u] = IF u = t THEN l ELSE pc[u]
  BY <1>1 DEF TypeOK
<1>3. l \in {"idle", "putHead"}
  OBVIOUS
<1> HIDE DEF l
<1>4. HoldsRead(t) /\ \A u \in Thread : HoldsRead(u)' => HoldsRead(u)
  BY <1>1, <1>2, <1>3 DEF HoldsRead
<1>5. hw' <= Len(log)
  <2>1. tail[t].seq <= Len(log) /\ prev[t] <= Len(log)
    BY <1>1, <1>4 DEF LoneInv, TailIsRow, PrevWithin
  <2>2. QED
    BY <1>1, <2>1, PositionsAreNat DEF HighWater, MaxOf
<1>6. LoneHolds'
  BY <1>1, <1>4 DEF LoneInv, LoneHolds, TypeOK
<1>7. FloorHeld' /\ FloorSeen'
  BY <1>1, <1>5 DEF FloorHeld, FloorSeen
<1>8. TailIsRow'
  BY <1>1, <1>4 DEF LoneInv, TailIsRow
<1>9. PrevWithin'
  BY <1>1, <1>2, <1>3 DEF LoneInv, PrevWithin
<1>10. LoneIsFresh'
  <2>1. SUFFICES ASSUME NEW u \in lone
                 PROVE  /\ pc'[u] = "readHw" => hw' <= tail[u].seq
                        /\ pc'[u] \in {"putHw", "putHead"} => prev[u] <= tail[u].seq
                        /\ pc'[u] = "putHead" => hw' = HighWater(u)
    BY <1>1 DEF LoneIsFresh, HighWater
  <2>2. u \in Thread
    BY DEF TypeOK
  <2>3. CASE u = t
    BY <1>1, <1>2, <1>3, <2>2, <2>3 DEF LoneInv, LoneIsFresh
  <2>4. CASE u # t
    <3>1. ~HoldsRead(u)
      BY <1>4, <2>2, <2>4 DEF LoneInv, LoneHolds
    <3>2. QED
      BY <1>2, <2>2, <2>4, <3>1 DEF HoldsRead
  <2>5. QED
    BY <2>3, <2>4
<1>11. QED
  BY <1>6, <1>7, <1>8, <1>9, <1>10 DEF LoneInv

LEMMA VerifyHwLone ==
    ASSUME TypeOK, GuardInv, LoneInv, NEW t \in Thread, VerifyHw(t)
    PROVE  LoneInv'
<1>1. /\ pc[t] = "verifyHw" /\ pc' = [pc EXCEPT ![t] = "decide"]
      /\ seenHw' = [seenHw EXCEPT ![t] = hw]
      /\ UNCHANGED <<log, hw, vault, op, tail, prev, lone>>
  BY DEF VerifyHw, Goto, store
<1>2. /\ \A u \in Thread : pc'[u] = IF u = t THEN "decide" ELSE pc[u]
      /\ \A u \in Thread : seenHw'[u] = IF u = t THEN hw ELSE seenHw[u]
  BY <1>1 DEF TypeOK
<1>3. \A u \in Thread : HoldsRead(u)' => HoldsRead(u) /\ pc'[u] = pc[u]
  BY <1>2 DEF HoldsRead
<1>4. LoneHolds'
  BY <1>1, <1>3 DEF LoneInv, LoneHolds, TypeOK
<1>5. FloorHeld'
  BY <1>1, <1>2 DEF LoneInv, FloorHeld, Opening
<1>6. FloorSeen'
  BY <1>1, <1>2 DEF LoneInv, FloorSeen
<1>7. TailIsRow'
  BY <1>1, <1>3 DEF LoneInv, TailIsRow
<1>8. PrevWithin'
  BY <1>1, <1>2 DEF LoneInv, PrevWithin
<1>9. LoneIsFresh'
  BY <1>1, <1>2 DEF LoneInv, LoneIsFresh, HighWater, TypeOK
<1>10. QED
  BY <1>4, <1>5, <1>6, <1>7, <1>8, <1>9 DEF LoneInv

LEMMA QuietStepLone ==
    ASSUME TypeOK, GuardInv, LoneInv, NEW t \in Thread, QuietStep(t)
    PROVE  LoneInv'
<1>0. FloorHeld /\ FloorSeen
  BY DEF LoneInv
<1>1. CASE SkipAdvance(t)
  <2>1. FloorHeld'
    BY <1>0, <1>1 DEF SkipAdvance, AfterAdvance, Goto, TypeOK, FloorHeld, Opening, store
  <2>2. QED
    BY <1>1, <2>1, CalmStepLone DEF SkipAdvance, AfterAdvance, Goto, store, locals
<1>2. CASE ReadTail(t)
  BY <1>2, ReadTailLone
<1>3. CASE ReadHighWater(t)
  BY <1>3, ReadHighWaterLone
<1>4. CASE PutHighWater(t)
  BY <1>4, PutHighWaterLone
<1>5. CASE PutHead(t)
  <2>1. hw <= Len(log)
    BY <1>0, <1>5 DEF PutHead, GuardInv, HoldsRead, FloorHeld
  <2>2. FloorHeld'
    BY <1>5, <2>1 DEF PutHead, FloorHeld
  <2>3. /\ pc' = [pc EXCEPT ![t] = AfterAdvance(t)]
        /\ AfterAdvance(t) \notin {"readHw", "putHw", "putHead", "decide"}
        /\ UNCHANGED <<log, hw, tail, prev, seenHw>> /\ lone' \subseteq lone
    BY <1>5 DEF PutHead, AfterAdvance, Goto, locals
  <2>4. QED
    BY <2>2, <2>3, CalmStepLone
<1>6. CASE VerifyHead(t)
  <2>1. FloorHeld'
    BY <1>0, <1>6 DEF VerifyHead, Goto, TypeOK, FloorHeld, Opening, store
  <2>2. QED
    BY <1>6, <2>1, CalmStepLone DEF VerifyHead, Goto, store
<1>7. CASE VerifyHw(t)
  BY <1>7, VerifyHwLone
<1>8. CASE Decide(t)
  <2>1. Accepts(seen[t], seenHw[t], log) => hw <= Len(log)
    BY <1>0, <1>8 DEF Decide, Accepts, FloorSeen
  <2>2. FloorHeld'
    BY <1>0, <1>8, <2>1 DEF Decide, Goto, TypeOK, FloorHeld, Opening, store
  <2> DEFINE l == IF Accepts(seen[t], seenHw[t], log) THEN "admitted" ELSE "refused"
  <2>3. /\ pc' = [pc EXCEPT ![t] = l]
        /\ l \notin {"readHw", "putHw", "putHead", "decide"}
        /\ UNCHANGED <<log, hw, tail, prev, seenHw>> /\ lone' \subseteq lone
    BY <1>8 DEF Decide, Goto, store, locals
  <2> HIDE DEF l
  <2>4. QED
    BY <2>2, <2>3, CalmStepLone
<1>9. CASE CommitUnlock(t)
  <2>1. hw <= Len(log)
    BY <1>0, <1>9 DEF CommitUnlock, FloorHeld, Opening
  <2>2. FloorHeld'
    BY <1>9, <2>1 DEF CommitUnlock, FloorHeld, store
  <2>3. QED
    BY <1>9, <2>2, CalmStepLone DEF CommitUnlock, Goto, store, locals
<1>10. CASE StartUnlock(t)
  <2>1. FloorHeld'
    BY <1>0, <1>10 DEF StartUnlock, Goto, TypeOK, FloorHeld, Opening, store
  <2>2. QED
    BY <1>10, <2>1, CalmStepLone DEF StartUnlock, Goto, store, locals
<1>11. CASE StartLock(t)
  <2>1. FloorHeld'
    BY <1>0, <1>11 DEF StartLock, Goto, TypeOK, FloorHeld, Opening, store
  <2>2. QED
    BY <1>11, <2>1, CalmStepLone DEF StartLock, Goto, store, locals
<1>12. CASE StoreFails(t)
  <2>1. FloorHeld'
    BY <1>0, <1>12 DEF StoreFails, Goto, TypeOK, FloorHeld, Opening, store
  <2>2. QED
    BY <1>12, <2>1, CalmStepLone DEF StoreFails, Goto, store, locals
<1>13. QED
  BY <1>1, <1>2, <1>3, <1>4, <1>5, <1>6, <1>7, <1>8, <1>9, <1>10, <1>11, <1>12 DEF QuietStep

LEMMA NextLone == TypeOK /\ GuardInv /\ LoneInv /\ [Next]_vars => LoneInv'
<1> SUFFICES ASSUME TypeOK, GuardInv, LoneInv, [Next]_vars
             PROVE  LoneInv'
  OBVIOUS
<1>1. CASE Crash \/ LoseTail
  <2>1. vault' = "Locked" /\ (\A t \in Thread : pc'[t] = "idle") /\ lone' \subseteq lone
    BY <1>1 DEF Crash, LoseTail
  <2>2. QED
    BY <2>1 DEF LoneInv, LoneHolds, FloorHeld, FloorSeen, TailIsRow, PrevWithin, LoneIsFresh,
                HoldsRead, Opening, TypeOK
<1>2. CASE UNCHANGED vars
  BY <1>2 DEF vars, LoneInv, LoneHolds, FloorHeld, FloorSeen, TailIsRow, PrevWithin, LoneIsFresh,
              HoldsRead, Opening, HighWater
<1>3. QED
  BY <1>1, <1>2, NextCases, RowStepLone, QuietStepLone

LEMMA LoneCorrect == Spec => [](TypeOK /\ GuardInv /\ LoneInv)
  BY InitLone, NextLone, GuardCorrect, PTL DEF Spec

(* An advance that no other overlaps heals the anchor: for any threads,    *)
(* faults and earlier overlaps, the pair it leaves verifies against the    *)
(* log as it stands (write_audit_anchor, verify_audit_anchor_with).        *)
THEOREM LoneAdvanceHeals == Spec => LoneAdvanceVerifies
<1>1. ASSUME TypeOK, LoneInv, NEW t \in lone, PutHead(t)
      PROVE  Accepts(head', hw', log')
  <2>1. /\ pc[t] = "putHead" /\ t \in Thread
        /\ head' = [seq |-> HighWater(t), row |-> tail[t].row] /\ hw' = hw /\ log' = log
    BY <1>1 DEF PutHead, TypeOK
  <2>2. hw = HighWater(t) /\ prev[t] <= tail[t].seq
    BY <1>1, <2>1 DEF LoneInv, LoneIsFresh
  <2>3. tail[t].seq <= Len(log) /\ RowAt(log, tail[t].seq) = tail[t].row
    BY <1>1, <2>1 DEF LoneInv, TailIsRow, HoldsRead
  <2>4. HighWater(t) = tail[t].seq
    BY <1>1, <2>1, <2>2, PositionsAreNat DEF HighWater, MaxOf
  <2>5. QED
    BY <2>1, <2>2, <2>3, <2>4 DEF Accepts
<1>2. TypeOK /\ GuardInv /\ LoneInv /\ [Next]_vars
        => [\A t \in lone : PutHead(t) => Accepts(head', hw', log')]_vars
  BY <1>1
<1>3. QED
  BY <1>2, LoneCorrect, PTL DEF Spec, LoneAdvanceVerifies
-----------------------------------------------------------------------------
(* From here on one thread is inside the engine at a time: the crew is one.*)
(* Who is not of the crew never does anything; with one thread in the      *)
(* crew, every other thread is idle.                                       *)
OthersIdle == \A t \in Thread : t \notin crew => pc[t] = "idle"

LEMMA NextOthersIdle == TypeOK /\ OthersIdle /\ [Next]_vars => OthersIdle'
<1> SUFFICES ASSUME TypeOK, OthersIdle, [Next]_vars
             PROVE  OthersIdle'
  OBVIOUS
<1>1. ASSUME NEW t \in Thread, t \in crew, RowStep(t) \/ QuietStep(t), crew' = crew
      PROVE  OthersIdle'
  <2>1. \E label \in Pc : pc' = [pc EXCEPT ![t] = label]
    BY <1>1 DEF RowStep, AppendRow, QuietStep, SkipAdvance, AfterAdvance, ReadTail,
                ReadHighWater, PutHighWater, PutHead, VerifyHead, VerifyHw, Decide,
                CommitUnlock, StartUnlock, StartLock, StoreFails, Goto, Pc
  <2>2. QED
    BY <1>1, <2>1 DEF OthersIdle, TypeOK
<1>2. CASE Crash \/ LoseTail \/ UNCHANGED vars
  BY <1>2, NextCases DEF Crash, LoseTail, vars, OthersIdle
<1>3. QED
  BY <1>1, <1>2, NextCases

LEMMA LoneCaller ==
    ASSUME SingleWriter, TypeOK, OthersIdle, NEW t \in Thread, t \in crew
    PROVE  \A s \in Thread : s # t => pc[s] = "idle"
  BY DEF SingleWriter, OthersIdle, TypeOK

LEMMA InitSolo == Init => SoloParts
  BY DEF Init, SoloParts, SealedIsHead, OpenKnowsHead, AdvanceIsFresh, PrevIsBehind,
         VerifyIsFresh, Opening, HoldsRead, RowAt

LEMMA RowStepSolo ==
    ASSUME SingleWriter, TypeOK, OthersIdle, SoloParts,
           NEW t \in Thread, t \in crew, RowStep(t)
    PROVE  SoloParts'
<1>1. PICK purpose \in {"audit", "admit"} :
          /\ purpose = "admit" => pc[t] = "admitted"
          /\ AppendRow(t, purpose)
  BY DEF RowStep
<1>2. /\ log' = Append(log, next)
      /\ pc' = [pc EXCEPT ![t] = "advance"]
      /\ op' = [op EXCEPT ![t] = purpose]
      /\ UNCHANGED <<hw, head, vault, tail, prev, seen, seenHw, fence>>
  BY <1>1 DEF AppendRow, Goto, locals
<1>3. /\ pc'[t] = "advance" /\ op'[t] = purpose
      /\ \A s \in Thread : s # t => pc[s] = "idle" /\ pc'[s] = "idle" /\ op'[s] = op[s]
  BY <1>2, LoneCaller DEF TypeOK
<1>4. SealedIsHead' /\ AdvanceIsFresh' /\ PrevIsBehind' /\ VerifyIsFresh'
  BY <1>2, <1>3 DEF SoloParts, SealedIsHead, AdvanceIsFresh, PrevIsBehind, VerifyIsFresh, HoldsRead
<1>5. ASSUME (vault = "Unlocked" \/ \E s \in Thread : Opening(s))'
      PROVE  vault = "Unlocked" \/ \E s \in Thread : Opening(s)
  BY <1>1, <1>2, <1>3, <1>5 DEF Opening
<1>6. ASSUME hw <= Len(log), head.seq <= Len(log), RowAt(log, head.seq) = head.row
      PROVE  hw' <= Len(log') /\ head'.seq <= Len(log') /\ RowAt(log', head'.seq) = head'.row
  <2>1. log \in Seq(Nat) /\ next \in Nat /\ hw \in Nat /\ head.seq \in Nat
    BY DEF TypeOK, Anchor, Position
  <2>2. head.seq \in 0 .. Len(log) /\ Len(log) \in Nat
    BY <1>6, <2>1
  <2>3. Len(log') = Len(log) + 1 /\ RowAt(log', head.seq) = RowAt(log, head.seq)
    BY <1>2, <2>1, <2>2, AppendKeepsRows
  <2>4. QED
    BY <1>2, <1>6, <2>1, <2>2, <2>3
<1>7. OpenKnowsHead'
  BY <1>5, <1>6 DEF SoloParts, OpenKnowsHead
<1>8. QED
  BY <1>4, <1>7 DEF SoloParts

(* A lone advance signs the position it read, and it is the log's tail.    *)
LEMMA SoloAdvance ==
    ASSUME TypeOK, SoloParts, NEW t \in Thread, pc[t] \in {"putHw", "putHead"}
    PROVE  /\ HighWater(t) = tail[t].seq
           /\ tail[t] = LastAudit(log)
           /\ tail[t].seq = Len(log)
           /\ tail[t].row = RowAt(log, Len(log))
           /\ fence.seq <= tail[t].seq
           /\ vault = "Unlocked"
<1>1. tail[t] = LastAudit(log) /\ vault = "Unlocked"
  BY DEF SoloParts, AdvanceIsFresh, HoldsRead
<1>2. prev[t] <= tail[t].seq /\ prev[t] \in Nat /\ tail[t].seq \in Nat
  BY DEF SoloParts, PrevIsBehind, TypeOK, Anchor, Position
<1>3. HighWater(t) = tail[t].seq
  BY <1>2 DEF HighWater, MaxOf
<1>4. fence.seq <= Len(log)
  BY <1>1 DEF SoloParts, SealedIsHead, OpenKnowsHead
<1>5. QED
  BY <1>1, <1>3, <1>4, LastAuditIsAnchor

LEMMA QuietStepSolo ==
    ASSUME SingleWriter, TypeOK, OthersIdle, SoloParts,
           NEW t \in Thread, t \in crew, QuietStep(t)
    PROVE  SoloParts'
<1>0. \A s \in Thread : s # t => pc[s] = "idle"
  BY LoneCaller
<1>1. pc \in [Thread -> Pc] /\ tail \in [Thread -> Anchor] /\ prev \in [Thread -> Position]
      /\ seen \in [Thread -> Anchor] /\ seenHw \in [Thread -> Position]
  BY DEF TypeOK
<1> USE <1>0, <1>1 DEF SoloParts, SealedIsHead, AdvanceIsFresh, PrevIsBehind,
                       VerifyIsFresh, HoldsRead, Goto
<1>2. CASE SkipAdvance(t)
  BY <1>2 DEF SkipAdvance, AfterAdvance, store, locals, OpenKnowsHead, Opening
<1>3. CASE ReadTail(t)
  BY <1>3 DEF ReadTail, store, OpenKnowsHead, Opening
<1>4. CASE ReadHighWater(t)
  <2>1. /\ pc[t] = "readHw"
        /\ pc' = [pc EXCEPT ![t] = "putHw"]
        /\ prev' = [prev EXCEPT ![t] = hw]
        /\ UNCHANGED <<log, next, hw, head, vault, op, tail, seen, seenHw, fence>>
    BY <1>4 DEF ReadHighWater, store
  <2>2. tail[t] = LastAudit(log) /\ vault = "Unlocked" /\ hw <= Len(log)
    BY <2>1 DEF OpenKnowsHead
  <2>3. prev'[t] <= tail'[t].seq
    BY <2>1, <2>2, LastAuditIsAnchor
  <2>4. OpenKnowsHead'
    BY <2>1, <2>2 DEF OpenKnowsHead
  <2>5. QED
    BY <2>1, <2>2, <2>3, <2>4
<1>5. CASE PutHighWater(t)
  <2>1. /\ pc[t] = "putHw"
        /\ hw' = HighWater(t)
        /\ pc' = [pc EXCEPT ![t] = "putHead"]
        /\ UNCHANGED <<log, next, head, vault, op, tail, prev, seen, seenHw, fence>>
    BY <1>5, SoloAdvance DEF PutHighWater, locals
  <2>2. hw' = Len(log) /\ vault = "Unlocked"
    BY <2>1, SoloAdvance
  <2>3. OpenKnowsHead'
    BY <2>1, <2>2 DEF OpenKnowsHead, TypeOK
  <2>4. QED
    BY <2>1, <2>3
<1>6. CASE PutHead(t)
  <2>1. /\ pc[t] = "putHead"
        /\ head' = [seq |-> HighWater(t), row |-> tail[t].row]
        /\ fence' = IF tail[t].seq >= fence.seq THEN tail[t] ELSE fence
        /\ pc' = [pc EXCEPT ![t] = AfterAdvance(t)]
        /\ UNCHANGED <<log, next, hw, vault, op, tail, prev, seen, seenHw>>
    BY <1>6 DEF PutHead, locals
  <2>2. head' = LastAudit(log) /\ fence' = LastAudit(log)
    <3>1. tail[t] = [seq |-> tail[t].seq, row |-> tail[t].row]
      BY DEF TypeOK, Anchor
    <3>2. tail[t].seq \in Nat /\ fence.seq \in Nat
      BY DEF TypeOK, Anchor, Position
    <3>3. QED
      BY <2>1, <3>1, <3>2, SoloAdvance
  <2>3. OpenKnowsHead'
    <3>1. hw' <= Len(log')
      BY <2>1, SoloAdvance DEF OpenKnowsHead
    <3>2. head'.seq = Len(log') /\ head'.row = RowAt(log', Len(log')) /\ Len(log') \in Nat
      BY <2>1, <2>2, LastAuditIsAnchor DEF TypeOK
    <3>3. QED
      BY <3>1, <3>2 DEF OpenKnowsHead
  <2>4. pc'[t] \in {"commit", "idle"}
    BY <2>1 DEF AfterAdvance
  <2>5. QED
    BY <2>1, <2>2, <2>3, <2>4
<1>7. CASE VerifyHead(t)
  BY <1>7 DEF VerifyHead, store, OpenKnowsHead, Opening
<1>8. CASE VerifyHw(t)
  BY <1>8 DEF VerifyHw, store, OpenKnowsHead, Opening
<1>9. CASE Decide(t)
  <2>1. /\ pc[t] = "decide"
        /\ pc' = [pc EXCEPT ![t] = IF Accepts(seen[t], seenHw[t], log) THEN "admitted" ELSE "refused"]
        /\ UNCHANGED <<log, next, hw, head, vault, op, tail, prev, seen, seenHw, fence>>
    BY <1>9 DEF Decide, store, locals
  <2>2. seen[t] = head /\ seenHw[t] = hw
    BY <2>1
  <2>3. CASE Accepts(seen[t], seenHw[t], log)
    <3>1. hw <= Len(log) /\ head.seq <= Len(log) /\ RowAt(log, head.seq) = head.row
      BY <2>2, <2>3 DEF Accepts
    <3>2. OpenKnowsHead'
      BY <2>1, <3>1 DEF OpenKnowsHead
    <3>3. QED
      BY <2>1, <3>2
  <2>4. CASE ~Accepts(seen[t], seenHw[t], log)
    BY <2>1, <2>4 DEF OpenKnowsHead, Opening
  <2>5. QED
    BY <2>3, <2>4
<1>10. CASE CommitUnlock(t)
  BY <1>10 DEF CommitUnlock, store, locals, OpenKnowsHead, Opening
<1>11. CASE StartUnlock(t)
  BY <1>11 DEF StartUnlock, store, locals, OpenKnowsHead, Opening
<1>12. CASE StartLock(t)
  BY <1>12 DEF StartLock, store, locals, OpenKnowsHead, Opening
<1>13. CASE StoreFails(t)
  BY <1>13 DEF StoreFails, store, locals, OpenKnowsHead, Opening
<1>14. QED
  BY <1>2, <1>3, <1>4, <1>5, <1>6, <1>7, <1>8, <1>9, <1>10, <1>11, <1>12, <1>13 DEF QuietStep

LEMMA NextSolo == SingleWriter /\ TypeOK /\ OthersIdle /\ SoloParts /\ [Next]_vars => SoloParts'
<1> SUFFICES ASSUME SingleWriter, TypeOK, OthersIdle, SoloParts, [Next]_vars
             PROVE  SoloParts'
  OBVIOUS
<1> USE DEF SoloParts, SealedIsHead, OpenKnowsHead, AdvanceIsFresh, PrevIsBehind,
            VerifyIsFresh, HoldsRead, Opening
<1>1. CASE Crash
  BY <1>1 DEF Crash, store, locals
<1>2. CASE LoseTail
  BY <1>2 DEF LoseTail, locals
<1>3. CASE UNCHANGED vars
  BY <1>3 DEF vars
<1>4. QED
  BY <1>1, <1>2, <1>3, NextCases, RowStepSolo, QuietStepSolo

LEMMA SoloInductive == Spec => [](TypeOK /\ OthersIdle /\ SoloInv)
<1>1. Init => TypeOK /\ OthersIdle /\ SoloInv
  BY InitTypeOK, InitSolo DEF Init, OthersIdle, SoloInv
<1>2. TypeOK /\ OthersIdle /\ SoloInv /\ [Next]_vars => (TypeOK /\ OthersIdle /\ SoloInv)'
  <2>1. TypeOK /\ [Next]_vars => (SingleWriter' <=> SingleWriter)
    BY NextCases DEF SingleWriter
  <2>2. QED
    BY <2>1, NextTypeOK, NextOthersIdle, NextSolo DEF SoloInv
<1>3. QED
  BY <1>1, <1>2, PTL DEF Spec

(* While one thread is inside the engine, its anchor is always the         *)
(* furthest sealed row, and what it holds in its hands is fresh.           *)
THEOREM SoloCorrect == Spec => []SoloInv
  BY SoloInductive, PTL
-----------------------------------------------------------------------------
(* With one caller at a time write_audit_anchor's debug assertion holds:   *)
(* the high-water it stores is the position of the tail it signs.          *)
THEOREM HighWaterSigned == Spec => []HighWaterIsTail
<1>1. TypeOK /\ SoloInv => HighWaterIsTail
  BY SoloAdvance DEF HighWaterIsTail, SoloInv
<1>2. QED
  BY <1>1, SoloInductive, PTL

(* A vault that opens does so in the commit of an unlock that has passed   *)
(* verification, and since then the log has kept the sealed row.           *)
LEMMA OpeningStep ==
    ASSUME TypeOK, SoloParts, [Next]_vars, vault = "Locked", vault' = "Unlocked"
    PROVE  /\ \E t \in Thread : CommitUnlock(t)
           /\ fence.seq <= Len(log)
           /\ RowAt(log, fence.seq) = fence.row
<1>1. \A t \in Thread : ~RowStep(t)
  BY DEF RowStep, AppendRow
<1>2. ASSUME NEW t \in Thread, QuietStep(t)
      PROVE  CommitUnlock(t)
  BY <1>2 DEF QuietStep, SkipAdvance, ReadTail, ReadHighWater, PutHighWater, PutHead,
              VerifyHead, VerifyHw, Decide, StartUnlock, StartLock, StoreFails
<1>3. ~Crash /\ ~LoseTail /\ ~UNCHANGED vars
  BY DEF Crash, LoseTail, vars
<1>4. PICK t \in Thread : CommitUnlock(t)
  BY <1>1, <1>2, <1>3, NextCases
<1>5. Opening(t)
  BY <1>4 DEF CommitUnlock, Opening
<1>6. QED
  BY <1>4, <1>5 DEF SoloParts, SealedIsHead, OpenKnowsHead

(* A vault opens only on a log that still holds the furthest signed row,   *)
(* whatever crashes, failed store calls and lost tails came before.        *)
THEOREM OpensOnSealedLog == Spec => OpensOnlyOnSealedLog
<1>1. TypeOK /\ SoloInv /\ [Next]_vars
        => [SingleWriter /\ vault = "Locked" /\ vault' = "Unlocked"
              => fence.seq <= Len(log) /\ RowAt(log, fence.seq) = fence.row]_vars
  BY OpeningStep DEF SoloInv
<1>2. QED
  BY <1>1, SoloInductive, PTL DEF Spec, OpensOnlyOnSealedLog

(* A lone advance never lowers the stored high-water.                      *)
THEOREM HighWaterMonotone == Spec => HighWaterNeverDecreases
<1>1. ASSUME TypeOK, SoloParts, [Next]_vars
      PROVE  hw' >= hw
  <2>1. hw \in Nat /\ Len(log) \in Nat
    BY <1>1 DEF TypeOK, Position
  <2>2. ASSUME NEW t \in Thread, PutHighWater(t)
        PROVE  hw' >= hw
    <3>1. hw' = Len(log) /\ vault = "Unlocked"
      BY <1>1, <2>2, SoloAdvance DEF PutHighWater
    <3>2. hw <= Len(log)
      BY <1>1, <3>1 DEF SoloParts, OpenKnowsHead
    <3>3. QED
      BY <2>1, <3>1, <3>2
  <2>3. ASSUME NEW t \in Thread, RowStep(t) \/ QuietStep(t), ~PutHighWater(t)
        PROVE  hw' = hw
    BY <2>3 DEF RowStep, AppendRow, QuietStep, SkipAdvance, ReadTail, ReadHighWater, PutHead,
                VerifyHead, VerifyHw, Decide, CommitUnlock, StartUnlock, StartLock,
                StoreFails, store
  <2>4. Crash \/ LoseTail \/ UNCHANGED vars => hw' = hw
    BY DEF Crash, LoseTail, vars, store
  <2>5. QED
    BY <1>1, <2>1, <2>2, <2>3, <2>4, NextCases
<1>2. TypeOK /\ SoloInv /\ [Next]_vars => [SingleWriter => hw' >= hw]_vars
  BY <1>1 DEF SoloInv
<1>3. QED
  BY <1>2, SoloInductive, PTL DEF Spec, HighWaterNeverDecreases
-----------------------------------------------------------------------------
(* The refinement of AuditLedger, step by step.                            *)

LEMMA RowRecords ==
    ASSUME NEW t \in Thread, RowStep(t)
    PROVE  Ledger!Record
  BY DEF RowStep, AppendRow, Ledger!Record

LEMMA PutHeadSeals ==
    ASSUME TypeOK, SoloParts, NEW t \in Thread, PutHead(t)
    PROVE  Ledger!Seal
<1>1. pc[t] = "putHead" /\ UNCHANGED <<log, next, vault>>
      /\ fence' = IF tail[t].seq >= fence.seq THEN tail[t] ELSE fence
  BY DEF PutHead
<1>2. tail[t].seq \in Nat /\ fence.seq \in Nat /\ tail[t] = [seq |-> tail[t].seq, row |-> tail[t].row]
  BY DEF TypeOK, Anchor, Position
<1>3. fence.seq <= Len(log) /\ tail[t].seq = Len(log) /\ tail[t].row = RowAt(log, Len(log))
      /\ vault = "Unlocked"
  BY <1>1, SoloAdvance
<1>4. fence' = [seq |-> Len(log), row |-> RowAt(log, Len(log))]
  BY <1>1, <1>2, <1>3
<1>5. Len(log) \in fence.seq .. Len(log)
  BY <1>2, <1>3 DEF TypeOK
<1>6. QED
  BY <1>1, <1>3, <1>4, <1>5 DEF Ledger!Seal, Ledger!RowAt, RowAt

LEMMA QuietStepRefines ==
    ASSUME TypeOK, SoloParts, NEW t \in Thread, QuietStep(t)
    PROVE  [Ledger!LedgerNext]_(Ledger!ledgerVars)
<1> USE DEF Ledger!LedgerNext, Ledger!ledgerVars
<1>1. CASE PutHead(t)
  BY <1>1, PutHeadSeals
<1>2. CASE CommitUnlock(t)
  <2>1. UNCHANGED <<log, next, fence>> /\ vault' = "Unlocked" /\ Opening(t)
    BY <1>2 DEF CommitUnlock, Opening, store
  <2>2. Ledger!Holds(log, fence)
    BY <2>1 DEF SoloParts, SealedIsHead, OpenKnowsHead, Ledger!Holds, Ledger!RowAt, RowAt
  <2>3. vault \in {"Locked", "Unlocked"}
    BY DEF TypeOK
  <2>4. QED
    BY <2>1, <2>2, <2>3 DEF Ledger!Open
<1>3. CASE StartLock(t)
  BY <1>3 DEF StartLock, store, Ledger!Close
<1>4. CASE SkipAdvance(t) \/ ReadTail(t) \/ ReadHighWater(t) \/ PutHighWater(t)
           \/ VerifyHead(t) \/ VerifyHw(t) \/ Decide(t) \/ StartUnlock(t) \/ StoreFails(t)
  BY <1>4 DEF SkipAdvance, ReadTail, ReadHighWater, PutHighWater, VerifyHead, VerifyHw,
              Decide, StartUnlock, StoreFails, store, locals
<1>5. QED
  BY <1>1, <1>2, <1>3, <1>4 DEF QuietStep

LEMMA NextRefines ==
    ASSUME TypeOK, SoloParts, [Next]_vars
    PROVE  [Ledger!LedgerNext]_(Ledger!ledgerVars)
<1> USE DEF Ledger!LedgerNext, Ledger!ledgerVars
<1>1. CASE Crash
  BY <1>1 DEF Crash, store, Ledger!Close
<1>2. CASE LoseTail
  <2>1. PICK n \in 0 .. Len(log) - 1 : log' = SubSeq(log, 1, n)
    BY <1>2 DEF LoseTail
  <2>2. n \in 0 .. Len(log)
    BY <2>1 DEF TypeOK
  <2>3. UNCHANGED <<next, fence, vault>> /\ vault = "Locked"
    BY <1>2 DEF LoseTail
  <2>4. QED
    BY <2>1, <2>2, <2>3 DEF Ledger!Lose
<1>3. CASE UNCHANGED vars
  BY <1>3 DEF vars
<1>4. QED
  BY <1>1, <1>2, <1>3, NextCases, RowRecords, QuietStepRefines

(* The anchored log of a lone caller implements the abstract ledger: it    *)
(* seals only forwards and only unlocked, and opens only on what it sealed.*)
THEOREM AnchorRefinesLedger == Spec => LedgerSpec
<1>1. Init => Ledger!LedgerInit
  BY DEF Init, Ledger!LedgerInit
<1>2. TypeOK /\ SoloInv /\ [Next]_vars
        => [SingleWriter => Ledger!LedgerNext]_(Ledger!ledgerVars)
  BY NextRefines DEF SoloInv
<1>3. QED
  BY <1>1, <1>2, SoloInductive, PTL DEF Spec, LedgerSpec
=============================================================================
