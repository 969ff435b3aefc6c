----------------------------- MODULE AuditAnchor -----------------------------
(***************************************************************************)
(* The durable audit log of the secrets engine and the DEK-keyed anchor    *)
(* over its tail: Engine::audit, advance_audit_anchor_if_unlocked,         *)
(* write_audit_anchor, verify_audit_anchor_with, and the parts of unlock   *)
(* and lock that run them (secrets-engine/src/lib.rs).                     *)
(*                                                                         *)
(* Every engine call may run on its own blocking thread of the daemon, so  *)
(* each store call is a step of its own.  Rows are named by their row_hash *)
(* and a hash never repeats; the anchor's keyed MAC is the pair it commits *)
(* to, since under one DEK two MACs agree exactly when their inputs do.    *)
(***************************************************************************)
EXTENDS Naturals, Sequences

CONSTANTS
    Thread,            \* the daemon's threads
    DebugAsserts,      \* whether the build keeps debug_assert!
    Faults,            \* the faults the environment may inject
    MaxRows            \* bound: no new call starts once this many rows exist

ASSUME ThreadAssumption == Thread # {}
ASSUME BuildAssumption == DebugAsserts \in BOOLEAN
ASSUME FaultsAssumption == Faults \subseteq {"crash", "io", "loss"}
ASSUME MaxRowsAssumption == MaxRows \in Nat

VARIABLES
    crew,              \* the threads that ever call the engine, fixed at the start
    log,               \* audit rows in seq order (durable)
    next,              \* the hash the next appended row gets
    hw,                \* META_AUDIT_HIGH_WATER (durable)
    head,              \* META_AUDIT_HEAD: what the stored MAC commits to (durable)
    vault,             \* Vault::Locked or Vault::Unlocked (memory)
    pc,                \* where each thread is
    op,                \* what the thread does after the anchor is advanced
    tail,              \* the thread's copy of last_audit()
    prev,              \* the thread's copy of the stored high-water
    seen,              \* the verifying thread's copy of head
    seenHw,            \* the verifying thread's copy of hw
    fence,             \* history: the furthest position any advance completed
    lone               \* history: whose running advance no other has overlapped, if anybody's

store == <<log, next, hw, head>>
locals == <<tail, prev, seen, seenHw>>
vars == <<crew, log, next, hw, head, vault, pc, op, tail, prev, seen, seenHw, fence, lone>>

Pc == {"idle", "advance", "readHw", "putHw", "putHead",
       "verifyHead", "verifyHw", "decide", "admitted", "refused", "commit", "locked"}
Op == {"audit", "admit", "open"}
RowAt(rows, n) == IF n = 0 THEN 0 ELSE rows[n]
MaxOf(a, b) == IF a >= b THEN a ELSE b
LastAuditAhead(rows) == [seq |-> Len(rows) + 1, row |-> RowAt(rows, Len(rows))]  \* mutant
LastAudit(rows) == [seq |-> Len(rows), row |-> RowAt(rows, Len(rows))]

(* verify_audit_anchor_with: the high-water floor, then the MAC over the   *)
(* row at the high-water.  verify_chain holds of every log of this model.  *)
AcceptsFloorOnly(anchor, highWater, rows) == highWater <= Len(rows)              \* mutant
Accepts(anchor, highWater, rows) ==
    /\ highWater <= Len(rows)
    /\ anchor = [seq |-> highWater, row |-> RowAt(rows, highWater)]

(* advance_audit_anchor_if_unlocked keeps the vault read guard until it    *)
(* returns; a writer of the vault lock waits for every such guard.         *)
HoldsReadBeforePuts(t) == pc[t] = "readHw"                                       \* mutant
HoldsRead(t) == pc[t] \in {"readHw", "putHw", "putHead"}
WriteGuardFree == \A t \in Thread : ~HoldsRead(t)

Goto(t, label) == pc' = [pc EXCEPT ![t] = label]
CallsMayStart == next <= MaxRows

Init ==    \* just after init_vault: one row, anchored by it, vault locked
    /\ crew \in SUBSET Thread
    /\ crew # {}
    /\ log = <<1>>
    /\ next = 2
    /\ hw = 1
    /\ head = [seq |-> 1, row |-> 1]
    /\ vault = "Locked"
    /\ pc = [t \in Thread |-> "idle"]
    /\ op = [t \in Thread |-> "audit"]
    /\ tail = [t \in Thread |-> [seq |-> 0, row |-> 0]]
    /\ prev = [t \in Thread |-> 0]
    /\ seen = [t \in Thread |-> [seq |-> 0, row |-> 0]]
    /\ seenHw = [t \in Thread |-> 0]
    /\ fence = head
    /\ lone = {}
-----------------------------------------------------------------------------
(* Engine::audit: append one row (append_audit links and pushes it under   *)
(* the store's own lock), then advance the anchor.                         *)

AppendRow(t, purpose) ==
    /\ log' = Append(log, next)
    /\ next' = next + 1
    /\ op' = [op EXCEPT ![t] = purpose]
    /\ Goto(t, "advance")
    /\ UNCHANGED <<hw, head, vault, locals, fence, lone>>

(* Any audited call: a read, a refusal, a failed unlock, a denied swap.    *)
StartAudit(t) ==
    /\ pc[t] = "idle"
    /\ CallsMayStart
    /\ AppendRow(t, "audit")

(* What follows audit(): unlock goes on to commit the DEK, others return.  *)
AfterAdvance(t) == IF op[t] = "admit" THEN "commit" ELSE "idle"

SkipAdvance(t) ==
    /\ pc[t] = "advance"
    /\ vault = "Locked"
    /\ Goto(t, AfterAdvance(t))
    /\ UNCHANGED <<store, vault, op, locals, fence, lone>>

ReadTail(t) ==
    /\ pc[t] = "advance"
    /\ vault = "Unlocked"
    /\ tail' = [tail EXCEPT ![t] = LastAudit(log)]
    /\ lone' = IF WriteGuardFree THEN {t} ELSE {}
    /\ Goto(t, "readHw")
    /\ UNCHANGED <<store, vault, op, prev, seen, seenHw, fence>>

ReadHighWater(t) ==
    /\ pc[t] = "readHw"
    /\ prev' = [prev EXCEPT ![t] = hw]
    /\ Goto(t, "putHw")
    /\ UNCHANGED <<store, vault, op, tail, seen, seenHw, fence, lone>>

HighWater(t) == MaxOf(prev[t], tail[t].seq)

PutHighWater(t) ==
    /\ pc[t] = "putHw"
    /\ hw' = HighWater(t)
    /\ Goto(t, IF DebugAsserts /\ HighWater(t) # tail[t].seq THEN "idle" ELSE "putHead")
    /\ UNCHANGED <<log, next, head, vault, op, locals, fence, lone>>

PutHead(t) ==
    /\ pc[t] = "putHead"
    /\ head' = [seq |-> HighWater(t), row |-> tail[t].row]
    /\ fence' = IF tail[t].seq >= fence.seq THEN tail[t] ELSE fence
    /\ Goto(t, AfterAdvance(t))
    /\ lone' = lone \ {t}
    /\ UNCHANGED <<log, next, hw, vault, op, locals>>
-----------------------------------------------------------------------------
(* Engine::unlock, from the state guard to the second anchor advance.  The *)
(* keyslots and the header MAC do not change here; a wrong factor is a     *)
(* StartAudit.                                                             *)

StartUnlock(t) ==
    /\ pc[t] = "idle"
    /\ CallsMayStart
    /\ vault = "Locked"
    /\ Goto(t, "verifyHead")
    /\ UNCHANGED <<store, vault, op, locals, fence, lone>>

VerifyHead(t) ==
    /\ pc[t] = "verifyHead"
    /\ seen' = [seen EXCEPT ![t] = head]
    /\ Goto(t, "verifyHw")
    /\ UNCHANGED <<store, vault, op, tail, prev, seenHw, fence, lone>>

VerifyHw(t) ==
    /\ pc[t] = "verifyHw"
    /\ seenHw' = [seenHw EXCEPT ![t] = hw]
    /\ Goto(t, "decide")
    /\ UNCHANGED <<store, vault, op, tail, prev, seen, fence, lone>>

Decide(t) ==
    /\ pc[t] = "decide"
    /\ Goto(t, IF Accepts(seen[t], seenHw[t], log) THEN "admitted" ELSE "refused")
    /\ UNCHANGED <<store, vault, op, locals, fence, lone>>

(* The failed attempt is audited and the call returns an error.            *)
RefuseUnlock(t) == pc[t] = "refused" /\ AppendRow(t, "audit")

(* `vault_unlocked` is appended before the DEK is committed.               *)
AdmitUnlock(t) == pc[t] = "admitted" /\ AppendRow(t, "admit")

CommitUnlock(t) ==
    /\ pc[t] = "commit"
    /\ WriteGuardFree
    /\ vault' = "Unlocked"
    /\ op' = [op EXCEPT ![t] = "open"]
    /\ Goto(t, "advance")
    /\ UNCHANGED <<store, locals, fence, lone>>

(* Engine::lock drops the DEK under the write guard, then audits.          *)
StartLock(t) ==
    /\ pc[t] = "idle"
    /\ CallsMayStart
    /\ WriteGuardFree
    /\ vault' = "Locked"
    /\ Goto(t, "locked")
    /\ UNCHANGED <<store, op, locals, fence, lone>>

AuditLock(t) == pc[t] = "locked" /\ AppendRow(t, "audit")
-----------------------------------------------------------------------------
(* A store call of an anchor write or of a verification fails: the error   *)
(* propagates with `?` and every guard is dropped.                         *)
StoreFails(t) ==
    /\ "io" \in Faults
    /\ \/ HoldsRead(t)
       \/ pc[t] \in {"verifyHead", "verifyHw", "decide", "admitted", "refused", "locked"}
    /\ Goto(t, "idle")
    /\ lone' = lone \ {t}
    /\ UNCHANGED <<store, vault, op, locals, fence>>

(* The daemon dies and is started again: only the store survives.          *)
Crash ==
    /\ "crash" \in Faults
    /\ vault' = "Locked"
    /\ pc' = [t \in Thread |-> "idle"]
    /\ lone' = {}
    /\ UNCHANGED <<store, op, locals, fence>>

(* Trailing audit rows are lost while the vault is at rest (an older copy  *)
(* of the table comes back); the meta keys are not.                        *)
LoseTail ==
    /\ "loss" \in Faults
    /\ vault = "Locked"
    /\ \A t \in Thread : pc[t] = "idle"
    /\ \E n \in 0 .. Len(log) - 1 : log' = SubSeq(log, 1, n)
    /\ UNCHANGED <<next, hw, head, vault, pc, op, locals, fence, lone>>

(* The bound on rows is reached and every call has returned.               *)
Finished ==
    /\ ~CallsMayStart
    /\ \A t \in Thread : pc[t] = "idle"
    /\ UNCHANGED vars

ThreadStep(t) ==
    \/ SkipAdvance(t) \/ ReadTail(t) \/ ReadHighWater(t) \/ PutHighWater(t) \/ PutHead(t)
    \/ VerifyHead(t) \/ VerifyHw(t) \/ Decide(t)
    \/ RefuseUnlock(t) \/ AdmitUnlock(t) \/ CommitUnlock(t) \/ AuditLock(t)

Call(t) == StartAudit(t) \/ StartUnlock(t) \/ StartLock(t)

Next ==
    \/ /\ \/ \E t \in crew : ThreadStep(t) \/ Call(t) \/ StoreFails(t)
          \/ Crash
          \/ LoseTail
       /\ crew' = crew
    \/ Finished

Spec == Init /\ [][Next]_vars
-----------------------------------------------------------------------------
Position == 0 .. next - 1
Anchor == [seq : Position, row : Position]

(* Every variable has its type, and no durable or copied position names a  *)
(* row that was never appended (link_row, write_audit_anchor).             *)
TypeOK ==
    /\ crew \subseteq Thread
    /\ next \in Nat \ {0}
    /\ log \in Seq(Nat)
    /\ Len(log) < next
    /\ \A i \in 1 .. Len(log) : log[i] \in 1 .. next - 1
    /\ hw \in Position
    /\ head \in Anchor
    /\ vault \in {"Locked", "Unlocked"}
    /\ pc \in [Thread -> Pc]
    /\ op \in [Thread -> Op]
    /\ tail \in [Thread -> Anchor]
    /\ prev \in [Thread -> Position]
    /\ seen \in [Thread -> Anchor]
    /\ seenHw \in [Thread -> Position]
    /\ fence \in Anchor
    /\ lone \subseteq Thread

(* The anchor only moves under a live DEK: no high-water and no MAC is     *)
(* written after lock() has dropped the key, however the steps of an       *)
(* advance interleave with it (the read guard of                           *)
(* advance_audit_anchor_if_unlocked).                                      *)
AnchorMovesOnlyUnlocked ==
    [][hw' # hw \/ head' # head => vault = "Unlocked" /\ vault' = "Unlocked"]_vars

(* An advance that no other overlaps leaves an anchor the next unlock      *)
(* admits, whatever earlier advances, faults, lost rows and refusals have  *)
(* left behind and whatever rows are appended meanwhile                    *)
(* (write_audit_anchor, verify_audit_anchor_with).                         *)
LoneAdvanceVerifies ==
    [][\A t \in lone : PutHead(t) => Accepts(head', hw', log')]_vars

(* One caller at a time, the discipline under which the anchor is sound.   *)
SingleWriter == \A s, t \in crew : s = t

(* write_audit_anchor's debug_assert: the high-water a lone caller stores  *)
(* is the position of the tail it signs.                                   *)
HighWaterIsTail ==
    SingleWriter => \A t \in Thread : pc[t] \in {"putHw", "putHead"} => HighWater(t) = tail[t].seq

(* Under a lone caller the stored high-water is a non-decreasing fence     *)
(* (META_AUDIT_HIGH_WATER).                                                *)
HighWaterNeverDecreases == [][SingleWriter => hw' >= hw]_vars

(* A vault at rest, where nothing can repair the anchor, keeps one that    *)
(* verifies against a log that lost nothing: `advance` anchors the tail it *)
(* observed and stores its position (verify_audit_anchor_with), so the     *)
(* next unlock of an honest log is admitted.                               *)
RestingAnchorVerifies ==
    vault = "Locked" /\ (\A t \in Thread : pc[t] = "idle") => Accepts(head, hw, log)

(* A lone caller opens the vault only on a log that still holds the        *)
(* furthest row a completed advance signed: truncation is refused, and stays refused when *)
(* the refusals themselves grow the log past the high-water again.         *)
OpensOnlyOnSealedLog ==
    [][SingleWriter /\ vault = "Locked" /\ vault' = "Unlocked"
         => fence.seq <= Len(log) /\ RowAt(log, fence.seq) = fence.row]_vars

Ledger == INSTANCE AuditLedger WITH sealed <- fence

(* A lone caller's log implements the abstract ledger, the fence being     *)
(* what it has sealed: whatever write_audit_anchor and unlock do, step by step  *)
(* and through faults, is a Record, Seal, Open, Close or Lose.             *)
LedgerSpec ==
    /\ Ledger!LedgerInit
    /\ [][SingleWriter => Ledger!LedgerNext]_(Ledger!ledgerVars)

(* The verification has passed and the DEK is about to be committed.       *)
Opening(t) ==
    \/ pc[t] \in {"admitted", "commit"}
    \/ pc[t] = "advance" /\ op[t] = "admit"

(* The anchor is the furthest sealed row: it is never signed from a stale  *)
(* tail.                                                                   *)
SealedIsHead == fence = head

(* From a passed verification to the next lock the log holds the anchored  *)
(* row.                                                                    *)
OpenKnowsHead ==
    (vault = "Unlocked" \/ \E t \in Thread : Opening(t))
        => /\ hw <= Len(log)
           /\ head.seq <= Len(log)
           /\ RowAt(log, head.seq) = head.row

(* A running advance has the tail of the log in its hands, and the stored  *)
(* high-water it read is not past it.                                      *)
AdvanceIsFresh ==
    \A t \in Thread : HoldsRead(t) => vault = "Unlocked" /\ tail[t] = LastAudit(log)
PrevIsBehind ==
    \A t \in Thread : pc[t] \in {"putHw", "putHead"} => prev[t] <= tail[t].seq

(* A running verification has the stored anchor in its hands.              *)
VerifyIsFresh ==
    \A t \in Thread : /\ pc[t] \in {"verifyHw", "decide"} => seen[t] = head
                      /\ pc[t] = "decide" => seenHw[t] = hw

(* The inductive invariant of a single writer, behind HighWaterIsTail,     *)
(* OpensOnlyOnSealedLog and LedgerSpec (write_audit_anchor,                *)
(* verify_audit_anchor_with, unlock).                                      *)
SoloParts == SealedIsHead /\ OpenKnowsHead /\ AdvanceIsFresh /\ PrevIsBehind /\ VerifyIsFresh
SoloInv == SingleWriter => SoloParts
=============================================================================
