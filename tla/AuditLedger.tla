----------------------------- MODULE AuditLedger -----------------------------
(***************************************************************************)
(* What the audit chain and its DEK-keyed anchor promise, without saying   *)
(* how: the log only grows, an unlocked vault may seal a prefix of it, and *)
(* a vault opens only on a log that still holds the last row it sealed.    *)
(* Row hashes are unique (a row's hash covers the hash of the row before   *)
(* it), so holding one row at its place is holding everything before it.   *)
(***************************************************************************)
EXTENDS Naturals, Sequences

VARIABLES
    log,               \* the durable rows, each named by its row_hash
    next,              \* the hash the next appended row will have
    sealed,            \* the last sealed position and the row it names
    vault              \* "Locked" or "Unlocked"

ledgerVars == <<log, next, sealed, vault>>

(* The row at position n; position 0 is the empty chain.                   *)
RowAt(rows, n) == IF n = 0 THEN 0 ELSE rows[n]

Holds(rows, s) == s.seq <= Len(rows) /\ RowAt(rows, s.seq) = s.row

LedgerInit ==
    /\ log = <<1>>
    /\ next = 2
    /\ sealed = [seq |-> 1, row |-> 1]
    /\ vault = "Locked"

Record ==
    /\ log' = Append(log, next)
    /\ next' = next + 1
    /\ UNCHANGED <<sealed, vault>>

(* Only an unlocked vault seals, and a seal never moves backwards.         *)
Seal ==
    /\ vault = "Unlocked"
    /\ \E n \in sealed.seq .. Len(log) :
           sealed' = [seq |-> n, row |-> RowAt(log, n)]
    /\ UNCHANGED <<log, next, vault>>

Open ==
    /\ vault = "Locked"
    /\ Holds(log, sealed)
    /\ vault' = "Unlocked"
    /\ UNCHANGED <<log, next, sealed>>

Close ==
    /\ vault' = "Locked"
    /\ UNCHANGED <<log, next, sealed>>

(* The rows may lose a tail while nobody holds the DEK.                    *)
Lose ==
    /\ vault = "Locked"
    /\ \E n \in 0 .. Len(log) : log' = SubSeq(log, 1, n)
    /\ UNCHANGED <<next, sealed, vault>>

LedgerNext == Record \/ Seal \/ Open \/ Close \/ Lose

LedgerSpec == LedgerInit /\ [][LedgerNext]_ledgerVars
=============================================================================
