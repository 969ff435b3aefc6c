----------------------------- MODULE SecretStore -----------------------------
(***************************************************************************)
(* What the engine is promised by its `Store` trait, as the in-memory      *)
(* backend keeps it: every call changes one table, at once                 *)
(* (secrets-engine/src/vault/store.rs, vault/audit.rs).                    *)
(*                                                                         *)
(* A DEK is named by the init that minted it and a secret by the put that  *)
(* wrote it; 0 is an absent meta value.  An audit row names the call that  *)
(* appended it and the one whose row it is chained to.                     *)
(***************************************************************************)
EXTENDS Naturals, Sequences, FiniteSetsExt

VARIABLES
    slots,             \* keyslots: the id and the DEK wrapped in each
    mac,               \* vault.header_mac: what it commits to
    floor,             \* vault.issuance_floor_ms, named by the init that wrote it
    generation,        \* vault.dek_generation
    secrets,           \* sealed secret versions
    nextId,            \* the highest row id reserved
    log                \* audit rows in seq order

meta == <<mac, floor, generation>>
tables == <<slots, meta, secrets, nextId, log>>

NoMac == [dek |-> 0, slots |-> {}, floor |-> 0]

Versions(rows, name) == {r.version : r \in {q \in rows : q.name = name}}
MaxVersion(rows, name) == Max(Versions(rows, name) \cup {0})

(* put_secret: the id was reserved and is free, and the version is next.   *)
Admits(row) ==
    /\ row.id \in 1 .. nextId
    /\ \A r \in secrets : r.id # row.id
    /\ row.version = MaxVersion(secrets, row.name) + 1

(* link_row: the row is chained to the tail of the log, or to genesis.     *)
TailOf(rows) == IF rows = <<>> THEN 0 ELSE rows[Len(rows)].by

WithSlot(s) == {r \in slots : r.id # s.id} \cup {s}

(* A log of n rows, each appended by a call of its own.                    *)
Linked(n) == [i \in 1 .. n |-> [by |-> i, after |-> i - 1]]

(* A store is found fresh, or as an init, and then unlocks, have left it.  *)
StoreInit ==
    /\ secrets = {} /\ nextId = 0
    /\ log = Linked(Len(log))
    /\ IF log = <<>>
         THEN slots = {} /\ mac = NoMac /\ floor = 0 /\ generation = 0
         ELSE /\ slots = {[id |-> 1, dek |-> 1]}
              /\ mac = [dek |-> 1, slots |-> slots, floor |-> 1]
              /\ floor = 1 /\ generation = 1
-----------------------------------------------------------------------------
SaveKeyslot ==
    /\ \E s \in slots' : slots' = WithSlot(s)
    /\ UNCHANGED <<meta, secrets, nextId, log>>

PutMeta ==
    /\ \/ UNCHANGED <<floor, generation>>
       \/ UNCHANGED <<mac, generation>>
       \/ UNCHANGED <<mac, floor>>
    /\ UNCHANGED <<slots, secrets, nextId, log>>

ReserveRowId ==
    /\ nextId' = nextId + 1
    /\ UNCHANGED <<slots, meta, secrets, log>>

PutSecret ==
    /\ \E row \in secrets' : Admits(row) /\ secrets' = secrets \cup {row}
    /\ UNCHANGED <<slots, meta, nextId, log>>

AppendAudit ==
    /\ Len(log') = Len(log) + 1
    /\ log' = Append(log, log'[Len(log')])
    /\ log'[Len(log')].after = TailOf(log)
    /\ UNCHANGED <<slots, meta, secrets, nextId>>

StoreNext == SaveKeyslot \/ PutMeta \/ ReserveRowId \/ PutSecret \/ AppendAudit

StoreSpec == StoreInit /\ [][StoreNext]_tables
=============================================================================
