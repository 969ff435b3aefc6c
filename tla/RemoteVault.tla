----------------------------- MODULE RemoteVault -----------------------------
(***************************************************************************)
(* Creating, opening and filling a vault whose store is a libSQL server:   *)
(* init_vault, unlock, secret_put, secret_get and lock                     *)
(* (secrets-engine/src/lib.rs) as the statements they send                 *)
(* (secrets-store-libsql/src/store.rs, sync.rs).                           *)
(*                                                                         *)
(* Each call runs on a thread of some daemon, and several daemons may      *)
(* share the server.  A statement that the server has applied may still    *)
(* fail for its sender; one whose stream is gone is sent once more.  The   *)
(* anchor of the log and the resident issuer are AuditAnchor's and         *)
(* VaultSession's.                                                         *)
(***************************************************************************)
EXTENDS SecretStore

CONSTANTS
    Thread,            \* the callers that may be inside an engine at once
    Daemon,            \* the daemons that share the server
    Name,              \* secret names
    Faults,            \* the faults the environment may inject
    MaxCalls           \* bound: how many calls are ever started

ASSUME ThreadAssumption == Thread # {} /\ Name # {}
ASSUME FaultsAssumption == Faults \subseteq {"crash", "io", "expiry"}
ASSUME MaxCallsAssumption == MaxCalls \in Nat /\ IsFiniteSet(Daemon)

VARIABLES
    home,              \* the daemon each thread belongs to
    dek,               \* the DEK resident in each daemon, 0 when locked (memory)
    pc,                \* where each thread is
    mine,              \* the call a thread is making and what it has read
    retried,           \* the thread's statement has been sent again
    returned,          \* history: the calls that returned Ok, and what they were
    overlapped,        \* history: an init passed its check while another was writing
    started            \* how many calls have been started

memory == <<home, dek, overlapped>>
vars == <<tables, memory, pc, mine, retried, returned, started>>

Op == {"init", "unlock", "put", "get", "lock"}
Pc == {"idle", "check", "slot1", "slot2", "mac", "floor", "generation",
       "slots", "readMac", "readFloor", "readGeneration", "commit",
       "version", "reserve", "insert", "row", "audit", "append"}
InitWrites == {"slot1", "slot2", "mac", "floor", "generation"}
Nothing == [op |-> "lock", call |-> 0, usb |-> FALSE, ok |-> FALSE, slots |-> {}, mac |-> NoMac,
            floor |-> 0, dek |-> 0, name |-> CHOOSE n \in Name : TRUE, version |-> 0, id |-> 0, tail |-> 0,
            seq |-> 0]

(* The vault lock of a daemon: secret_put keeps the write guard from the   *)
(* version it reads to the row it inserts, secret_get a read guard.        *)
Beside(t) == {u \in Thread : home[u] = home[t]}
WriteHeld(t) == \E u \in Beside(t) : pc[u] \in {"version", "reserve", "insert"}
ReadHeld(t) == \E u \in Beside(t) : pc[u] = "row"

(* append_lock, held from the read of the tail to the end of the insert.   *)
AppendHeld(t) == \E u \in Beside(t) : pc[u] = "append"

(* The calls before the first state: an init, and an unlock of every       *)
(* daemon that is found open.                                              *)
Before == 1 + Cardinality(Daemon)

Init ==
    /\ \E n \in 0 .. Before : log = Linked(n)
    /\ StoreInit
    /\ home \in [Thread -> Daemon]
    /\ dek \in [Daemon -> {0, mac.dek}]
    /\ log # <<>> => Cardinality({d \in Daemon : dek[d] # 0}) = Len(log) - 1
    /\ pc = [t \in Thread |-> "idle"]
    /\ mine = [t \in Thread |-> Nothing]
    /\ retried = [t \in Thread |-> FALSE]
    /\ returned = {[op |-> IF i = 1 THEN "init" ELSE "unlock", call |-> i] : i \in DOMAIN log}
    /\ overlapped = FALSE
    /\ started = Before
-----------------------------------------------------------------------------
Goto(t, label) ==
    /\ pc' = [pc EXCEPT ![t] = label]
    /\ retried' = [retried EXCEPT ![t] = FALSE]

(* A call leaves the engine, with an error or with Ok.                     *)
Leave(t) == Goto(t, "idle") /\ mine' = [mine EXCEPT ![t] = Nothing]
Fail(t) == Leave(t) /\ UNCHANGED <<returned, started>>
Return(t) == Leave(t) /\ returned' = returned \cup {[op |-> mine[t].op, call |-> mine[t].call]} /\ UNCHANGED started

Start(t, call, label) ==
    /\ pc[t] = "idle"
    /\ started < MaxCalls
    /\ started' = started + 1
    /\ mine' = [mine EXCEPT ![t] = call]
    /\ Goto(t, label)
    /\ UNCHANGED <<tables, memory, returned>>

Call(op) == [Nothing EXCEPT !.op = op, !.call = started + 1, !.ok = TRUE]

(* A read tells the thread `what`, kept in a field of mine.                *)
Learn(t, field, what, label) ==
    /\ mine' = [mine EXCEPT ![t][field] = what]
    /\ Goto(t, label)
    /\ UNCHANGED <<tables, memory, returned, started>>

(* run_retry and fsync_barrier: a statement is applied and confirmed, or   *)
(* it fails, applied or not, or its stream is gone and it is sent again.   *)
Retryable(t) == ~retried[t]
Send(t, effect, label) ==
    \/ effect /\ Goto(t, label) /\ UNCHANGED <<mine, returned, started>>
    \/ "io" \in Faults /\ effect /\ Fail(t)
    \/ /\ "expiry" \in Faults
       /\ Retryable(t)
       /\ effect \/ UNCHANGED tables
       /\ retried' = [retried EXCEPT ![t] = TRUE]
       /\ UNCHANGED <<pc, mine, returned, started>>

(* A statement the server refuses, for a constraint or a check of its own. *)
Refused(t) == Fail(t) /\ UNCHANGED <<tables, memory>>
-----------------------------------------------------------------------------
(* init_vault: the header MAC is looked for before the keys are derived,   *)
(* and is written after the slots it covers.                               *)
StartInit(t) == \E usb \in BOOLEAN : Start(t, [Call("init") EXCEPT !.usb = usb], "check")

CheckNothing(t) ==                                                    \* mutant
    /\ pc[t] = "check"
    /\ Goto(t, "slot1")
    /\ overlapped' = (overlapped \/ \E u \in Thread : pc[u] \in InitWrites)
    /\ UNCHANGED <<tables, home, dek, mine, returned, started>>
CheckUninitialized(t) ==
    /\ pc[t] = "check"
    /\ IF mac # NoMac
         THEN Fail(t) /\ UNCHANGED <<tables, memory>>
         ELSE /\ Goto(t, "slot1")
              /\ overlapped' = (overlapped \/ \E u \in Thread : pc[u] \in InitWrites)
              /\ UNCHANGED <<tables, home, dek, mine, returned, started>>

Slot(t, id) == [id |-> id, dek |-> mine[t].call]
SlotsOf(t) == {Slot(t, 1)} \cup (IF mine[t].usb THEN {Slot(t, 2)} ELSE {})

SaveSlot1(t) ==
    /\ pc[t] = "slot1"
    /\ Send(t, slots' = WithSlot(Slot(t, 1)) /\ UNCHANGED <<meta, secrets, nextId, log>>,
            IF mine[t].usb THEN "slot2" ELSE "mac")
    /\ UNCHANGED memory

SaveSlot2(t) ==
    /\ pc[t] = "slot2"
    /\ Send(t, slots' = WithSlot(Slot(t, 2)) /\ UNCHANGED <<meta, secrets, nextId, log>>, "mac")
    /\ UNCHANGED memory

PutHeaderMacOfFirst(t) ==                                               \* mutant
    /\ pc[t] = "mac"
    /\ Send(t, /\ mac' = [dek |-> mine[t].call, slots |-> {Slot(t, 1)}, floor |-> mine[t].call]
               /\ UNCHANGED <<slots, floor, generation, secrets, nextId, log>>, "floor")
    /\ UNCHANGED memory
PutHeaderMac(t) ==
    /\ pc[t] = "mac"
    /\ Send(t, /\ mac' = [dek |-> mine[t].call, slots |-> SlotsOf(t), floor |-> mine[t].call]
               /\ UNCHANGED <<slots, floor, generation, secrets, nextId, log>>, "floor")
    /\ UNCHANGED memory

PutFloor(t) ==
    /\ pc[t] = "floor"
    /\ Send(t, floor' = mine[t].call /\ UNCHANGED <<slots, mac, generation, secrets, nextId, log>>,
            "generation")
    /\ UNCHANGED memory

PutGeneration(t) ==
    /\ pc[t] = "generation"
    /\ Send(t, generation' = 1 /\ UNCHANGED <<slots, mac, floor, secrets, nextId, log>>, "audit")
    /\ UNCHANGED memory
-----------------------------------------------------------------------------
(* unlock reads the slots, the MAC and the floor one by one, tries a slot  *)
(* of the factor it was given, and verifies what it has read.  A live      *)
(* vault is left alone.                                                    *)
StartUnlock(t) == ~WriteHeld(t) /\ dek[home[t]] = 0 /\ Start(t, Call("unlock"), "slots")

ReadSlots(t) == pc[t] = "slots" /\ Learn(t, "slots", slots, "readMac")

ReadHeaderMac(t) ==
    /\ pc[t] = "readMac"
    /\ IF mac = NoMac THEN Refused(t) ELSE Learn(t, "mac", mac, "readFloor")

ReadFloor(t) ==
    /\ pc[t] = "readFloor"
    /\ IF floor = 0 THEN Refused(t) ELSE Learn(t, "floor", floor, "readGeneration")

(* The factor opens some slot or none; either refusal is audited.          *)
Verified(t, d) == mine[t].mac = [dek |-> d, slots |-> mine[t].slots, floor |-> mine[t].floor]

Probe(t) ==
    /\ pc[t] = "readGeneration"
    /\ \/ \E s \in mine[t].slots :
            IF ~Verified(t, s.dek)
              THEN Learn(t, "ok", FALSE, "audit")
              ELSE IF generation = 0 THEN Refused(t) ELSE Learn(t, "dek", s.dek, "audit")
       \/ Learn(t, "ok", FALSE, "audit")

CommitUnlock(t) ==
    /\ pc[t] = "commit"
    /\ ~WriteHeld(t) /\ ~ReadHeld(t)
    /\ dek' = [dek EXCEPT ![home[t]] = mine[t].dek]
    /\ Return(t)
    /\ UNCHANGED <<tables, home, overlapped>>

(* lock drops the DEK, then audits.                                        *)
StartLock(t) ==
    /\ ~WriteHeld(t) /\ ~ReadHeld(t)
    /\ pc[t] = "idle"
    /\ started < MaxCalls
    /\ started' = started + 1
    /\ dek' = [dek EXCEPT ![home[t]] = 0]
    /\ mine' = [mine EXCEPT ![t] = Call("lock")]
    /\ Goto(t, "audit")
    /\ UNCHANGED <<tables, home, overlapped, returned>>
-----------------------------------------------------------------------------
(* secret_put: the next version is read, a row id reserved, and the sealed *)
(* row inserted, in one transaction that checks both again.                *)
StartPut(t) ==
    /\ ~WriteHeld(t) /\ ~ReadHeld(t)
    /\ dek[home[t]] # 0
    /\ \E n \in Name : Start(t, [Call("put") EXCEPT !.name = n, !.dek = dek[home[t]]], "version")

ReadMaxVersion(t) ==
    /\ pc[t] = "version"
    /\ IF generation = 0
         THEN Refused(t)
         ELSE Learn(t, "version", MaxVersion(secrets, mine[t].name) + 1, "reserve")

(* The reservation answers with the counter it bumped.                     *)
Reserve(t) ==
    /\ pc[t] = "reserve"
    /\ UNCHANGED <<memory, returned, started>>
    /\ \/ /\ nextId' = nextId + 1
          /\ UNCHANGED <<slots, meta, secrets, log>>
          /\ \/ Goto(t, "insert") /\ mine' = [mine EXCEPT ![t].id = nextId + 1]
             \/ "io" \in Faults /\ Leave(t)
             \/ "expiry" \in Faults /\ Retryable(t)
                  /\ retried' = [retried EXCEPT ![t] = TRUE] /\ UNCHANGED <<pc, mine>>

Row(t) == [id |-> mine[t].id, name |-> mine[t].name, version |-> mine[t].version,
           dek |-> mine[t].dek, body |-> mine[t].call]

(* The checks of the transaction that inserts it.                          *)
Accepts(row) ==
    /\ row.id > 0 /\ row.id <= nextId
    /\ ~\E r \in secrets : r.id = row.id
    /\ row.version = MaxVersion(secrets, row.name) + 1

Rejected(t) == Refused(t)

InsertSecret(t) ==
    /\ pc[t] = "insert"
    /\ IF Accepts(Row(t))
         THEN /\ Send(t, secrets' = secrets \cup {Row(t)} /\ UNCHANGED <<slots, meta, nextId, log>>,
                      "audit")
              /\ UNCHANGED memory
         ELSE Rejected(t)

(* secret_get opens the newest version; a row that does not open is        *)
(* audited as a failure, and so is a missing one.                          *)
StartGet(t) ==
    /\ ~WriteHeld(t)
    /\ dek[home[t]] # 0
    /\ \E n \in Name : Start(t, [Call("get") EXCEPT !.name = n, !.dek = dek[home[t]]], "row")

Latest(name) == {r \in secrets : r.name = name /\ r.version = MaxVersion(secrets, name)}

OpenLatest(t) ==
    /\ pc[t] = "row"
    /\ Learn(t, "ok", \E r \in Latest(mine[t].name) : r.dek = mine[t].dek, "audit")
-----------------------------------------------------------------------------
(* append_audit reads the tail and inserts the linked row under append_lock*)
(* of its own process; another daemon may append in between, and then the  *)
(* server refuses the row for its seq.                                     *)
ReadTail(t) ==
    /\ pc[t] = "audit"
    /\ ~AppendHeld(t)
    /\ mine' = [mine EXCEPT ![t].tail = TailOf(log), ![t].seq = Len(log) + 1]
    /\ Goto(t, "append")
    /\ UNCHANGED <<tables, memory, returned, started>>

AuditRow(t) == [by |-> mine[t].call, after |-> mine[t].tail]

(* What follows the audit: unlock commits, a failure is reported.          *)
Audited(t) ==
    \/ mine[t].ok /\ mine[t].op = "unlock" /\ Goto(t, "commit") /\ UNCHANGED <<mine, returned, started>>
    \/ mine[t].ok /\ mine[t].op # "unlock" /\ Return(t)
    \/ ~mine[t].ok /\ Fail(t)

CollidesNever(t) == FALSE                                             \* mutant
Collides(t) == mine[t].seq <= Len(log)
CollisionIgnored(t) == Audited(t) /\ UNCHANGED <<tables, memory>>     \* mutant
Collision(t) == Refused(t)

AppendRow(t) ==
    /\ pc[t] = "append"
    /\ IF Collides(t)
         THEN Collision(t)
         ELSE /\ UNCHANGED <<slots, meta, secrets, nextId, memory>>
              /\ \/ log' = Append(log, AuditRow(t)) /\ Audited(t)
                 \/ "io" \in Faults /\ log' = Append(log, AuditRow(t)) /\ Fail(t)
                 \/ /\ "expiry" \in Faults /\ Retryable(t)
                    /\ log' \in {log, Append(log, AuditRow(t))}
                    /\ retried' = [retried EXCEPT ![t] = TRUE]
                    /\ UNCHANGED <<pc, mine, returned, started>>
-----------------------------------------------------------------------------
(* A statement fails before the server has applied it.                     *)
StoreFails(t) ==
    /\ "io" \in Faults
    /\ pc[t] \notin {"idle", "commit"}
    /\ Fail(t)
    /\ UNCHANGED <<tables, memory>>

(* A daemon dies; the server keeps its tables.                             *)
Crash(d) ==
    /\ "crash" \in Faults
    /\ dek' = [dek EXCEPT ![d] = 0]
    /\ pc' = [t \in Thread |-> IF home[t] = d THEN "idle" ELSE pc[t]]
    /\ mine' = [t \in Thread |-> IF home[t] = d THEN Nothing ELSE mine[t]]
    /\ retried' = [t \in Thread |-> IF home[t] = d THEN FALSE ELSE retried[t]]
    /\ UNCHANGED <<tables, home, overlapped, returned, started>>

Finished ==
    /\ started = MaxCalls
    /\ \A t \in Thread : pc[t] = "idle"
    /\ UNCHANGED vars

Step(t) ==
    \/ CheckUninitialized(t) \/ SaveSlot1(t) \/ SaveSlot2(t)
    \/ PutHeaderMac(t) \/ PutFloor(t) \/ PutGeneration(t)
    \/ ReadSlots(t) \/ ReadHeaderMac(t) \/ ReadFloor(t) \/ Probe(t) \/ CommitUnlock(t)
    \/ ReadMaxVersion(t) \/ Reserve(t) \/ InsertSecret(t) \/ OpenLatest(t)
    \/ ReadTail(t) \/ AppendRow(t)

Begin(t) == StartInit(t) \/ StartUnlock(t) \/ StartLock(t) \/ StartPut(t) \/ StartGet(t)

Next ==
    \/ \E t \in Thread : Step(t) \/ Begin(t) \/ StoreFails(t)
    \/ \E d \in Daemon : Crash(d)
    \/ Finished

Spec == Init /\ [][Next]_vars

-----------------------------------------------------------------------------
CallId == Nat
SlotType == [id : {1, 2}, dek : CallId]
MacType == [dek : CallId, slots : SUBSET SlotType, floor : CallId]
RowType == [id : Nat, name : Name, version : Nat, dek : CallId, body : CallId]
MineType == [op : Op, call : CallId, usb : BOOLEAN, ok : BOOLEAN, slots : SUBSET SlotType,
             mac : MacType, floor : CallId, dek : CallId, name : Name, version : Nat, id : Nat,
             tail : CallId, seq : Nat]

(* Every variable has its type; no id or version is invented.              *)
TypeOK ==
    /\ slots \subseteq SlotType
    /\ mac \in MacType
    /\ floor \in CallId
    /\ generation \in {0, 1}
    /\ nextId \in Nat
    /\ secrets \subseteq RowType
    /\ log \in Seq([by : CallId, after : CallId])
    /\ home \in [Thread -> Daemon]
    /\ dek \in [Daemon -> CallId]
    /\ pc \in [Thread -> Pc]
    /\ mine \in [Thread -> MineType]
    /\ retried \in [Thread -> BOOLEAN]
    /\ returned \subseteq [op : Op, call : CallId]
    /\ overlapped \in BOOLEAN
    /\ started \in Nat

(* What returned Ok is in the audit log exactly once, and no call is there *)
(* twice: whatever was retried, collided or lost its answer (HF-14).       *)
OkMeansAudited ==
    /\ \A r \in returned : \E i \in 1 .. Len(log) : log[i].by = r.call
    /\ \A i, j \in 1 .. Len(log) : log[i].by = log[j].by => i = j

(* A secret whose put returned Ok is stored, and no put is stored twice    *)
(* however often its insert was sent (put_secret).                         *)
PutOnce ==
    /\ \A r \in returned : r.op = "put" => \E q \in secrets : q.body = r.call
    /\ \A q, r \in secrets : q.body = r.body => q = r

(* An answer of Ok means that the call is in the log and its secret in the *)
(* store, once: lost answers, statements sent twice and two daemons that   *)
(* append at once included (append_audit, put_secret, HF-14).              *)
OkIsDurable == OkMeansAudited /\ PutOnce

(* As long as no two inits wrote at once, whoever holds a DEK opens every  *)
(* secret: an init is refused once a vault exists, and one that died half  *)
(* way leaves nothing that an unlock accepts (init_vault, unlock).         *)
SecretsStayReadable ==
    ~overlapped => \A d \in Daemon : dek[d] # 0 => \A r \in secrets : r.dek = dek[d]

Openable == mac # NoMac /\ mac = [dek |-> mac.dek, slots |-> slots, floor |-> floor] /\ generation = 1

(* A vault whose init returned Ok opens with every slot, unless an earlier *)
(* init died after it had saved a USB slot that this one did not replace:  *)
(* that slot is then among those the MAC is checked over, and no unlock    *)
(* passes any more (init_vault, verify_header_mac).                        *)
OpensAfterInit ==
    ~overlapped /\ (\E r \in returned : r.op = "init")
        => Openable \/ \E s \in slots : s.dek # mac.dek
=============================================================================
