----------------------------- MODULE HookRunner -----------------------------
(***************************************************************************)
(* One hook run by envctl's ProcessRunner (engine/src/runner.rs): the hook *)
(* in a session of its own, a reader thread for each of its two pipes, and *)
(* the thread that polls it, kills its process group at the deadline, and  *)
(* joins both readers before it answers.                                   *)
(*                                                                         *)
(* The hook may leave processes behind: a kid is in its process group, an  *)
(* escapee has left it; each has a copy of whatever its parent wrote to.   *)
(* A pipe holds at most one line here.  The log and the tails kept for the *)
(* message only copy what the readers read.                                *)
(***************************************************************************)
Process == {"hook", "kid", "escapee"}
Group == {"hook", "kid"}
Pipe == {"out", "err"}

VARIABLES
    runner,            \* the polling thread: "idle", "poll", "expired", "kill", "reap",
                       \*   "joinOut", "joinErr" or "done"
    alive,             \* the processes of the hook that live
    writers,           \* who holds the write end of each pipe
    full,              \* the pipes that hold a line nobody has read
    ended,             \* the readers that have seen the end of their pipe
    exit,              \* how the hook ended: "none", "zero", "other" or "killed"
    verdict,           \* what run returns: "none", "ok", "failed" or "timeout"
    spared             \* history: those of the group the kill could not signal

hookVars == <<runner, alive, writers, full, ended, exit, verdict, spared>>

HookAtRest ==
    /\ runner = "idle"
    /\ alive = {}
    /\ writers = [p \in Pipe |-> {}]
    /\ full = {}
    /\ ended = {}
    /\ exit = "none"
    /\ verdict = "none"
    /\ spared = {}
-----------------------------------------------------------------------------
(* spawn, and the two readers; a program that cannot be started is a       *)
(* failure.                                                                *)
Spawn ==
    /\ runner = "idle" /\ verdict = "none"
    /\ \/ /\ runner' = "poll"
          /\ alive' = {"hook"}
          /\ writers' = [p \in Pipe |-> {"hook"}]
          /\ UNCHANGED verdict
       \/ /\ runner' = "done"
          /\ verdict' = "failed"
          /\ UNCHANGED <<alive, writers>>
    /\ UNCHANGED <<full, ended, exit, spared>>

(* What the processes do: start another, write a line, close or redirect a *)
(* pipe, exit.  A write blocks while the pipe is full.                     *)
Fork(parent, p) ==
    /\ parent \in alive /\ p \in Process \ (alive \cup {"hook"})
    /\ p = "kid" => parent \in Group
    /\ alive' = alive \cup {p}
    /\ writers' = [s \in Pipe |-> IF parent \in writers[s] THEN writers[s] \cup {p} ELSE writers[s]]
    /\ UNCHANGED <<runner, full, ended, exit, verdict, spared>>

Write(p, s) ==
    /\ p \in alive \cap writers[s] /\ s \notin full
    /\ full' = full \cup {s}
    /\ UNCHANGED <<runner, alive, writers, ended, exit, verdict, spared>>

CloseEnd(p, s) ==
    /\ p \in alive \cap writers[s]
    /\ writers' = [writers EXCEPT ![s] = @ \ {p}]
    /\ UNCHANGED <<runner, alive, full, ended, exit, verdict, spared>>

Gone(set) ==
    /\ alive' = alive \ set
    /\ writers' = [s \in Pipe |-> writers[s] \ set]

Exit(p) ==
    /\ p \in alive
    /\ Gone({p})
    /\ IF p = "hook" THEN exit' \in {"zero", "other"} ELSE exit' = exit
    /\ UNCHANGED <<runner, full, ended, verdict, spared>>

(* pump: read a line, or see the end of the pipe.                          *)
ReadLine(s) ==
    /\ s \in full
    /\ full' = full \ {s}
    /\ UNCHANGED <<runner, alive, writers, ended, exit, verdict, spared>>

SeeEnd(s) ==
    /\ runner # "idle" /\ s \notin ended \cup full /\ writers[s] = {}
    /\ ended' = ended \cup {s}
    /\ UNCHANGED <<runner, alive, writers, full, exit, verdict, spared>>
-----------------------------------------------------------------------------
(* wait_timeout: try_wait answers that the hook has exited, or that it had *)
(* not when the deadline has passed, or nothing.                           *)
SeeExit ==
    /\ runner = "poll" /\ "hook" \notin alive
    /\ verdict' = IF exit = "zero" THEN "ok" ELSE "failed"
    /\ runner' = "joinOut"
    /\ UNCHANGED <<alive, writers, full, ended, exit, spared>>

Expire ==
    /\ runner = "poll" /\ "hook" \in alive
    /\ runner' = "expired"
    /\ UNCHANGED <<alive, writers, full, ended, exit, verdict, spared>>

WaitFails ==
    /\ runner = "poll"
    /\ verdict' = "failed"
    /\ runner' = "joinOut"
    /\ UNCHANGED <<alive, writers, full, ended, exit, spared>>

(* kill_group, then child.kill: what runs as another user (under sudo) is  *)
(* not signalled, and neither error is looked at.  The hook may have ended *)
(* by itself since try_wait.                                               *)
Kill(set) ==
    /\ Gone(set)
    /\ exit' = IF "hook" \in set THEN "killed" ELSE exit

KillGroupHookOnly ==                                                    \* mutant
    /\ runner = "expired"
    /\ Kill(alive \cap {"hook"})
    /\ spared' = {} /\ runner' = "kill"
    /\ UNCHANGED <<full, ended, verdict>>
KillGroup ==
    /\ runner = "expired"
    /\ \E set \in SUBSET (alive \cap Group) :
          /\ Kill(set)
          /\ spared' = (alive \cap Group) \ set
    /\ runner' = "kill"
    /\ UNCHANGED <<full, ended, verdict>>

KillChild ==
    /\ runner = "kill"
    /\ \E set \in SUBSET (alive \cap {"hook"}) : Kill(set)
    /\ runner' = "reap"
    /\ UNCHANGED <<full, ended, verdict, spared>>

(* child.wait blocks while there is a hook to wait for, and its answer is  *)
(* dropped: whatever the hook ended with, it is reported as timed out.     *)
Reap ==
    /\ runner = "reap"
    /\ "hook" \notin alive
    /\ verdict' = "timeout"
    /\ runner' = "joinOut"
    /\ UNCHANGED <<alive, writers, full, ended, exit, spared>>

(* The readers are joined one after the other.                             *)
JoinOut ==
    /\ runner = "joinOut" /\ "out" \in ended
    /\ runner' = "joinErr"
    /\ UNCHANGED <<alive, writers, full, ended, exit, verdict, spared>>

JoinErr ==
    /\ runner = "joinErr" /\ "err" \in ended
    /\ runner' = "done"
    /\ UNCHANGED <<alive, writers, full, ended, exit, verdict, spared>>

HookStep ==
    \/ Spawn \/ SeeExit \/ Expire \/ WaitFails
    \/ KillGroup \/ KillChild \/ Reap \/ JoinOut \/ JoinErr
    \/ \E p \in Process : Exit(p) \/ \E q \in Process : Fork(p, q)
    \/ \E p \in Process, s \in Pipe : Write(p, s) \/ CloseEnd(p, s)
    \/ \E s \in Pipe : ReadLine(s) \/ SeeEnd(s)
-----------------------------------------------------------------------------
(* A timeout leaves no process of the hook's group behind, however many it *)
(* started and whenever, unless the kill could not signal one of them      *)
(* (kill_group, whose error is dropped).                                   *)
TimeoutReapsGroup == verdict = "timeout" /\ spared = {} => alive \cap Group = {}

(* When run answers, every line any process of the hook wrote to its pipes *)
(* has been read, and none can be written any more (the joins).            *)
NothingLost ==
    runner = "done" => full = {} /\ \A s \in Pipe : writers[s] = {}

(* run answers Ok only for a hook that exited with zero of its own accord, *)
(* a timeout only once the hook is gone, and nothing but a timeout for a   *)
(* hook it has killed; until it has answered, the hook runs or has ended   *)
(* (wait_timeout).  A hook that ends by itself between try_wait and the    *)
(* kill is reported as timed out too.                                      *)
VerdictIsTrue ==
    /\ verdict = "ok" => exit = "zero" /\ "hook" \notin alive
    /\ verdict = "timeout" => exit # "none" /\ "hook" \notin alive
    /\ exit = "killed" => verdict = "timeout" \/ runner \in {"kill", "reap"}
    /\ runner \in {"poll", "expired", "kill", "reap"} => ("hook" \in alive <=> exit = "none")

(* What run answers accounts for the hook, its group and its output,       *)
(* however the exit, the deadline, a failing wait or kill and the          *)
(* processes the hook leaves behind interleave (ProcessRunner::run).       *)
HookAccounted == TimeoutReapsGroup /\ NothingLost /\ VerdictIsTrue

(* Every variable has its type.                                            *)
HookTypeOK ==
    /\ runner \in {"idle", "poll", "expired", "kill", "reap", "joinOut", "joinErr", "done"}
    /\ alive \subseteq Process
    /\ writers \in [Pipe -> SUBSET alive]
    /\ full \subseteq Pipe /\ ended \subseteq Pipe
    /\ exit \in {"none", "zero", "other", "killed"}
    /\ verdict \in {"none", "ok", "failed", "timeout"}
    /\ spared \subseteq Group
=============================================================================
