------------------------------- MODULE EnvRun -------------------------------
(***************************************************************************)
(* The run loop over the process runner: a report is made before the plan  *)
(* (engine/src/detect.rs), and the detect hook of the first component of   *)
(* the order is run step by step for it.  The hooks that follow are runs   *)
(* of the same runner, taken in one step each.                             *)
(***************************************************************************)
EXTENDS Executor, HookRunner

envVars == <<vars, hookVars>>

EnvInit == Init /\ HookAtRest

RunDetectHook ==
    /\ stage = "loaded"
    /\ HookStep
    /\ UNCHANGED vars

(* The runner has answered; what the hook left behind is on its own.       *)
TakeVerdict ==
    /\ runner = "done"
    /\ runner' = "idle"
    /\ alive' = {} /\ full' = {} /\ ended' = {} /\ spared' = {}
    /\ writers' = [s \in Pipe |-> {}]
    /\ UNCHANGED <<vars, exit, verdict>>

(* What the report says of it: no hook, no GPU, or the hook's verdict.     *)
Answer == IF verdict = "none" THEN {"unprobed", "noGpu"}
          ELSE IF verdict = "ok" THEN {"present"} ELSE {"absent"}

ChooseFor ==
    /\ runner = "idle"
    /\ Choose
    /\ detect'[Head(order)] \in Answer
    /\ exit' = "none" /\ verdict' = "none"
    /\ UNCHANGED <<runner, alive, writers, full, ended, spared>>

Go == (Load \/ Plans \/ Loop) /\ UNCHANGED hookVars

EnvNext == RunDetectHook \/ TakeVerdict \/ ChooseFor \/ Go

EnvSpec == EnvInit /\ [][EnvNext]_envVars
-----------------------------------------------------------------------------
(* Every variable of the loop and of the runner has its type.              *)
EnvTypeOK == TypeOK /\ HookTypeOK
=============================================================================
