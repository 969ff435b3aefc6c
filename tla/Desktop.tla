-------------------------------- MODULE Desktop --------------------------------
(***************************************************************************)
(* The desktop front end of envctl (gui/src/main.rs) and the worker it     *)
(* drives (engine/src/command.rs): the UI thread, which drains events and  *)
(* sends commands frame by frame; the one worker, which takes them in      *)
(* order and runs the engine; the forwarder, which relays the engine's     *)
(* events and asks for a repaint; and the telemetry sampler, woken by its  *)
(* cadence or by a generation counter.                                     *)
(*                                                                         *)
(* The window offers Install, Fix, Add repo and Deploy; it never sends the *)
(* loop's Remove.  Log lines, GPU cards and the dependency graph only show *)
(* what they are given and are left out.                                   *)
(***************************************************************************)
EXTENDS Naturals, Sequences, SequencesExt

CONSTANTS
    N,                 \* how many components the registry has
    Requires,          \* their dependency edges, in the registry's order
    MaxActs            \* bound: the buttons the user presses

ASSUME DesktopAssumption ==
    /\ N \in Nat \ {0}
    /\ Requires \in [1 .. N -> SUBSET (1 .. N)]
    /\ \A c \in 1 .. N : Requires[c] \subseteq 1 .. c - 1       \* Registry::order
    /\ MaxActs \in Nat

Listed == 1 .. N

(* Of a component, what its detect hook answers.                           *)
Presence == {"absent", "present"}
Screens == {"dashboard", "other"}
Unseen == [c \in Listed |-> "unseen"]

VARIABLES
    host,              \* what is really installed
    cmds,              \* the channel from the window to the worker
    doing,             \* what the worker is at
    inbox,             \* the engine's events on their way to the window
    repaint,           \* a frame has been asked for
    frame,             \* the UI thread: between frames, or with its cadence stored only
    screen,            \* the dashboard, in focus, or another screen, which has a slower cadence
    shown,             \* the components of the last Report
    busy,              \* the rows that say "working..."
    dryDefault,        \* the settings' dry-run box
    open,              \* the window has not been closed
    acts,              \* how many buttons the user has pressed
    alive, cadence,    \* TelemetryControl
    bumped,            \* the generation is not the one the sampler last saw
    sampler,           \* where the sampler is
    pace,              \* the cadence it read before its wait
    untold             \* history: an add-repo changed the host and ended without a RunFinished

cmdVars == <<host, cmds, doing, untold>>
eventVars == <<inbox, repaint>>
uiVars == <<frame, screen, shown, busy, dryDefault, open, acts>>
telVars == <<alive, cadence, bumped, sampler, pace>>
desktopVars == <<cmdVars, eventVars, uiVars, telVars>>

Resting == [kind |-> "idle"]
Ended == [kind |-> "ended"]
Event(kind) == [kind |-> kind]

(* EnvctlApp::new: the window opens with a detect and a sample on order.   *)
DesktopInit ==
    /\ host \in [Listed -> Presence]
    /\ cmds = <<Event("detect"), Event("sample")>>
    /\ doing = Resting
    /\ inbox = <<>>
    /\ repaint = TRUE
    /\ frame = "rest"
    /\ screen = "dashboard"
    /\ shown = Unseen
    /\ busy = {}
    /\ dryDefault = TRUE
    /\ open = TRUE
    /\ acts = 0
    /\ alive = TRUE
    /\ cadence = 1000
    /\ bumped = FALSE
    /\ sampler = "top"
    /\ pace = 1000
    /\ untold = FALSE
-----------------------------------------------------------------------------
(* The window.  drain() takes every event there is: a StepFinished clears  *)
(* its row, a RunFinished orders a detect, a Report replaces the rows.     *)
Of(kind) == {i \in DOMAIN inbox : inbox[i].kind = kind}
Reports == Of("report")
Cleared == {inbox[i].c : i \in Of("step")}
NoRefresh == <<>>                                                      \* mutant
Refresh == [i \in 1 .. Cardinality(Of("run")) |-> Event("detect")]
Rows == IF Reports = {} THEN shown ELSE inbox[Max(Reports)].rows

(* What one frame may send, the rows it marks, the screen it ends on.  The *)
(* buttons are drawn from the rows as drained.                             *)
Missing == {c \in Listed : Rows[c] = "absent"}
Marked == busy \ Cleared
NoAct == [cmds |-> <<>>, busy |-> {}, screen |-> screen, dry |-> dryDefault, open |-> TRUE]
Sends(cmd) == [NoAct EXCEPT !.cmds = <<cmd>>]
RunCmd(phase, targets, dry) == [kind |-> phase, targets |-> targets, dry |-> dry]
Keys == [c \in Listed |-> c]
InSequence(set) == FoldLeft(LAMBDA v, c : IF c \in set THEN Append(v, c) ELSE v, <<>>, Keys)

InstallMissing ==
    {[Sends(RunCmd("install", InSequence(Missing), FALSE)) EXCEPT !.busy = Missing] : c \in Missing}
RowButtons ==
    {[Sends(IF c \in Missing THEN RunCmd("install", <<c>>, FALSE) ELSE RunCmd("fix", <<c>>, dryDefault))
        EXCEPT !.busy = {c}] : c \in {d \in Listed : Rows[d] # "unseen"} \ Marked}
RepoCmd(dry) == [kind |-> "addRepo", dry |-> dry]
RepoButtons == {Sends(RepoCmd(dry)) : dry \in BOOLEAN}
MeshButtons == {Sends(Event("dashboard"))}
Settings == {Sends(Event("detect")), [NoAct EXCEPT !.dry = ~dryDefault]}
Buttons == InstallMissing \cup RowButtons \cup RepoButtons \cup MeshButtons \cup Settings

(* Closing the window: on_exit sends Shutdown, and no frame follows.       *)
OnExitSilent == [NoAct EXCEPT !.open = FALSE]                          \* mutant
OnExit == [Sends(Event("shutdown")) EXCEPT !.open = FALSE]

Moves ==
    {[NoAct EXCEPT !.screen = s] : s \in Screens \ {screen}}
    \cup {OnExit}

CadenceInSeconds == [dashboard |-> 1, other |-> 10]                     \* mutant
Cadence == [dashboard |-> 1000, other |-> 10000]

(* update(): a frame is drawn when one was asked for, when the dashboard's *)
(* timer runs out, or for what the user does.  It ends with set_cadence,   *)
(* whose store and bump are two steps.                                     *)
Draw(act) ==
    /\ open
    /\ frame = "rest"
    /\ repaint' = FALSE
    /\ inbox' = <<>>
    /\ shown' = Rows
    /\ busy' = Marked \cup act.busy
    /\ cmds' = cmds \o Refresh \o act.cmds
    /\ screen' = act.screen
    /\ dryDefault' = act.dry
    /\ open' = act.open
    /\ UNCHANGED <<host, doing, untold>>

StoreCadence(act) ==
    /\ frame' = "bump"
    /\ cadence' = Cadence[act.screen]
    /\ UNCHANGED <<alive, bumped, sampler, pace>>

Repaint ==
    /\ repaint \/ screen # "other"
    /\ Draw(NoAct)
    /\ StoreCadence(NoAct)
    /\ acts' = acts

Use(act) ==
    /\ \/ act \in Moves /\ acts' = acts
       \/ screen = "other" /\ act \in Buttons /\ acts < MaxActs /\ acts' = acts + 1
    /\ Draw(act)
    /\ IF act.open THEN StoreCadence(act) ELSE UNCHANGED <<frame, telVars>>

EndFrameUnbumped ==                                                    \* mutant
    /\ frame = "bump" /\ frame' = "rest"
    /\ UNCHANGED <<cmdVars, eventVars, screen, shown, busy, dryDefault, open, acts, telVars>>
EndFrame ==
    /\ frame = "bump"
    /\ frame' = "rest"
    /\ bumped' = TRUE
    /\ UNCHANGED <<cmdVars, eventVars, screen, shown, busy, dryDefault, open, acts,
                   alive, cadence, sampler, pace>>
-----------------------------------------------------------------------------
(* The worker takes the commands in the order they were sent.              *)
Take(kind) ==
    /\ doing = Resting
    /\ cmds # <<>>
    /\ Head(cmds).kind = kind
    /\ cmds' = Tail(cmds)

(* An event goes through the forwarder, which keeps the order and asks for *)
(* a frame for each; one it has not passed on yet is one the window has    *)
(* not drained.                                                            *)
Emit(events) ==
    /\ inbox' = inbox \o events
    /\ repaint' = (repaint \/ events # <<>>)

DetectHost ==
    /\ Take("detect")
    /\ Emit(<<[kind |-> "report", rows |-> host]>>)
    /\ untold' = FALSE
    /\ UNCHANGED <<host, doing, uiVars, telVars>>

Sample ==
    /\ Take("sample")
    /\ bumped' = TRUE
    /\ UNCHANGED <<host, doing, untold, eventVars, uiVars, alive, cadence, sampler, pace>>

(* Engine::run: the closures of the targets, each component once, and one  *)
(* StepFinished for each whatever becomes of it.                           *)
Prereqs ==
    LET p[c \in Listed] == Requires[c] \cup UNION {p[d] : d \in Requires[c]}
    IN p
Order(targets) ==
    FoldLeft(LAMBDA v, t : v \o InSequence(({t} \cup Prereqs[t]) \ ToSet(v)), <<>>, targets)

StartRun(phase) ==
    /\ Take(phase)
    /\ doing' = [kind |-> phase, rest |-> Order(Head(cmds).targets), failed |-> {}, dry |-> Head(cmds).dry]
    /\ UNCHANGED <<host, untold, eventVars, uiVars, telVars>>

Running == doing.kind \in {"install", "fix"}
OnRubble(c) == Requires[c] \cap doing.failed # {}

(* Whether the hook runs: an install of what is absent, a fix of what is   *)
(* there (and broken, or its wiring is gone: any may be), never dry.        *)
HookRuns(c) ==
    /\ ~doing.dry
    /\ ~OnRubble(c)
    /\ (doing.kind = "install") = (host[c] = "absent")

FinishUnlessBlocked(c) == IF OnRubble(c) THEN <<>> ELSE <<[kind |-> "step", c |-> c]>>   \* mutant
Finish(c) == <<[kind |-> "step", c |-> c]>>

RunStep ==
    /\ Running
    /\ doing.rest # <<>>
    /\ LET c == Head(doing.rest)
       IN /\ \E h \in IF HookRuns(c) THEN Presence ELSE {host[c]}, fails \in {HookRuns(c), FALSE} :
               /\ host' = [host EXCEPT ![c] = h]
               /\ doing' = [doing EXCEPT !.rest = Tail(@), !.failed = IF fails THEN @ \cup {c} ELSE @]
          /\ Emit(Finish(c))
    /\ UNCHANGED <<cmds, untold, uiVars, telVars>>

EndRun ==
    /\ Running
    /\ doing.rest = <<>>
    /\ doing' = Resting
    /\ Emit(<<Event("run")>>)
    /\ UNCHANGED <<host, cmds, untold, uiVars, telVars>>

(* Engine::add_repo, whose component is not in the registry the worker     *)
(* loaded.  A build may install what some component's detect looks for; an *)
(* error after that is a refusal line, and no RunFinished follows it.      *)
AddRepo ==
    /\ Take("addRepo")
    /\ \E became \in {host} \cup (IF Head(cmds).dry THEN {}
                               ELSE {[host EXCEPT ![c] = "present"] : c \in {d \in Listed : host[d] = "absent"}}),
         end \in {<<>>, <<Event("run")>>, <<Event("refused")>>} :
         /\ became # host => end # <<>>
         /\ host' = became
         /\ Emit(end)
         /\ untold' = (untold \/ (became # host /\ end = <<Event("refused")>>))
    /\ UNCHANGED <<doing, uiVars, telVars>>

(* A render or a deploy of the mission-control layout: the window is told  *)
(* of the plan, of what was or would be written, or why not.               *)
Dashboard ==
    /\ Take("dashboard")
    /\ \E told \in {<<"plan">>, <<"plan", "deployed">>, <<"plan", "refused">>, <<"refused">>} :
         Emit([i \in DOMAIN told |-> Event(told[i])])
    /\ UNCHANGED <<host, doing, untold, uiVars, telVars>>

(* Shutdown: ctrl.stop() is a store and a bump, and the loop ends.         *)
Shutdown ==
    /\ Take("shutdown")
    /\ alive' = FALSE
    /\ doing' = Event("stopping")
    /\ UNCHANGED <<host, untold, eventVars, uiVars, cadence, bumped, sampler, pace>>
Stopped ==
    /\ doing.kind = "stopping"
    /\ doing' = Ended
    /\ bumped' = TRUE
    /\ UNCHANGED <<host, cmds, untold, eventVars, uiVars, alive, cadence, sampler, pace>>
-----------------------------------------------------------------------------
(* The sampler: look whether it is alive and sample; read the cadence;     *)
(* then wait until the generation moves or the cadence runs out.           *)
SampleNow ==
    /\ sampler = "top"
    /\ IF alive THEN sampler' = "sampled" /\ repaint' = TRUE ELSE sampler' = "ended" /\ repaint' = repaint
    /\ UNCHANGED <<cmdVars, inbox, uiVars, alive, cadence, bumped, pace>>

ReadCadence ==
    /\ sampler = "sampled"
    /\ sampler' = "wait"
    /\ pace' = cadence
    /\ UNCHANGED <<cmdVars, eventVars, uiVars, alive, cadence, bumped>>

Asleep == sampler = "wait" /\ ~bumped

Wake ==
    /\ sampler = "wait"
    /\ bumped' = FALSE
    /\ sampler' = "top"
    /\ UNCHANGED <<cmdVars, eventVars, uiVars, alive, cadence, pace>>

Ui == Repaint \/ (\E act \in Moves \cup Buttons : Use(act)) \/ EndFrame
Worker ==
    \/ DetectHost \/ Sample \/ StartRun("install") \/ StartRun("fix") \/ RunStep \/ EndRun
    \/ AddRepo \/ Dashboard \/ Shutdown \/ Stopped
Sampler == SampleNow \/ ReadCadence \/ Wake

DesktopNext == Ui \/ Worker \/ Sampler

(* Each thread keeps going, hooks come to an end, and a frame that was     *)
(* asked for is drawn; nothing makes the user do anything.                 *)
Fairness ==
    /\ WF_desktopVars(Repaint \/ EndFrame)
    /\ WF_desktopVars(Worker)
    /\ WF_desktopVars(Sampler)

DesktopSpec == DesktopInit /\ [][DesktopNext]_desktopVars /\ Fairness
-----------------------------------------------------------------------------
Hooked == {"install", "fix"}
Commands ==
    [kind : {"detect", "sample", "dashboard", "shutdown"}]
    \cup [kind : Hooked, targets : Seq(Listed), dry : BOOLEAN]
    \cup [kind : {"addRepo"}, dry : BOOLEAN]
Doings ==
    {Resting, Event("stopping"), Ended}
    \cup [kind : Hooked, rest : Seq(Listed), failed : SUBSET Listed, dry : BOOLEAN]
Events ==
    [kind : {"report"}, rows : [Listed -> Presence]]
    \cup [kind : {"step"}, c : Listed]
    \cup [kind : {"run", "refused", "plan", "deployed"}]

(* Every variable has its type (the structs of main.rs and command.rs).    *)
DesktopTypeOK ==
    /\ host \in [Listed -> Presence]
    /\ cmds \in Seq(Commands)
    /\ doing \in Doings
    /\ inbox \in Seq(Events)
    /\ frame \in {"rest", "bump"}
    /\ screen \in Screens
    /\ shown \in [Listed -> Presence] \cup {Unseen}
    /\ busy \subseteq Listed
    /\ cadence \in {1000, 10000} /\ pace \in {1000, 10000}
    /\ sampler \in {"top", "sampled", "wait", "ended"}
    /\ repaint \in BOOLEAN /\ dryDefault \in BOOLEAN /\ open \in BOOLEAN
    /\ alive \in BOOLEAN /\ bumped \in BOOLEAN /\ untold \in BOOLEAN
    /\ acts \in 0 .. MaxActs

(* A row that says "working..." still has a StepFinished of its component  *)
(* to come: the buttons it hides always come back (dispatch, drain, and    *)
(* the run loop's finish of every component it takes).                     *)
Ordered == UNION {ToSet(Order(cmds[i].targets)) : i \in {j \in DOMAIN cmds : cmds[j].kind \in Hooked}}
BusyHasWork ==
    busy \subseteq Cleared \cup Ordered \cup (IF Running THEN ToSet(doing.rest) ELSE {})

(* When nothing is under way the rows show the host as it is, unless an    *)
(* add-repo changed it and then failed (drain's RunFinished arm).          *)
Quiet == cmds = <<>> /\ doing = Resting /\ inbox = <<>>
QuietMeansFresh == Quiet /\ ~untold => shown = host

(* What the rows say is true: of what is to come, and once all is quiet.  *)
RowsAreHonest == BusyHasWork /\ QuietMeansFresh

(* The sampler never sleeps on a cadence that has been replaced: a         *)
(* set_cadence that lands before it waits is not lost.                     *)
SleepsAtTheLatestCadence == Asleep /\ frame # "bump" => pace = cadence

(* Nor does it sleep through a stop.                                       *)
NeverSleepsThroughStop == Asleep => alive \/ doing.kind = "stopping"

(* So no wake-up of the sampler is lost (bump_and_notify, under the lock). *)
SleepsSafely == SleepsAtTheLatestCadence /\ NeverSleepsThroughStop

(* Every "working..." row comes back while the window is open.             *)
BusyClears == \A c \in Listed : c \in busy ~> (c \notin busy \/ ~open)

(* Closing the window ends the sampler (on_exit's comment), once the       *)
(* worker is through with what was ordered before.                         *)
SamplerEnds == ~open ~> sampler = "ended"
=============================================================================
