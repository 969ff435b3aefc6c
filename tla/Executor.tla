------------------------------- MODULE Executor -------------------------------
(***************************************************************************)
(* The best-effort run loop of envctl (engine/src/executor.rs) over the    *)
(* registry it loads first, with the run of one phase of one component     *)
(* (engine/src/error.rs) and the guards of a destructive one               *)
(* (engine/src/guard.rs).                                                  *)
(*                                                                         *)
(* What a hook, a wiring file or a verify hook does is up to the host, so  *)
(* each is a choice; what detect answers is state, because the loop asks   *)
(* it again.                                                               *)
(***************************************************************************)
EXTENDS Registry, Guards

Phase == {"install", "fix", "remove"}
Gate == {"all", "confirm", "cascade"}

(* What detect would say: a component without a detect hook is unprobed,   *)
(* one that needs a GPU this host lacks is skipped whatever it is asked.   *)
Detect == {"present", "absent", "unprobed", "noGpu"}

VARIABLES
    plan,              \* RunPlan: phase, targets, dry_run and gates
    detect,            \* what each component's detect hook would answer now
    stage,             \* "load", "loaded", "rejected", "plan", "run" or "done"
    rest,              \* the components the loop has still to take, in order
    handled,           \* those it has finished
    failed,            \* failed_ids, and the summary's roster of the same name
    refused,           \* the summary's rosters; 0 stands for <reset> and <cascade>
    blocked,
    incomplete,
    acted,             \* history: the components whose hook has run, or had none to run
    liveBefore,        \* history: the components detected when a reset began
    struck             \* history: a guarded hook may have run on what its guards protect

registry == <<requires, order>>
vars == <<registry, plan, detect, stage, rest, handled, failed, refused, blocked, incomplete,
          acted, liveBefore, struck>>
rosters == <<failed, refused, blocked, incomplete>>

Live == {c \in Component : detect[c] = "present"}
Targets == ToSet(plan.targets)
Forward == plan.phase \in {"install", "fix"}
Has(gate) == gate \in plan.gates

(* The program starts with some manifests; nothing else is known yet.      *)
Init ==
    /\ requires \in [Component -> SUBSET (Component \cup {0})]
    /\ order = <<>>
    /\ plan = [phase |-> "install", targets |-> <<>>, dry |-> TRUE, gates |-> {}]
    /\ detect = [c \in Component |-> "unprobed"]
    /\ stage = "load"
    /\ rest = <<>>
    /\ handled = {}
    /\ failed = {} /\ refused = {} /\ blocked = {} /\ incomplete = {}
    /\ acted = {}
    /\ liveBefore = {}
    /\ struck = FALSE

(* Registry::load.                                                         *)
Load ==
    /\ stage = "load"
    /\ stage' = IF Accepted THEN "loaded" ELSE "rejected"
    /\ order' = IF Accepted THEN Sorted ELSE <<>>
    /\ UNCHANGED <<requires, plan, detect, rest, handled, rosters, acted, liveBefore, struck>>

(* A plan is any the command line can make, for a host in any state; a     *)
(* gate is given only where the loop reads it, and only an install or a    *)
(* fix reads the order of the targets.                                     *)
Choose ==
    /\ stage = "loaded"
    /\ \E phase \in Phase, chosen \in SUBSET Component, dry \in BOOLEAN :
         \E targets \in IF phase = "remove" THEN {Ordered(chosen)} ELSE SetToSeqs(chosen),
            gates \in SUBSET (CASE phase = "install" -> {}
                                [] phase = "fix"     -> {"confirm"}
                                [] phase = "remove"  ->
                                     IF chosen = {} THEN {"all", "confirm"} ELSE {"cascade", "confirm"}) :
             plan' = [phase |-> phase, targets |-> targets, dry |-> dry, gates |-> gates]
    /\ detect' \in [Component -> Detect]
    /\ liveBefore' = IF plan'.phase = "remove" THEN {c \in Component : detect'[c] = "present"} ELSE {}
    /\ stage' = "plan"
    /\ UNCHANGED <<registry, rest, handled, rosters, acted, struck>>
-----------------------------------------------------------------------------
(* The order of an install or a fix: the closures of the targets one after *)
(* the other, each component where it is first met.                        *)
ForwardOrder ==
    IF plan.targets = <<>>
      THEN Ordered(Component)
      ELSE FoldLeft(LAMBDA v, t : v \o Ordered(Closure(t) \ ToSet(v)), <<>>, plan.targets)

PlanForward ==
    /\ stage = "plan"
    /\ Forward
    /\ rest' = ForwardOrder
    /\ stage' = "run"
    /\ UNCHANGED <<registry, plan, detect, handled, rosters, acted, liveBefore, struck>>

(* A reset takes exactly the named targets.  A live reverse-dependent that *)
(* is not among them is folded in under --cascade, and otherwise protects  *)
(* the target.                                                             *)
Protectors(t) == (ReverseDependents(t) \cap Live) \ Targets
Folded == IF Has("cascade") THEN UNION {Protectors(t) : t \in Targets} ELSE {}
Protected == IF Has("cascade") THEN {} ELSE {t \in Targets : Protectors(t) # {}}
RemovalSet == IF Targets = {} THEN Component ELSE (Targets \ Protected) \cup Folded

RosterUnconfirmed == Targets = {} /\ ~(Has("all") /\ Has("confirm"))
CascadeUnconfirmed == Folded # {} /\ ~Has("confirm") /\ ~plan.dry

RefuseRemove ==
    /\ stage = "plan"
    /\ plan.phase = "remove"
    /\ RosterUnconfirmed \/ CascadeUnconfirmed
    /\ refused' = {0}
    /\ stage' = "done"
    /\ UNCHANGED <<registry, plan, detect, rest, handled, failed, blocked, incomplete, acted, liveBefore, struck>>

PlanRemove ==
    /\ stage = "plan"
    /\ plan.phase = "remove"
    /\ ~RosterUnconfirmed /\ ~CascadeUnconfirmed
    /\ refused' = Protected
    /\ rest' = Reverse(Ordered(RemovalSet))
    /\ stage' = "run"
    /\ UNCHANGED <<registry, plan, detect, handled, failed, blocked, incomplete, acted, liveBefore, struck>>
-----------------------------------------------------------------------------
(* The loop takes the next component and finishes it.                      *)
Take(c) ==
    /\ stage = "run"
    /\ rest # <<>>
    /\ c = Head(rest)
    /\ rest' = Tail(rest)
    /\ handled' = handled \cup {c}
    /\ UNCHANGED <<registry, plan, stage, liveBefore>>

OnRubble(c) == Forward /\ requires[c] \cap failed # {}

BlockUnpopped(c) ==                                                     \* mutant
    /\ stage = "run" /\ rest # <<>> /\ c = Head(rest)
    /\ OnRubble(c)
    /\ blocked' = blocked \cup {c}
    /\ UNCHANGED <<registry, plan, stage, rest, handled, detect, failed, refused, incomplete, acted, liveBefore, struck>>
Block(c) ==
    /\ Take(c)
    /\ OnRubble(c)
    /\ blocked' = blocked \cup {c}
    /\ UNCHANGED <<detect, failed, refused, incomplete, acted, struck>>

(* An install of what is there, a fix of what is not there or is well, and *)
(* any phase of what needs a missing GPU.  The wiring an install applies   *)
(* to a component already there may fail unseen.                           *)
SkipStep(c) ==
    /\ Take(c)
    /\ ~OnRubble(c)
    /\ \/ plan.phase = "install" /\ ~plan.dry /\ detect[c] = "present"
       \/ plan.phase = "fix" /\ ~plan.dry /\ detect[c] # "noGpu"
       \/ detect[c] = "noGpu"
    /\ UNCHANGED <<detect, rosters, acted, struck>>

(* Whether run_phase is reached with a hook it may run.                    *)
Reached(c) ==
    /\ ~OnRubble(c)
    /\ detect[c] # "noGpu"
    /\ ~plan.dry => /\ ~(plan.phase = "install" /\ detect[c] = "present")
                    /\ ~(plan.phase = "fix" /\ detect[c] = "absent")

(* A fix of system scope needs --confirm; the guards of a destructive      *)
(* component may refuse a fix or a reset, in a dry run too; a hook that    *)
(* runs has passed those of its component.                                 *)
RefuseStep(c) ==
    /\ Take(c)
    /\ \/ plan.phase \in {"fix", "remove"} /\ Reached(c)
       \/ plan.phase = "fix" /\ detect[c] = "noGpu" /\ ~OnRubble(c) /\ ~plan.dry /\ ~Has("confirm")
    /\ refused' = refused \cup {c}
    /\ UNCHANGED <<detect, failed, blocked, incomplete, acted, struck>>

DryStep(c) ==
    /\ Take(c)
    /\ plan.dry
    /\ Reached(c)
    /\ UNCHANGED <<detect, rosters, acted, struck>>

(* What the hook leaves behind.                                            *)
Outcome(c) == IF detect[c] = "unprobed" THEN {"unprobed"} ELSE {"present", "absent"}

HookFails(c) ==
    /\ Take(c)
    /\ Reached(c)
    /\ ~plan.dry
    /\ failed' = failed \cup {c}
    /\ acted' = acted \cup {c}
    /\ struck' = (struck \/ (plan.phase # "install" /\ Harm # {}))
    /\ \E d \in Outcome(c) : detect' = [detect EXCEPT ![c] = d]
    /\ UNCHANGED <<refused, blocked, incomplete>>

(* The hook succeeds or there is none: the wiring follows, and after a     *)
(* reset or a fix the component is probed again.                           *)
StillDetectedNever(d) == FALSE                                          \* mutant
StillDetected(d) == plan.phase = "remove" /\ d = "present"

(* reverify_healthy: a fix may leave its component sick.                   *)
Sick == IF plan.phase = "fix" THEN BOOLEAN ELSE {FALSE}

HookActs(c) ==
    /\ Take(c)
    /\ Reached(c)
    /\ ~plan.dry
    /\ acted' = acted \cup {c}
    /\ struck' = (struck \/ (plan.phase # "install" /\ Harm # {}))
    /\ \E d \in Outcome(c), wiringFails \in BOOLEAN, sick \in Sick :
         /\ detect' = [detect EXCEPT ![c] = d]
         /\ incomplete' = IF wiringFails \/ StillDetected(d) \/ sick THEN incomplete \cup {c} ELSE incomplete
    /\ UNCHANGED <<failed, refused, blocked>>

Finish ==
    /\ stage = "run"
    /\ rest = <<>>
    /\ stage' = "done"
    /\ UNCHANGED <<registry, plan, detect, rest, handled, rosters, acted, liveBefore, struck>>

Finished == stage \in {"done", "rejected"} /\ UNCHANGED vars

Step(c) == Block(c) \/ SkipStep(c) \/ RefuseStep(c) \/ DryStep(c) \/ HookFails(c) \/ HookActs(c)

Plans == PlanForward \/ RefuseRemove \/ PlanRemove
Loop == (\E c \in Component : Step(c)) \/ Finish \/ Finished

Next == Load \/ Choose \/ Plans \/ Loop

Spec == Init /\ [][Next]_vars
-----------------------------------------------------------------------------
(* Every variable has its type, and the loop puts on a roster only what it *)
(* has finished (run()'s summary).                                         *)
TypeOK ==
    /\ requires \in [Component -> SUBSET (Component \cup {0})]
    /\ order \in Seq(Component)
    /\ plan \in [phase : Phase, targets : Seq(Component), dry : BOOLEAN, gates : SUBSET Gate]
    /\ detect \in [Component -> Detect]
    /\ stage \in {"load", "loaded", "rejected", "plan", "run", "done"}
    /\ rest \in Seq(Component)
    /\ handled \subseteq Component /\ liveBefore \subseteq Component
    /\ failed \cup blocked \cup incomplete \cup acted \subseteq handled
    /\ refused \subseteq handled \cup Targets \cup {0}

(* A registry is rejected exactly when an edge leads nowhere or some       *)
(* components wait for one another; otherwise its order has every          *)
(* component once, after all that it requires (topo_sort).                 *)
Circular == \E ring \in (SUBSET Component) \ {{}} : \A c \in ring : requires[c] \cap ring # {}

OrderIsTopological ==
    /\ stage = "rejected" => ~Declared \/ Circular
    /\ stage \notin {"load", "rejected"} =>
         /\ Declared /\ ~Circular
         /\ Len(order) = N /\ ToSet(order) = Component
         /\ \A i, j \in Component : order[j] \in requires[order[i]] => j < i

(* The graph report, the impact and the paths agree: the closure of an     *)
(* install is what lies on the paths to it, a cascade takes what has it on *)
(* a path, and no path is longer than the critical one, which is a path    *)
(* from a root to a leaf (analyze, impact, dependency_paths).              *)
GraphAgrees ==
    stage = "loaded" =>
      /\ \A t \in Component :
           /\ Impact(t).installs = UNION {ToSet(q) : q \in DependencyPaths[t]}
           /\ Impact(t).removes = {r \in Component \ {t} : \E q \in DependencyPaths[r] : t \in ToSet(q)}
           /\ \A q \in DependencyPaths[t] : Head(q) \in Roots /\ Len(q) <= Len(CriticalPath)
      /\ Last(CriticalPath) \in Leaves
      /\ CriticalPath \in DependencyPaths[Last(CriticalPath)]
      /\ Len(CriticalPath) = 1 => Orphans = Component

(* No hook of a fix or a reset has run on the live root, or on a mounted   *)
(* file system, against a guard of its component that forbids it, as long  *)
(* as blkid and findmnt answered it truly (run_phase, check_guards).       *)
GuardsHold == ~struck

(* No hook of an install or a fix runs before the loop is done with every  *)
(* prerequisite of its component, however the targets were named.          *)
PrerequisitesFirst ==
    [][Forward => \A c \in acted' \ acted : Prereqs[c] \subseteq handled]_vars

(* No component is removed before every component that needs it, directly  *)
(* or not, and was live when the run began: none is left on rubble by a    *)
(* reset, refused targets and cascades included.                           *)
DependentsFirst ==
    [][plan.phase = "remove" =>
         \A c \in acted' \ acted : \A r \in liveBefore : c \in Prereqs[r] => r \in handled]_vars

(* A reset acts on what was named, and on what else was live and needs it  *)
(* only under --cascade and --confirm; never on a prerequisite.            *)
RemovesOnlyAsked ==
    plan.phase = "remove" =>
      \/ acted \subseteq Targets
      \/ Targets = {} /\ Has("all") /\ Has("confirm")
      \/ /\ Has("cascade") /\ Has("confirm")
         /\ \A c \in acted \ Targets : c \in liveBefore /\ Prereqs[c] \cap Targets # {}

(* RunSummary::ok.                                                         *)
Ok == failed = {} /\ refused = {} /\ incomplete = {}

(* A reset that reports ok has left nothing it took detected.              *)
OkMeansAbsent ==
    stage = "done" /\ plan.phase = "remove" /\ ~plan.dry /\ Ok => handled \cap Live = {}

(* The inductive invariant behind OkMeansAbsent: whatever an applied reset *)
(* has finished with is undetected or on a roster that Ok reads.           *)
LeftIsReported ==
    /\ detect \in [Component -> Detect]
    /\ stage \notin {"run", "done"} => handled = {}
    /\ plan.phase = "remove" /\ ~plan.dry
         => handled \cap Live \subseteq failed \cup refused \cup incomplete

(* A reset is honest: it reports all that it leaves, and says ok only over *)
(* a host on which nothing it took is detected (revert, reverify_absent).  *)
ResetIsHonest == LeftIsReported /\ OkMeansAbsent

(* Whatever the plan, hooks run for what was asked only, and each after    *)
(* those it has to wait for: the prerequisites of an install or a fix, the *)
(* live dependents of a removal (run, plan_remove).                        *)
RunKeepsToPlan == []RemovesOnlyAsked /\ PrerequisitesFirst /\ DependentsFirst

(* The order is one the requirements allow, and every report of the graph  *)
(* tells the same story of it (graph.rs).                                  *)
GraphIsRight == OrderIsTopological /\ GraphAgrees
=============================================================================
