------------------------------- MODULE AgentSync -------------------------------
(***************************************************************************)
(* The agent-asset verbs of envctl (engine/src/agent, over the drivers of  *)
(* agent-env): sync, add, remove, lock and clean, over one project.  A     *)
(* sync takes skills, then commands, then MCP packs; each phase plans its  *)
(* sources, applies what is pending, prunes what is stale; the lock, held  *)
(* in memory all along, is written at the very end.  The process may die   *)
(* at any step and any single copy or fetch may fail.  Users edit the      *)
(* config, the installed files and their own MCP servers between runs.     *)
(***************************************************************************)
EXTENDS AgentConfig

CONSTANTS
    UserServers,       \* the agents among whose servers the user may have his own at the start
    MaxChanges,        \* bound: changes made from outside between runs
    MaxFaults          \* bound: failed fetches and copies, and crashes

ASSUME UserServersAssumption == UserServers \subseteq SUBSET Target
ASSUME BoundAssumption == MaxChanges \in Nat /\ MaxFaults \in Nat

VARIABLES
    config,            \* the config file: the assets it asks for
    agents,            \*   the agents it names
    label,             \*   and how it pins each source
    upstream,          \* the revision at the head of each source; 0: the assets are gone
    disk,              \* what is installed at each place
    lockFile,          \* agent-env.lock
    phase,             \* "idle", or how far the running sync has come
    run,               \* its lock mode and whether it is a preview
    lock,              \* the lock it works on
    cache,             \* HashCache: what it has read of the skills' directories
    todo,              \* the sources of the section it has still to plan
    pending,           \* the copies it has still to make
    desired,           \* the assets of the section the prune must keep
    failed, broken,    \* summary.failed > 0, summary.broken > 0
    bound,             \* what is left of the bounds
    answered,          \* history: the sources that answered a fetch of the section
    calm               \* history: clean applying syncs since anything else happened, up to 2

world == <<config, agents, label, upstream>>
files == <<disk, lockFile>>
job == <<run, lock, cache, todo, pending, desired, failed, broken, answered>>
vars == <<world, files, phase, job, bound, calm>>

Unread == <<"unread", 0>>
SkillPlace == {p \in Place : p.kind = "skill"}
Phase == {"idle", "skill", "command", "mcp", "save"}

(* HashCache::get, over the skills' directories; other places are looked   *)
(* at each time.                                                           *)
Sees == [p \in Place |-> IF p \in SkillPlace /\ cache[p] # Unread THEN cache[p] ELSE disk[p]]
Looked(as) ==
    [p \in SkillPlace |->
        IF \E a \in as, t \in Destinations(agents) : p = At(a, t) THEN Sees[p] ELSE cache[p]]

(* What a fetch of a source brings: the branch moves, the tag does not.    *)
Offered(s) == IF label[s] = "ref" THEN 1 ELSE upstream[s]

Init ==
    /\ config = {} /\ agents = Target /\ label = [s \in Source |-> "branch"]
    /\ upstream = [s \in Source |-> 1]
    /\ \E mine \in UserServers :
         disk = [p \in Place |-> IF p.kind = "mcp" /\ p.target \in mine THEN User ELSE Absent]
    /\ lockFile = EmptyLock
    /\ phase = "idle" /\ run = [mode |-> "plain", apply |-> FALSE]
    /\ lock = EmptyLock /\ cache = [p \in SkillPlace |-> Unread]
    /\ todo = {} /\ pending = {} /\ desired = {}
    /\ failed = FALSE /\ broken = FALSE
    /\ bound = [changes |-> MaxChanges, faults |-> MaxFaults]
    /\ answered = {} /\ calm = 0
-----------------------------------------------------------------------------
(* A section is entered with its sources to plan.  Without a target there  *)
(* is nothing to plan for commands and packs.                              *)
Enter(k) ==
    /\ phase' = k
    /\ cache' = [p \in SkillPlace |-> Unread]
    /\ todo' = IF TargetsOf(k, agents) = {} THEN {} ELSE Listed(config', k)
    /\ pending' = {} /\ desired' = {} /\ answered' = {}

(* run_sync_in_ctx loads the lock; a fresh process knows nothing else.     *)
StartSync(mode, apply) ==
    /\ phase = "idle"
    /\ Enter("skill")
    /\ run' = [mode |-> mode, apply |-> apply]
    /\ lock' = lockFile
    /\ failed' = FALSE /\ broken' = FALSE
    /\ UNCHANGED <<agents, label, upstream, files>>

Sync ==
    /\ UNCHANGED <<config, bound, calm>>
    /\ \E mode \in {"plain", "update", "locked"}, apply \in BOOLEAN : StartSync(mode, apply)

(* One source of the section.  Under --locked it fails when the lock does  *)
(* not satisfy it or a fetch would be needed; otherwise it is fetched when *)
(* that is needed or asked for, and else taken from the lock.              *)
Refuse == failed' = TRUE /\ UNCHANGED <<pending, desired, broken, bound, answered>>

FetchFails ==
    /\ bound.faults > 0
    /\ bound' = [bound EXCEPT !.faults = @ - 1]
    /\ failed' = TRUE
    /\ UNCHANGED <<pending, desired, broken, answered>>

(* Every asset the source provides is desired, and pending unless it is    *)
(* there already.  Of a list, what the source does not provide is broken.  *)
(* A preview queues nothing.                                               *)
Copy(a, hash, repair, left) ==
    [asset |-> a, hash |-> hash, label |-> label[a.source], repair |-> repair, left |-> left]
Queue(copies) == pending' = IF run.apply THEN pending \cup copies ELSE pending

Named(k, s) ==
    IF s \in Wild THEN [kind : {k}, source : {s}, name : Name] ELSE Desired(config, lock, k, s)
Found(k, s) == IF Offered(s) = 0 THEN {} ELSE Named(k, s)
Fetched(k, s) ==
    LET hash == <<s, Offered(s)>>
        news == {a \in Found(k, s) : ~IsUnchanged(lock, agents, Sees, a, hash)}
    IN /\ desired' = desired \cup Found(k, s)
       /\ Queue({Copy(a, hash, FALSE, TargetsOf(k, agents)) : a \in news})
       /\ answered' = answered \cup {s}
       /\ UNCHANGED <<failed, bound>>

(* Without a fetch everything the lock has of the source is desired.  A    *)
(* skill with a copy that differs from the lock is copied again from the   *)
(* first that agrees over every other, worn or not; commands and packs are *)
(* left as they are.                                                       *)
Worn(a) == {t \in Destinations(agents) : ~SkillThere(lock[a].hash, Sees[At(a, t)])}
Redone(a) ==
    {t \in Destinations(agents) :
        t \in Worn(a) \/ \E good \in Destinations(agents) \ Worn(a) : good < t}
FromLock(k, s) ==
    LET wanted == Desired(config, lock, k, s)
        worn == {a \in wanted : k = "skill" /\ Worn(a) # {}}
    IN /\ desired' = desired \cup wanted
       /\ Queue({Copy(a, lock[a].hash, TRUE, Redone(a)) : a \in worn})
       /\ UNCHANGED <<failed, broken, bound, answered>>

Plan(k, s, isBroken) ==
    LET fetch == run.mode = "update" \/ NeedsFetch(config, lock, label, agents, Sees, k, s)
    IN /\ phase = k /\ s \in todo
       /\ todo' = todo \ {s}
       /\ IF run.mode = "locked" /\ (fetch \/ ~LockSatisfies(config, lock, k, s)) THEN Refuse
          ELSE IF fetch THEN \/ FetchFails
                             \/ Fetched(k, s) /\ broken' = (broken \/ isBroken)
          ELSE FromLock(k, s)
       /\ UNCHANGED <<world, files, phase, run, lock, calm>>

(* A "*" that finds no skill is not even broken; one that finds no command *)
(* or no pack is.  The skills of a source are copied before the next       *)
(* source is looked at, commands and packs when all sources are.           *)
PlanSkills(s) ==
    /\ pending = {}
    /\ cache' = Looked(Desired(config, lock, "skill", s))
    /\ Plan("skill", s, s \notin Wild /\ Found("skill", s) = {})
PlanCommands(s) == cache' = cache /\ Plan("command", s, Found("command", s) = {})
PlanPacks(s) == cache' = cache /\ Plan("mcp", s, Found("mcp", s) = {})
-----------------------------------------------------------------------------
(* The pending copies of a section, one target at a time and one asset     *)
(* after the other.  When the last target has its copy the entry goes into *)
(* the lock in memory.                                                     *)
Started == {c \in pending : ~c.repair /\ c.left # TargetsOf(c.asset.kind, agents)}
Turn(k, c, t) ==
    /\ phase = k /\ (k = "skill" \/ todo = {})
    /\ c \in IF Started = {} THEN pending ELSE Started
    /\ t = Min(c.left)
Ticked(c, t) == (pending \ {c}) \cup (IF c.left = {t} THEN {} ELSE {[c EXCEPT !.left = @ \ {t}]})
Record(c, t) ==
    IF c.left = {t}
    THEN WithEntry(lock, c.asset, [hash |-> c.hash, label |-> c.label, at |-> Recorded(c.asset.kind, agents)])
    ELSE lock
Copying == UNCHANGED <<world, lockFile, phase, run, todo, desired, failed, broken, answered, bound, calm>>

(* process_single_skill replaces whatever directory is there;              *)
(* process_locked_skill does so from a good copy, and leaves the lock.     *)
CopySkill(c, t) ==
    /\ Turn("skill", c, t)
    /\ disk' = [disk EXCEPT ![At(c.asset, t)] = c.hash]
    /\ cache' = [cache EXCEPT ![At(c.asset, t)] = c.hash]
    /\ pending' = Ticked(c, t)
    /\ lock' = IF c.repair THEN lock ELSE Record(c, t)
    /\ Copying

(* apply_pending_commands overwrites the file.                             *)
WriteCommand(c, t) ==
    /\ Turn("command", c, t)
    /\ disk' = [disk EXCEPT ![At(c.asset, t)] = c.hash]
    /\ pending' = Ticked(c, t)
    /\ lock' = Record(c, t)
    /\ cache' = cache
    /\ Copying

(* apply_pending_mcps merges: a server of that name is left alone.         *)
MergedOver(c, t) == c.hash                                              \* mutant
Merged(c, t) == IF disk[At(c.asset, t)] = Absent THEN c.hash ELSE disk[At(c.asset, t)]
MergePack(c, t) ==
    /\ Turn("mcp", c, t)
    /\ disk[At(c.asset, t)] # Torn
    /\ disk' = [disk EXCEPT ![At(c.asset, t)] = Merged(c, t)]
    /\ pending' = Ticked(c, t)
    /\ lock' = Record(c, t)
    /\ cache' = cache
    /\ Copying

(* A copy fails: the asset is given up, the targets already written stay   *)
(* written, and this one keeps what it had or is left torn.  A settings    *)
(* file that does not parse fails every merge.                             *)
Tear(p) == disk' = [q \in Place |->
    IF p.kind = "mcp" THEN (IF q.kind = "mcp" /\ q.target = p.target THEN Torn ELSE disk[q])
    ELSE IF q = p THEN Torn ELSE disk[q]]
InvalidateNot(p) == cache                                               \* mutant
Invalidate(p) == IF phase = "skill" THEN [cache EXCEPT ![p] = Absent] ELSE cache
CopyFails(c, t) ==
    /\ Turn(phase, c, t)
    /\ LET p == At(c.asset, t)
       IN /\ \/ phase = "mcp" /\ disk[p] = Torn /\ UNCHANGED <<disk, bound>>
             \/ /\ bound.faults > 0
                /\ bound' = [bound EXCEPT !.faults = @ - 1]
                /\ disk' = disk \/ Tear(p)
          /\ cache' = Invalidate(p)
    /\ failed' = TRUE
    /\ pending' = pending \ {c}
    /\ UNCHANGED <<world, lockFile, phase, run, lock, todo, desired, broken, answered, calm>>
-----------------------------------------------------------------------------
(* The prune of a section: every entry of its kind that is not desired     *)
(* loses what it recorded and leaves the lock.  It is skipped after a      *)
(* failure anywhere in the run; but a config without commands, or one      *)
(* without agents for its packs, is pruned to nothing at once.             *)
PrunesRegardless(k) == TRUE                                             \* mutant
Prunes(k) ==
    \/ k = "skill" /\ ~failed
    \/ k = "command" /\ (Listed(config, k) = {} \/ (agents # {} /\ ~failed))
    \/ k = "mcp" /\ (agents = {} \/ ~failed)
Stale(k) == IF Prunes(k) THEN {a \in DOMAIN lock : a.kind = k /\ a \notin desired} ELSE {}

Emptied(places) == [p \in Place |-> IF p \in places THEN Absent ELSE disk[p]]
RemoveStale(k, vacated) ==
    /\ phase = k /\ todo = {} /\ pending = {}
    /\ IF run.apply
       THEN disk' = Emptied(vacated) /\ lock' = Without(lock, Stale(k))
       ELSE UNCHANGED <<disk, lock>>
    /\ UNCHANGED <<world, lockFile, run, failed, broken, bound, calm>>

(* A skill loses the one directory its entry recorded, a command all its   *)
(* files, a pack its servers in the settings of the agents of the day.     *)
RecordedPlaces(as) == UNION {{At(a, t) : t \in lock[a].at} : a \in as}
ServerPlaces(as, among) ==
    UNION {{At(a, t) : t \in {u \in among : disk[At(a, u)] # Torn}} : a \in as}
PruneSkills == RemoveStale("skill", RecordedPlaces(Stale("skill"))) /\ Enter("command")
PruneCommands == RemoveStale("command", RecordedPlaces(Stale("command"))) /\ Enter("mcp")
PrunePacks ==
    /\ RemoveStale("mcp", ServerPlaces(Stale("mcp"), IF agents = {} THEN Target ELSE agents))
    /\ phase' = "save"
    /\ UNCHANGED <<cache, todo, pending, desired, answered>>

(* The run ends.  A preview writes nothing; an applying one saves its lock *)
(* whatever failed.                                                        *)
Rest == [p \in SkillPlace |-> Unread]
Forget ==
    /\ phase' = "idle" /\ run' = [mode |-> "plain", apply |-> FALSE]
    /\ lock' = EmptyLock /\ cache' = Rest
    /\ todo' = {} /\ pending' = {} /\ desired' = {} /\ answered' = {}
    /\ failed' = FALSE /\ broken' = FALSE

Finish ==
    /\ phase = "save"
    /\ lockFile' = IF run.apply THEN lock ELSE lockFile
    /\ calm' = IF ~run.apply THEN calm
               ELSE IF failed \/ broken THEN 0 ELSE Min({calm + 1, 2})
    /\ Forget
    /\ UNCHANGED <<world, disk, bound>>

(* The process dies, possibly inside a copy or while it writes the lock,   *)
(* which truncates the file first; an empty lock file reads as no lock.    *)
Crash ==
    /\ phase # "idle" /\ bound.faults > 0
    /\ bound' = [bound EXCEPT !.faults = @ - 1]
    /\ \/ UNCHANGED files
       \/ \E c \in pending, t \in Target : Turn(phase, c, t) /\ Tear(At(c.asset, t)) /\ UNCHANGED lockFile
       \/ phase = "save" /\ run.apply /\ lockFile' = EmptyLock /\ UNCHANGED disk
    /\ Forget
    /\ calm' = 0
    /\ UNCHANGED world
-----------------------------------------------------------------------------
(* The other verbs, each over a config or a lock no run is using.  An      *)
(* addition counts once for each list it touches.                          *)
Spend(n) == bound.changes >= n /\ phase = "idle" /\ calm' = 0
            /\ bound' = [bound EXCEPT !.changes = @ - n]
Changes == Spend(1)

(* agent_add: no list may have the source yet and, unless told not to, the *)
(* source must answer for it; then the config is written and, unless       *)
(* --no-sync, synced.  --locked needs --no-sync.                           *)
Provided(s) == IF Offered(s) = 0 THEN {} ELSE Name
SyncAfter(modes) ==
    \/ \E mode \in modes : StartSync(mode, TRUE)
    \/ UNCHANGED <<agents, label, upstream, files, phase, job>>

AgentAdd(s) ==
    /\ \E sel \in PlanAddEdits(s), verify \in BOOLEAN :
         /\ Spend(Cardinality(Edited(sel)))
         /\ MayInsert(config, s, sel)
         /\ verify => Verified(s, sel, Provided(s))
         /\ config' = Inserted(config, s, sel)
    /\ SyncAfter({"plain", "update"})

(* agent_remove: the source, or some names of it, leaves the lists.        *)
AgentRemove(s) ==
    /\ Changes
    /\ \E sel \in RemoveByKind(config, s) \cup RemoveWholeSource(config, s) :
         config' = Removed(config, s, sel)
    /\ SyncAfter({"plain", "update", "locked"})

(* agent_lock: the skills are resolved afresh and the lock rewritten, with *)
(* no copy made; of commands and packs only the labels are refreshed, to   *)
(* the last of the two sections that lists the source.  Any source that    *)
(* fails, or a listed skill that is missing, leaves the lock as it was.    *)
Rebuilt ==
    LET skills == UNION {IF s \in Wild
                         THEN (IF Offered(s) = 0 THEN {} ELSE [kind : {"skill"}, source : {s}, name : Name])
                         ELSE {a \in config : a.kind = "skill" /\ a.source = s}
                         : s \in Listed(config, "skill")}
        others == {a \in DOMAIN lockFile : a.kind # "skill"}
        relabelled == Listed(config, "mcp") \cup Listed(config, "command")
    IN [a \in skills \cup others |->
          IF a \in skills
          THEN [hash |-> <<a.source, Offered(a.source)>>, label |-> label[a.source],
                at |-> Recorded("skill", agents)]
          ELSE [lockFile[a] EXCEPT !.label = IF a.source \in relabelled THEN label[a.source] ELSE @]]
AgentLock ==
    /\ Changes
    /\ \A s \in Listed(config, "skill") \ Wild : Offered(s) # 0
    /\ lockFile' = Rebuilt
    /\ UNCHANGED <<world, disk, phase, job>>

(* agent_clean: everything the lock tracks is removed, the servers from    *)
(* the settings of every agent there is, and the lock is emptied.          *)
Removals ==
    LET packs == {a \in DOMAIN lockFile : a.kind = "mcp"}
    IN ServerPlaces(packs, Target)
         \cup UNION {{At(a, t) : t \in lockFile[a].at} : a \in DOMAIN lockFile \ packs}
AgentClean ==
    /\ Changes
    /\ disk' = Emptied(Removals)
    /\ lockFile' = EmptyLock
    /\ UNCHANGED <<world, phase, job>>

(* The outside: the user renames the pin of a source, names other agents,  *)
(* removes or replaces an installed file, adds an MCP server of his own;   *)
(* the source moves on, or drops the assets.                               *)
Repin == Changes /\ \E s \in Source, l \in Label : label' = [label EXCEPT ![s] = l]
                 /\ UNCHANGED <<config, agents, upstream, files, phase, job>>
Rename == Changes /\ agents' \in SUBSET Target
                  /\ UNCHANGED <<config, label, upstream, files, phase, job>>
UserEdit == Changes /\ \E p \in Place, c \in {Absent, User} :
                         /\ p.kind = "mcp" => c = User /\ disk[p] = Absent
                         /\ disk' = [disk EXCEPT ![p] = c]
                    /\ UNCHANGED <<world, lockFile, phase, job>>
Publish == Changes /\ \E s \in Source, r \in 0 .. MaxRev : upstream' = [upstream EXCEPT ![s] = r]
                   /\ UNCHANGED <<config, agents, label, files, phase, job>>

Outside == Repin \/ Rename \/ UserEdit \/ Publish
Verb == AgentLock \/ AgentClean \/ \E s \in Source : AgentAdd(s) \/ AgentRemove(s)
Section ==
    \/ \E s \in Source : PlanSkills(s) \/ PlanCommands(s) \/ PlanPacks(s)
    \/ \E c \in pending, t \in Target :
          CopySkill(c, t) \/ WriteCommand(c, t) \/ MergePack(c, t) \/ CopyFails(c, t)
    \/ PruneSkills \/ PruneCommands \/ PrunePacks
Next == Sync \/ Section \/ Finish \/ Crash \/ Verb \/ Outside
Spec == Init /\ [][Next]_vars
-----------------------------------------------------------------------------
CopyJob == [asset : Asset, hash : Hash, label : Label, repair : BOOLEAN,
            left : {some \in SUBSET Target : some # {}}]

(* Types of everything.                                                    *)
TypeOK ==
    /\ config \subseteq Asset /\ agents \subseteq Target
    /\ label \in [Source -> Label] /\ upstream \in [Source -> 0 .. MaxRev]
    /\ disk \in [Place -> Content] /\ IsLock(lockFile) /\ IsLock(lock)
    /\ phase \in Phase
    /\ run \in [mode : {"plain", "update", "locked"}, apply : BOOLEAN]
    /\ cache \in [SkillPlace -> Content \cup {Unread}]
    /\ todo \subseteq Source /\ desired \subseteq Asset /\ answered \subseteq Source
    /\ pending \subseteq CopyJob
    /\ failed \in BOOLEAN /\ broken \in BOOLEAN
    /\ bound \in [changes : 0 .. MaxChanges, faults : 0 .. MaxFaults] /\ calm \in 0 .. 2

(* HashCache: what a sync believes of a skill's directory is what is there *)
(* or less, through every copy that succeeds, fails or repairs; so a copy  *)
(* it repairs from is good and a skill it calls unchanged is.              *)
CacheNeverWrong == \A p \in SkillPlace : cache[p] \in {Unread, Absent, disk[p]}

(* Does the config ask for an asset that is, or may be, in the lock?       *)
Asked(a) == IF a.source \in Wild THEN a.source \in Listed(config, a.kind) ELSE a \in config
Rivals(a) == {b \in Asset : b # a /\ b.kind = a.kind /\ b.name = a.name /\ Asked(b)}

(* A preview leaves the installed files and the lock file as they are.     *)
PreviewWritesNothing == [][phase # "idle" /\ ~run.apply => UNCHANGED files]_vars

(* remove_stale: what the config asks for leaves the lock only when its    *)
(* source answered without it in this very run, whatever else failed; or,  *)
(* for a pack, when the config names no agent.                             *)
KeptWhileAsked ==
    [][phase' # "idle" => \A a \in DOMAIN lock \ DOMAIN lock' :
         Asked(a) => \/ a.source \in answered /\ Offered(a.source) = 0
                     \/ a.kind = "mcp" /\ agents = {}]_vars

(* Is an asset where the config's agents need it, as a lock says?          *)
Settled(a, l) ==
    /\ a.kind = "skill" => a \in DOMAIN l
    /\ a \in DOMAIN l => \A t \in TargetsOf(a.kind, agents) : Intact(a.kind, l[a].hash, disk[At(a, t)])
Alone(a) == a \in config /\ a.source \notin Wild /\ Rivals(a) = {}

(* After two clean applying syncs with nothing in between, whatever        *)
(* crashed, failed or was moved before, what a list of the config asks for *)
(* under a name no other source claims is installed for every agent as the *)
(* lock says, and a skill of it is tracked.                                *)
TwoCleanSyncsSettle ==
    phase = "idle" /\ calm = 2 => \A a \in config : Alone(a) => Settled(a, lockFile)

(* The inductive invariant behind it: a source is planned once in a        *)
(* section, and what is then kept is asked for (process_source); a clean   *)
(* sync rids the lock of strays, since its prunes are not skipped, so the  *)
(* prunes of the next one take nothing from what it has just installed.    *)
Behind(k) == phase = "save" \/ (phase = "mcp" /\ k # "mcp") \/ (phase = "command" /\ k = "skill")
PlannedOnce ==
    /\ \A c \in pending : /\ c.asset.source \notin todo
                          /\ \A d \in pending : d.asset = c.asset => d = c
    /\ phase \in Kind => /\ todo \subseteq Listed(config, phase)
                        /\ \A a \in desired : a.kind = phase /\ Asked(a)

Strays(l) == {a \in DOMAIN l : TargetsOf(a.kind, agents) # {} /\ ~Asked(a)}
NoStrays ==
    /\ calm >= 1 => Strays(lockFile) = {}
    /\ run.apply /\ ~failed => \A a \in Strays(lock) : calm = 0 /\ ~Behind(a.kind)

(* A copy half made has reached the targets it no longer has to reach.     *)
Underway(c) ==
    /\ c.repair => c.asset \in DOMAIN lock /\ lock[c.asset].hash = c.hash
    /\ \A t \in TargetsOf(c.asset.kind, agents) \ c.left :
         Intact(c.asset.kind, c.hash, disk[At(c.asset, t)])
InHand(a) ==
    \/ a.source \in todo
    \/ a \in desired /\ (Settled(a, lock) \/ \E c \in pending : c.asset = a)
SecondSync ==
    calm >= 1 /\ run.apply /\ ~failed /\ ~broken =>
        /\ \A a \in config : Alone(a) /\ Behind(a.kind) => Settled(a, lock)
        /\ \A a \in config : Alone(a) /\ a.kind = phase /\ TargetsOf(phase, agents) # {} => InHand(a)
        /\ \A c \in pending : Alone(c.asset) => Underway(c)

SettleInv ==
    /\ PlannedOnce /\ NoStrays /\ SecondSync
    /\ calm = 2 /\ (phase = "idle" \/ ~run.apply) => \A a \in config : Alone(a) => Settled(a, lockFile)

(* remove_mcp_server and merge_mcp_config: a server the user added himself *)
(* is lost only in a settings file torn by a write cut short, or under a   *)
(* name some tracked pack also provides.                                   *)
LostOnlyIfTracked ==
    [][\A p \in Place : p.kind = "mcp" /\ disk[p] = User /\ disk'[p] \notin {User, Torn} =>
         /\ disk'[p] = Absent
         /\ \E a \in DOMAIN lock \cup DOMAIN lockFile : a.kind = "mcp" /\ a.name = p.name]_vars
================================================================================
