------------------------------ MODULE AgentAssets ------------------------------
(***************************************************************************)
(* What envctl's agent-asset verbs decide with (crates/agent-env): the     *)
(* assets of a config, the entries of agent-env.lock, and for one source   *)
(* of one section the questions a sync asks before it touches the network. *)
(*                                                                         *)
(* An asset is a skill directory, a command file or an MCP pack.  Where it *)
(* is installed depends on its kind, its name and the agent, not on the    *)
(* source it came from: <dest>/<name>, <commands>/<name>.md, and the key   *)
(* <name> of a settings file.  A hash stands for the content hashed: which *)
(* source, which of its revisions.                                         *)
(***************************************************************************)
EXTENDS Integers, FiniteSetsExt

CONSTANTS
    Source,            \* the `source:` strings of a config
    Wild,              \* those whose entries are "*" and not a list of names
    Name,              \* the names of skills, commands and MCP servers
    Target,            \* the agents a config may name, in the config's order
    MaxRev             \* bound: how often the content of a source may change

ASSUME SourceAssumption == Wild \subseteq Source
ASSUME TargetAssumption ==          \* agents come in an order, and any of them in a first
    /\ Target \subseteq Nat /\ Target # {}
    /\ \A some \in SUBSET Target : some # {} => \E t \in some : \A u \in some : t <= u
ASSUME RevAssumption == MaxRev \in Nat \ {0}

Kind == {"skill", "command", "mcp"}
Asset == [kind : Kind, source : Source, name : Name]

(* Where something is installed, and what may be found there.  "torn" is   *)
(* what an interrupted or failed write leaves, "user" what the user put.   *)
Place == [kind : Kind, name : Name, target : Target]
At(a, t) == [kind |-> a.kind, name |-> a.name, target |-> t]
Absent == <<"absent", 0>>
Torn == <<"torn", 0>>
User == <<"user", 0>>
Hash == Source \X (1 .. MaxRev)
Content == Hash \cup {Absent, Torn, User}

(* The revision label of an entry: `branch:<b>`, which moves, or `ref:<r>`.*)
Label == {"branch", "ref"}

(* AgentLockEntry and AssetEntry: `at` is the recorded destination.        *)
Entry == [hash : Hash, label : Label, at : SUBSET Target]
IsLock(lock) == DOMAIN lock \subseteq Asset /\ \A a \in DOMAIN lock : lock[a] \in Entry
EmptyLock == [a \in {} |-> 0]
WithEntry(lock, a, e) == [b \in DOMAIN lock \cup {a} |-> IF b = a THEN e ELSE lock[b]]
Without(lock, gone) == [b \in DOMAIN lock \ gone |-> lock[b]]
Tracked(lock, k, s) == {a \in DOMAIN lock : a.kind = k /\ a.source = s}
-----------------------------------------------------------------------------
(* resolve_destinations: one skills directory per agent, or the explicit   *)
(* one when the config names no agent; the MCP and command targets are the *)
(* agents only.                                                            *)
Destinations(agents) == IF agents = {} THEN {Min(Target)} ELSE agents
TargetsOf(k, agents) == IF k = "skill" THEN Destinations(agents) ELSE agents

(* The destination a lock entry records: the first skills directory, every *)
(* command file, and for a pack no path but the names of its servers.      *)
Recorded(k, agents) ==
    IF k = "skill" THEN {Min(Destinations(agents))}
    ELSE IF k = "command" THEN agents ELSE {}

(* The sources a section of the config lists, and the assets it asks of    *)
(* one: a "*" asks for what the lock already holds of it.                  *)
Listed(config, k) == {s \in Source : \E a \in config : a.kind = k /\ a.source = s}
Desired(config, lock, k, s) ==
    IF s \in Wild THEN Tracked(lock, k, s)
    ELSE {a \in config : a.kind = k /\ a.source = s}

(* What a target must hold for an asset to count as installed there: a     *)
(* skill is compared by hash, a command file and a server by presence, and *)
(* a settings file that does not parse holds no server.                    *)
SkillThere(hash, content) == content = hash
CommandThere(content) == content # Absent
ServerThere(content) == content \notin {Absent, Torn}
Intact(k, hash, content) ==
    \/ k = "skill" /\ SkillThere(hash, content)
    \/ k = "command" /\ CommandThere(content)
    \/ k = "mcp" /\ ServerThere(content)

(* needs_fetch_{skills,commands,mcps}, over what the run sees of the disk: *)
(* a command or a pack that is missing anywhere is fetched, a skill only   *)
(* when no directory has a good copy to repair the others from.            *)
NoGoodCopy(a, e, agents, sees) ==
    \A t \in Destinations(agents) : ~SkillThere(e.hash, sees[At(a, t)])
CommandMissing(a, agents, sees) == \E t \in agents : ~CommandThere(sees[At(a, t)])
ServerMissing(a, agents, sees) == \E t \in agents : ~ServerThere(sees[At(a, t)])
Missing(a, e, agents, sees) ==
    \/ a.kind = "skill" /\ NoGoodCopy(a, e, agents, sees)
    \/ a.kind = "command" /\ CommandMissing(a, agents, sees)
    \/ a.kind = "mcp" /\ ServerMissing(a, agents, sees)
NeedsFetch(config, lock, label, agents, sees, k, s) ==
    \/ s \in Wild /\ Tracked(lock, k, s) = {}
    \/ \E a \in Desired(config, lock, k, s) :
         \/ a \notin DOMAIN lock
         \/ lock[a].label # label[s]
         \/ Missing(a, lock[a], agents, sees)

(* ensure_locked_satisfiable and its two siblings.                         *)
LockSatisfies(config, lock, k, s) ==
    IF s \in Wild THEN Tracked(lock, k, s) # {}
    ELSE Desired(config, lock, k, s) \subseteq DOMAIN lock

(* Is a fetched asset already there as fetched?  Neither the label of the  *)
(* entry nor its recorded destination is compared.                         *)
IsUnchangedUnlooked(lock, agents, sees, a, hash) == a \in DOMAIN lock /\ lock[a].hash = hash   \* mutant
IsUnchanged(lock, agents, sees, a, hash) ==
    /\ a \in DOMAIN lock
    /\ lock[a].hash = hash
    /\ \A t \in TargetsOf(a.kind, agents) : Intact(a.kind, hash, sees[At(a, t)])
================================================================================
