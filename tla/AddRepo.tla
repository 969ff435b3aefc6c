------------------------------- MODULE AddRepo -------------------------------
(***************************************************************************)
(* envctl add-repo on top of Wiring: the staged pipeline (addrepo.rs), the *)
(* links in ~/.local/bin (install.rs), the drop-in that makes the repo a   *)
(* component (register.rs) and the two hooks it carries, which rebuild and *)
(* remove it, plus the interactive session of --connect.                   *)
(*                                                                         *)
(* A commit is a pair of a repository and a number; a clone, a link and a  *)
(* drop-in remember which commit they are of.  What is compiled, the names *)
(* of artifacts and the wording of the drop-in are left out.               *)
(***************************************************************************)
EXTENDS Wiring

CONSTANTS
    Slug,              \* component ids of added repos: each names a clone and a drop-in
    Url,               \* repositories to add
    Name,              \* command names in ~/.local/bin
    Prefix,            \* pairs of slugs whose first is the beginning of the second
    MaxCommits         \* bound: commits a repository gains

AddRepoSpec ==
    [slug : Slug, url : Url, bins : (SUBSET Name) \ {{}}, ref : BOOLEAN, local : BOOLEAN,
     patch : BOOLEAN, build : BOOLEAN, force : BOOLEAN]
ASSUME AddScenesAssumption ==
    \A s \in Scenes : /\ s.shadowed \subseteq Name       \* names of system commands
                      /\ s.specs \subseteq AddRepoSpec
                      /\ s.calls \subseteq {"add", "connect", "rebuild", "reset"}
                      /\ \A c \in Slug : s.declares[c] \subseteq {"path"}     \* synth_dropin
ASSUME CommitsAssumption == MaxCommits \in Nat \ {0}

VARIABLES
    tip,               \* the newest commit of every repository
    clone,             \* the 0700 store: one clone per slug
    bin,               \* ~/.local/bin: the owner of every name
    dropin,            \* components.d: what is registered
    job,               \* what each process does for add-repo
    own,               \* history: the names the user has put a command of their own at
    saved,             \* history: the names whose command a .bak holds
    late,              \* history: the names taken over after they were looked at
    strange,           \* history: processes that built another repository than the one asked for
    adrift             \* history: processes whose rebuild went on after a failed fetch

addVars == <<tip, clone, bin, dropin, job, own, saved, late, strange, adrift>>
allVars == <<vars, addVars>>

Free == "free"
Foreign == "foreign"
ASSUME SlugAssumption ==
    /\ Slug \subseteq Component                         \* what is registered is a component
    /\ Slug \cap {Free, Foreign} = {}                   \* the two marks are no slugs
    /\ Prefix \subseteq Slug \X Slug
NoCommit == <<"none", 0>>
NoClone == [git |-> "none", origin |-> "none", branch |-> NoCommit, head |-> NoCommit,
            patched |-> FALSE, built |-> NoCommit]
NoDropin == [url |-> "none"]
NoSpec == [slug |-> "none", build |-> FALSE]
NoJob == [at |-> "idle", kind |-> "none", spec |-> NoSpec, todo |-> {}, got |-> {},
          sha |-> NoCommit, bad |-> FALSE]

Tip(u) == <<u, tip[u]>>
S(p) == job[p].spec
Clone(p) == clone[S(p).slug]
Registered(s) == dropin[s] # NoDropin
Preview(p) == job[p].kind = "add" /\ ~S(p).build       \* --dry-run, or no --build
Cloned(p) == Clone(p).git # "none"

AddInit ==
    /\ tip = [u \in Url |-> 1]
    /\ clone = [s \in Slug |-> NoClone]
    /\ bin = [n \in Name |-> Free]
    /\ dropin = [s \in Slug |-> NoDropin]
    /\ job = [p \in Proc |-> NoJob]
    /\ own = {} /\ saved = {} /\ late = {} /\ strange = {} /\ adrift = {}
-----------------------------------------------------------------------------
To(p, label) == job' = [job EXCEPT ![p].at = label] /\ Works
QuitHalfway(p) == job' = [job EXCEPT ![p].at = "idle"] /\ Works                  \* mutant
Quit(p) == job' = [job EXCEPT ![p] = NoJob] /\ Works          \* an error return, or the end
Breaks(p) == job' = [job EXCEPT ![p] = NoJob] /\ Fault        \* a command failed or was killed
Upd(p, c) == clone' = [clone EXCEPT ![S(p).slug] = c]
SameStore == UNCHANGED <<bin, dropin, saved, late, strange>>
In(p, label, kinds) == job[p].at = label /\ job[p].kind \in kinds

(* The four ways in.  add refuses an id its registry has; connect does not *)
(* ask the registry; the hooks belong to a registered component.           *)
Begins(p, kind, spec, label, todo) ==
    job' = [job EXCEPT ![p] = [NoJob EXCEPT !.at = label, !.kind = kind, !.spec = spec, !.todo = todo]]
Starts(p) ==
    /\ job[p].at = "idle" /\ me[p].at = "idle"
    /\ \E kind \in scene.calls :
          \/ \E spec \in scene.specs : /\ kind \in {"add", "connect"}
                                       /\ kind = "add" => ~Registered(spec.slug)
                                       /\ Begins(p, kind, spec, "acquire", {})
          \/ \E s \in Slug : /\ Registered(s)
                             /\ \/ kind = "rebuild" /\ Begins(p, kind, dropin[s], "acquire", dropin[s].bins)
                                \/ kind = "reset" /\ Begins(p, kind, dropin[s], "excise", dropin[s].targets)
    /\ Works
    /\ UNCHANGED clone /\ SameStore

(* acquire: a clone that is there is fetched into once its origin has been *)
(* compared, or taken as it is (--local); a killed clone leaves .git.      *)
FreshClone(p) ==
    [NoClone EXCEPT !.git = "whole", !.origin = S(p).url, !.branch = Tip(S(p).url),
                    !.head = Tip(S(p).url)]
CutClone(p) == [NoClone EXCEPT !.git = "cut", !.origin = S(p).url]
OriginUnasked(p) == TRUE                                                         \* mutant
OriginAsAsked(p) == S(p).local \/ Clone(p).origin = S(p).url
SkipAcquire(p) ==
    In(p, "acquire", {"add"}) /\ Preview(p) /\ To(p, "refactor") /\ UNCHANGED clone /\ SameStore
ReuseClone(p) ==
    /\ In(p, "acquire", {"add"}) /\ ~Preview(p) /\ Cloned(p)
    /\ IF OriginAsAsked(p) THEN To(p, "checkout") \/ Breaks(p) ELSE Quit(p)
    /\ UNCHANGED clone /\ SameStore
MakeClone(p) ==
    /\ In(p, "acquire", {"add"}) /\ ~Preview(p) /\ ~Cloned(p)
    /\ \/ Upd(p, FreshClone(p)) /\ To(p, "checkout")
       \/ (UNCHANGED clone \/ Upd(p, CutClone(p))) /\ Breaks(p)
    /\ SameStore

(* connect_agent: the same gate, no fetch, and a session of the user's.    *)
Connect(p) ==
    /\ In(p, "acquire", {"connect"})
    /\ \/ Cloned(p) /\ OriginAsAsked(p) /\ To(p, "session") /\ UNCHANGED clone
       \/ Cloned(p) /\ ~OriginAsAsked(p) /\ Quit(p) /\ UNCHANGED clone
       \/ ~Cloned(p) /\ Upd(p, FreshClone(p)) /\ To(p, "session")
       \/ ~Cloned(p) /\ (UNCHANGED clone \/ Upd(p, CutClone(p))) /\ Breaks(p)
    /\ SameStore

(* The agent's session in the clone: it edits, and commits nothing.        *)
Session(p) ==
    /\ In(p, "session", {"connect"})
    /\ IF Cloned(p) THEN Upd(p, [Clone(p) EXCEPT !.patched = TRUE]) ELSE UNCHANGED clone
    /\ Quit(p) /\ SameStore

(* git checkout of the ref asked for, which leaves a local branch where it *)
(* is, and rev-parse HEAD, which fails in a clone without a commit.        *)
OnBranch(c) ==
    LET at == IF c.branch = NoCommit THEN Tip(c.origin) ELSE c.branch
    IN  [c EXCEPT !.branch = at, !.head = at]
Checkout(p) ==
    /\ In(p, "checkout", {"add"})
    /\ \/ LET c == IF S(p).ref /\ Cloned(p) THEN OnBranch(Clone(p)) ELSE Clone(p)
          IN  /\ Upd(p, c)
              /\ job' = [job EXCEPT ![p].at = "refactor", ![p].sha = c.head] /\ Works
       \/ S(p).ref /\ Breaks(p) /\ UNCHANGED clone
    /\ SameStore

(* The rebuild hook: set-url or clone, then a fetch and a checkout of the  *)
(* ref, or of the recorded commit; an empty one leaves HEAD where it is.   *)
(* The `|| true` after set-url and the `&&` after the fetch shield both    *)
(* from set -e: the script goes on with the origin, or the HEAD, it has,   *)
(* also when its origin has no such commit.                                *)
Reached(p) == IF Cloned(p) THEN {Clone(p), [Clone(p) EXCEPT !.origin = S(p).url]} ELSE {FreshClone(p)}
Fetches(p, c) == S(p).ref \/ S(p).sha = NoCommit \/ S(p).sha[1] = c.origin
Pinned(p, c) ==
    IF S(p).ref THEN OnBranch(c) ELSE IF S(p).sha = NoCommit THEN c ELSE [c EXCEPT !.head = S(p).sha]
Checked(p, c, ok) ==
    /\ ok => Fetches(p, c)
    /\ Upd(p, IF ok THEN Pinned(p, c) ELSE c)
    /\ job' = [job EXCEPT ![p].at = "refactor"]
    /\ IF c.origin = S(p).url /\ ok = Fetches(p, c) THEN Works ELSE Fault
    /\ adrift' = IF c.origin = S(p).url /\ ok THEN adrift \ {p} ELSE adrift \cup {p}
HookCheckout(p) ==
    /\ In(p, "acquire", {"rebuild"})
    /\ \/ \E c \in Reached(p), ok \in BOOLEAN : Checked(p, c, ok)
       \/ /\ UNCHANGED clone \/ (\E c \in Reached(p) : Upd(p, c)) \/ (~Cloned(p) /\ Upd(p, CutClone(p)))
          /\ Breaks(p) /\ UNCHANGED adrift
    /\ SameStore

(* apply_refactor: a patch command, or an agent confined to the clone; a   *)
(* rebuild replays the patch.                                              *)
SkipsRefactor(p) == Preview(p) \/ ~S(p).patch
Refactor(p) ==
    /\ In(p, "refactor", {"add", "rebuild"})
    /\ \/ SkipsRefactor(p) /\ To(p, "detect") /\ UNCHANGED clone
       \/ ~SkipsRefactor(p) /\ Cloned(p) /\ Upd(p, [Clone(p) EXCEPT !.patched = TRUE])
                            /\ (To(p, "detect") \/ Breaks(p))
       \/ ~SkipsRefactor(p) /\ ~Cloned(p) /\ Quit(p) /\ UNCHANGED clone
    /\ SameStore

(* A build system is detected from files, unless a preview has no clone.   *)
Detects(p) == Clone(p).head # NoCommit
Detect(p) ==
    /\ In(p, "detect", {"add", "rebuild"})
    /\ IF Detects(p) \/ (Preview(p) /\ ~Cloned(p)) THEN To(p, "build") ELSE Quit(p)
    /\ UNCHANGED clone /\ SameStore

(* A preview ends where the build would run the repository's own commands. *)
Build(p) ==
    /\ In(p, "build", {"add", "rebuild"}) /\ ~Preview(p)
    /\ \/ /\ Cloned(p)
          /\ Upd(p, [Clone(p) EXCEPT !.built = Clone(p).head])
          /\ To(p, IF job[p].kind = "add" THEN "locate" ELSE "relink")
          /\ strange' = IF job[p].kind = "add" /\ ~S(p).local /\ Clone(p).head[1] # S(p).url
                        THEN strange \cup {p} ELSE strange
       \/ /\ IF Cloned(p) THEN Breaks(p) ELSE Quit(p)
          /\ UNCHANGED <<clone, strange>>
    /\ UNCHANGED <<bin, dropin, saved, late>>
EndPreview(p) ==
    In(p, "build", {"add"}) /\ Preview(p) /\ Quit(p) /\ UNCHANGED clone /\ SameStore

(* locate and shape_installs, then the registry again, freshly loaded.     *)
Located(p) == Clone(p).built # NoCommit
Chosen(p) == S(p).bins
Locate(p) ==
    /\ In(p, "locate", {"add"})
    /\ IF ~Located(p) \/ Registered(S(p).slug) THEN Quit(p)
       ELSE job' = [job EXCEPT ![p].at = "target", ![p].todo = Chosen(p)] /\ Works
    /\ UNCHANGED clone /\ SameStore
-----------------------------------------------------------------------------
NameOf(p) == CHOOSE n \in job[p].todo : TRUE
Owner(p, o) == bin' = [bin EXCEPT ![NameOf(p)] = o]
NextName(p, got, bad) ==
    job' = [job EXCEPT ![p].at = "target", ![p].todo = @ \ {NameOf(p)},
                       ![p].got = @ \cup got, ![p].bad = @ \/ bad]
ToLink(p) == job' = [job EXCEPT ![p].at = "link"]

(* install_artifact up to the link: a name that shadows a system command   *)
(* is refused, a link of this clone removed, a foreign file left alone     *)
(* unless --force, which moves it to a new .bak.                           *)
ManagedIfThere(p) == bin[NameOf(p)] # Free                                       \* mutant
Managed(p) == bin[NameOf(p)] = S(p).slug /\ Located(p)
Target(p) ==
    /\ In(p, "target", {"add"}) /\ job[p].todo # {}
    /\ LET n == NameOf(p) IN
       \/ /\ n \in scene.shadowed \/ ~Located(p)
          /\ NextName(p, {}, TRUE) /\ Works /\ UNCHANGED <<bin, saved>>
       \/ /\ n \notin scene.shadowed /\ Located(p)
          /\ \/ bin[n] = Free /\ ToLink(p) /\ Works /\ UNCHANGED <<bin, saved>>
             \/ Managed(p) /\ Owner(p, Free) /\ ToLink(p) /\ Works /\ UNCHANGED saved
             \/ /\ bin[n] # Free /\ ~Managed(p)
                /\ \/ ~S(p).force /\ NextName(p, {}, FALSE) /\ Works /\ UNCHANGED <<bin, saved>>
                   \/ /\ S(p).force /\ Owner(p, Free) /\ ToLink(p) /\ Works
                      /\ saved' = IF bin[n] = Foreign THEN saved \cup {n} ELSE saved
                   \/ S(p).force /\ NextName(p, {}, TRUE) /\ Fault /\ UNCHANGED <<bin, saved>>
    /\ UNCHANGED <<clone, dropin, late, strange>>

(* What has come to the name since is removed without a copy.              *)
Link(p) ==
    /\ In(p, "link", {"add"})
    /\ late' = IF bin[NameOf(p)] = Foreign THEN late \cup {NameOf(p)} ELSE late
    /\ \/ Owner(p, S(p).slug) /\ NextName(p, {NameOf(p)}, FALSE) /\ Works
       \/ Owner(p, Free) /\ NextName(p, {}, TRUE) /\ Fault
    /\ UNCHANGED <<clone, dropin, saved, strange>>

(* The PATH block, by way of wiring::apply and wiring::revert.             *)
Wire(p) ==
    /\ job[p].at \in {"target", "relink", "unwire"} /\ job[p].todo = {}
    /\ Enter(p, IF job[p].kind = "reset" THEN "revert" ELSE "apply", S(p).slug, <<"path">>, FALSE, FALSE)
    /\ job' = [job EXCEPT ![p].at = "wire"]
Resumed(p) == [job[p] EXCEPT !.at = "register", !.bad = @ \/ me[p].bad]
Wired(p) ==
    /\ job[p].at = "wire" /\ Return(p)
    /\ job' = [job EXCEPT ![p] = IF job[p].kind = "add" THEN Resumed(p) ELSE NoJob]

(* A failed or empty install registers nothing; else the drop-in replaces  *)
(* the old one in one rename.  It lists every name the strategy chose for  *)
(* the rebuild, those that were refused too.                               *)
Registers(p) == ~job[p].bad /\ job[p].got # {}
RegisterSpec(p) ==
    [field \in DOMAIN S(p) \cup {"sha", "targets"} |->
        IF field = "sha" THEN job[p].sha ELSE IF field = "targets" THEN job[p].got ELSE S(p)[field]]
WriteDropin(p) == dropin' = [dropin EXCEPT ![S(p).slug] = RegisterSpec(p)]
Register(p) ==
    /\ In(p, "register", {"add"})
    /\ \/ Registers(p) /\ WriteDropin(p) /\ Quit(p)
       \/ (IF Registers(p) THEN Breaks(p) ELSE Quit(p)) /\ UNCHANGED dropin
    /\ UNCHANGED <<clone, bin, saved, late, strange>>
-----------------------------------------------------------------------------
(* The rebuild's `ln -sfn` and the removal's excision by grep.             *)
Relink(p) ==
    /\ In(p, "relink", {"rebuild"}) /\ job[p].todo # {}
    /\ \/ /\ Owner(p, S(p).slug)
          /\ late' = IF bin[NameOf(p)] = Foreign THEN late \cup {NameOf(p)} ELSE late
          /\ job' = [job EXCEPT ![p].todo = @ \ {NameOf(p)}] /\ Works
       \/ Breaks(p) /\ UNCHANGED <<bin, late>>
    /\ UNCHANGED <<clone, dropin, saved, strange>>
Greps(p, s) == s = S(p).slug \/ <<S(p).slug, s>> \in Prefix
Excise(p) ==
    /\ In(p, "excise", {"reset"}) /\ job[p].todo # {}
    /\ IF Greps(p, bin[NameOf(p)]) THEN Owner(p, Free) ELSE UNCHANGED bin
    /\ job' = [job EXCEPT ![p].todo = @ \ {NameOf(p)}] /\ Works
    /\ UNCHANGED <<clone, dropin, saved, late, strange>>
DropClone(p) ==
    /\ In(p, "excise", {"reset"}) /\ job[p].todo = {}
    /\ Upd(p, NoClone) /\ To(p, "unwire") /\ SameStore

(* envctl killed, the user's own command, a new commit upstream.           *)
Killed(p) ==
    /\ job[p].at # "idle" /\ Fault
    /\ job' = [job EXCEPT ![p] = NoJob] /\ me' = [me EXCEPT ![p] = Idle]
UserCommand ==
    \E n \in UNION {spec.bins : spec \in scene.specs} \ own :
                          /\ bin[n] = Free
                          /\ bin' = [bin EXCEPT ![n] = Foreign]
                          /\ own' = own \cup {n}
                          /\ UNCHANGED <<tip, clone, dropin, job, saved, late, strange, adrift>>
Commits ==
    \E u \in {spec.url : spec \in scene.specs} :
                   /\ tip[u] < MaxCommits
                   /\ tip' = [tip EXCEPT ![u] = @ + 1]
                   /\ UNCHANGED <<clone, bin, dropin, job, own, saved, late, strange, adrift>>

Steady(p) ==
    \/ SkipAcquire(p) \/ ReuseClone(p) \/ MakeClone(p) \/ Connect(p) \/ Session(p) \/ Checkout(p)
    \/ Refactor(p) \/ Detect(p) \/ Build(p) \/ EndPreview(p) \/ Locate(p)
    \/ Target(p) \/ Link(p) \/ Register(p) \/ Relink(p) \/ Excise(p) \/ DropClone(p)
Stages(p) == HookCheckout(p) \/ (Steady(p) /\ UNCHANGED adrift)
StageStep(p) == Stages(p) /\ UNCHANGED <<scene, hostVars, me, histVars, runs, tip, own>>
StartStep(p) ==
    Starts(p) /\ NewRun /\ UNCHANGED <<scene, hostVars, me, histVars, tip, own, adrift>>
WireStep(p) ==
    /\ \/ Wire(p) /\ UNCHANGED <<hostVars, lost, faults>>
       \/ Wired(p)
    /\ UNCHANGED <<scene, wrote, blind, runs, tip, clone, own>> /\ UNCHANGED <<dropin, saved, late, strange, adrift, bin>>
WiringStep(p) ==
    /\ EditStep(p) \/ (job[p].at = "idle" /\ (CallStep(p) \/ EndStep(p)))
    /\ UNCHANGED addVars
KillStep(p) ==
    /\ Killed(p)
    /\ UNCHANGED <<scene, hostVars, histVars, runs, tip, clone, bin, dropin, own, saved, late, strange, adrift>>
Outside ==
    \/ UserWrites /\ UNCHANGED addVars
    \/ (UserCommand \/ Commits) /\ UNCHANGED vars

AddNext ==
    \/ \E p \in scene.crew : StageStep(p) \/ StartStep(p) \/ WireStep(p) \/ WiringStep(p) \/ KillStep(p)
    \/ Outside

HostInit == Init /\ AddInit
AddSpec == HostInit /\ [][AddNext]_allVars
-----------------------------------------------------------------------------
Commit == {NoCommit} \cup (Url \X (1 .. MaxCommits))
Stage == {"idle", "acquire", "checkout", "session", "refactor", "detect", "build", "locate",
          "target", "link", "wire", "register", "relink", "excise", "unwire"}
AddTypeOK ==
    /\ tip \in [Url -> 1 .. MaxCommits]
    /\ \A s \in Slug : /\ clone[s].git \in {"none", "cut", "whole"}
                       /\ {clone[s].branch, clone[s].head, clone[s].built} \subseteq Commit
                       /\ clone[s].git = "none" <=> clone[s] = NoClone
    /\ bin \in [Name -> Slug \cup {Free, Foreign}]
    /\ \A p \in Proc : /\ job[p].at \in Stage
                       /\ job[p].at = "idle" <=> job[p] = NoJob
                       /\ job[p].todo \subseteq Name /\ job[p].got \subseteq Name
                       /\ job[p].at \notin {"idle", "wire"} => me[p] = Idle

(* "a foreign file/symlink is reported + skipped unless `force`, and force *)
(* backs it up" (install.rs:7-9): a command the user has put into          *)
(* ~/.local/bin stays there or is in a .bak, through adds, removals,       *)
(* crashes and other processes - except one that appeared between the look *)
(* and the link, and except by a rebuild, whose ln -sfn asks nobody.       *)
ForeignKept == \A n \in own \ late : bin[n] = Foreign \/ n \in saved

(* "verifies the origin URL on clone reuse" (addrepo.rs:10): the pipeline  *)
(* runs no build commands but those of the repository it was given, also   *)
(* when a session, a cut clone or a removed component left the slug's      *)
(* clone behind (one process at a time; --local compares nothing).         *)
NoForeignBuild == Solo => strange = {}

(* "SHA-pinned rebuild-from-source" (register.rs:3): a rebuild without a   *)
(* ref builds the commit the drop-in recorded, whatever has happened to    *)
(* the clone and upstream since, when set-url and the fetch go through;    *)
(* after a failed one the script builds the HEAD it finds.                 *)
RebuildsRecorded ==
    Solo => \A p \in Proc \ adrift :
        In(p, "relink", {"rebuild"}) /\ ~S(p).ref /\ S(p).sha # NoCommit => Clone(p).built = S(p).sha

(* "no half-installed component persisted" (executor::add_repo): what is   *)
(* registered has a link of its own clone in ~/.local/bin.                 *)
RegisteredHasALink ==
    [][Solo => \A s \in Slug : dropin'[s] # dropin[s] => \E n \in dropin'[s].targets : bin[n] = s]_allVars

(* "a bare add-repo is acquire+detect+PREVIEW" (addrepo.rs:9): no step of  *)
(* one changes a clone, a link, a drop-in or a wired file.                 *)
PreviewTouchesNothing ==
    [][\A p \in Proc : Preview(p) /\ job'[p] # job[p] => UNCHANGED <<clone, bin, dropin, file>>]_allVars

(* Everything has its type, that of Wiring included.                       *)
AllTypesOK == TypeOK /\ AddTypeOK

(* What the user has on the host outlives envctl: the lines of his files   *)
(* and his own commands are in place or in a copy (wiring.rs, install.rs). *)
UserKept == UserTextKept /\ ForeignKept

(* The repository, and the commit, that is built is the one asked for,     *)
(* through every reuse of a clone (addrepo.rs, register.rs).               *)
BuildsAsAsked == NoForeignBuild /\ RebuildsRecorded

(* No step goes beyond its mandate: an excision takes envctl's lines, a    *)
(* registration follows its link, and a preview changes nothing.           *)
NoStepOversteps == ExcisesOnlyItsOwn /\ RegisteredHasALink /\ PreviewTouchesNothing
=============================================================================
