# Models and proofs of envctl

This directory models the stateful core of this repository in TLA+, checks the
models with TLC on small instances, and proves the results that matter most with
TLAPS for every value of the constants. Line numbers are those of the sources as
they stand; `lib.rs` alone means `crates/secrets-engine/src/lib.rs`.

The repository holds two programs that share a workspace:

* **the secrets side** - `secretd`, a daemon around `secrets-engine`: an encrypted
  vault with a resident key (the DEK), a hash-chained audit log with a keyed anchor,
  a local CA, and a relay broker and proxy that swap short-lived bearers for real API
  keys;
* **envctl** - an installer that runs detect/install/verify/fix/remove hooks over a
  dependency graph of components, wires them into the user's files, adds repositories
  of its own, syncs agent assets, and has a desktop window.

## 1. Inventory

| Part | State it keeps | Operations | What is hard | What makes it correct | Module |
|---|---|---|---|---|---|
| Audit log and anchor (`lib.rs:2040-2302`, `audit.rs`) | durable rows; `META_AUDIT_HIGH_WATER` and `META_AUDIT_HEAD` | `audit`, `advance_audit_anchor_if_unlocked`, `write_audit_anchor`, `verify_audit_anchor_with` | every call appends and advances under a *shared* guard; two meta writes that a crash separates; rows appended while nobody can sign | a vault opens only on a log that holds all that was sealed; an honest log is always admitted; the anchor moves only under a live DEK | `AuditLedger`, `AuditAnchor` |
| Resident vault and CA issuer (`lib.rs:361-779, 1706-1889`, `ca.rs`) | `RwLock<Vault>`, `RwLock<Option<LocalCa>>`; sealed CA key and certificate | `unlock`, `lock`, `secret_put`, `secret_get`, `ca_init`, `issue_leaf_for_covered_host` | two locks taken by eight calls, released and taken again inside one call; a panic stop that must complete | nothing is sealed under a dropped DEK; `lock()` completes and takes the issuer with it; no certificate without its key | `VaultSession` |
| Daemon mirror (`secretd/src/grpc.rs:442-476`) | `unlocked` flag | `unlock`, `lock_now`, `status` | set after the engine call has returned | Status agrees with the vault at rest | `VaultSession` |
| Stores (`vault/store.rs`, `secrets-store-libsql/src`) | meta keys, keyslots, secret rows, audit rows | each statement, a retry after a lost stream | answers lost after a commit; two daemons on one server | what returned Ok is logged and stored once | `SecretStore`, `RemoteVault` |
| Vault creation and keyslots (`lib.rs:239-486`, `keyslot.rs`) | header MAC, slots, floor, generation | `init_vault`, `unlock`'s probe | five writes, a crash or a second init between them | who holds a DEK opens every secret | `RemoteVault` |
| Relay broker (`lib.rs:792-1304, 1311-1583`, `broker/`) | policy and bearer rows | `relay_mint`, `relay_revoke`, `relay_revoke_bearer`, `relay_swap` | a revocation flips rows one at a time while bearers are minted and swapped | a bearer whose revocation has returned is never sent; the key opens only under a live DEK | `RelayBroker` |
| Relay limits (`broker/decide.rs`, `broker/mod.rs:201-240`, `broker/policy.rs:95-108`) | counters in RAM; issue times; two clocks | `clamp_ttl`, `Broker::bump`, `decide` | wall clock stepped, machine rebooted, daemon restarted | no use past the granted lifetime or the budget | `RelayLimits` |
| Presence gate (`lib.rs:1580-1640`, `broker/gate.rs`) | the last answer and its time | `presence_proven`, `resolve` | slow probes that overlap | presence is answered for a factor seen recently | `PresenceGate` |
| Egress proxy (`secretd/src/proxy.rs`) | one connection per child | CONNECT, leaf, tunnel, plain requests | coverage, leaf and swap are three engine calls; children hang up | a key leaves only for its provider's hosts; no TLS is ended for an uncovered host | `RelayProxy` |
| Daemon life (`secretd/src/main.rs`, `server.rs`) | the socket path | start, probe, reap, bind, drain, leave | two daemons; kills | who serves is reached under the path | `Secretd` |
| Registry and graph (`engine/src/model.rs`, `graph.rs`) | requirements, order | `load`, `topo_sort`, `closure`, `reverse_dependents`, reports | cycles, unknown and duplicate edges | the order is topological exactly when there is one; the reports agree | `Registry` |
| Executor (`engine/src/executor.rs`, `error.rs`, `guard.rs`) | rosters of one run; what is on the host | `run` of install, fix and remove plans | closures and reverse dependents; gates that refuse, fold or let through; hooks that half work | prerequisites first, dependents first in a reset, only what was asked, no silent leftovers, no guard overrun | `Executor`, `Guards` |
| Process runner (`engine/src/runner.rs`, `detect.rs`) | a hook, its processes and pipes | spawn, read, poll, kill, join | processes that outlive the hook; the deadline against the exit | an Ok is the hook's own; a timeout leaves nothing of its group that the kill could signal; no output lost | `HookRunner`, `EnvRun` |
| Wiring (`engine/src/wiring.rs`) | shell rc, units, sources, keys, nix, cdi, alternatives | `apply`, `revert` | separate reads, copies and writes of files that others edit; commands that fail half way | the user's lines survive; reports of success are true but for what is passed over | `Wiring` |
| add-repo (`addrepo.rs`, `install.rs`, `register.rs`) | clones, links, drop-ins | preview, add, connect, rebuild, reset | leftovers of killed or other runs are reused | only what was asked for is built; foreign commands are kept | `AddRepo` |
| Agent assets (`agent-env/src`, `engine/src/agent`) | config, lock, installed files | sync, locked, update, add, remove, clean | interrupted and failing copies; a prune after a partial failure | two clean syncs repair everything; nothing asked for is lost | `AgentAssets`, `AgentConfig`, `AgentSync` |
| Desktop (`gui/src/main.rs`, `engine/src/command.rs`) | rows, busy marks, order channel, sampler | frames, buttons, worker, sampler | events that arrive after later orders; lost wake-ups | every busy row comes back; the rows show the host; closing ends the sampler | `Desktop` |
| Tokens, crypto, provider mint, child injection, remote clients, transport, CLIs | none, or not reached by the daemon | - | - | unit tests | not modelled (section 8) |

Interactions. Every `secretd` RPC and every proxied request runs its engine call on a
blocking thread of its own, so the engine's calls interleave at each store call and each
lock. Every engine call ends in `audit`: audit rows are the state all parts of the secrets
side share, the vault's `RwLock` their only mutual exclusion. The proxy calls
`issue_leaf_for_covered_host` and then `relay_swap`. On the other side the window talks to
one worker over a channel, the worker runs the engine's loop, the loop runs hooks through
the runner and wiring through `wiring.rs`; the host is shared with everybody, other envctl
processes included, and nothing locks it.

## 2. Order of the work

What a wrong answer costs most came first, then what composes with it: the anchor and
its refinement; the vault; the broker, its limits and its gate; the store under the vault;
the daemon and proxy around the broker; on the installer's side the executor over its
registry and runner; agent assets; wiring and add-repo; the window. Each composition
EXTENDS what it composes (`Secretd` > `RelayProxy` > `RelayBroker`; `PresenceGate` >
`RelayLimits`; `RemoteVault` > `SecretStore`; `EnvRun` > `Executor` > `Registry`, `Guards`,
and `HookRunner`; `AddRepo` > `Wiring`; `AgentSync` > `AgentConfig` > `AgentAssets`).

Left for later: several relays at once; two envctl processes in `AgentSync`; the composition of `AuditAnchor` with `RemoteVault`'s
lossy store.

## 3. Modules and how they correspond to the code

On the secrets side `pc[t]` is where the call on thread `t` is, a label names the *next*
step, and one step runs from one store call or lock operation to the next. Guards held
over several steps are functions of `pc` (`HoldsRead`, `WriteHeld`, ...). `Crash` clears what
is in memory and every `pc`; `StoreFails` is the `?` after a store call and drops all guards.
Variables marked *history* only remember what properties need. Definitions whose line ends
in `\* mutant` are altered forms of the definition they precede, kept to show that a
property can fail; no specification uses them.

**`AuditLedger`** - the promise: `Record` appends, `Seal` (vault open) commits to a prefix
and never moves back, `Open` needs the sealed row in place, `Close`, and `Lose` (a tail of
rows disappears while locked).

**`AuditAnchor`** - `log`, `hw`, `head` are the durable rows and the two meta keys. A row is
named by its hash; since a hash covers the one before it, holding a row at its place is
holding its prefix. The keyed MAC is the pair it commits to. `AppendRow` is `append_audit`;
`ReadTail`, `ReadHighWater`, `PutHighWater`, `PutHead` are the store calls of an advance,
under the read guard; `VerifyHead`, `VerifyHw`, `Decide` those of the verification;
`AdmitUnlock` and `CommitUnlock` append `vault_unlocked` before the DEK is committed and
advance again after it; `RefuseUnlock` audits a failed attempt. `DebugAsserts` chooses the
build. `fence` and `lone` are history: the furthest tail a completed
advance signed, and the thread whose running advance no other has overlapped.

**`VaultSession`** - `vault`, `ca`, `flag` are memory, `keyGen` and `certGen` the sealed CA key
row and the certificate meta key. A reader queues behind a waiting writer (`CanRead`), as in
the standard library, which is what makes the nested read of `RefuseLocked`/`NestedAdvance`
dangerous. `Audit`/`Advance`/`AdvanceReturns` is the audit at the end of each call as far as
the locks go; `SetCa` ends both builders of the issuer.

**`SecretStore`** - the store as the in-memory backend keeps it, one atomic operation per
statement. **`RemoteVault`** - `init_vault`, `unlock`, `secret_put`, `secret_get`, `lock` over a
libSQL server: `Send` is a statement, which the server applies or not, whose answer may be
lost, and which is sent once more when its stream is gone; `home` places threads in one
daemon or two over the same tables. A DEK is named by the `init` that made it.

**`RelayBroker`** - one relay, its policy row and bearer rows. `StartMint`, `SavePolicy`,
`SaveBearer`; `StartRevoke`, `LoadPolicy`, `FlipPolicy`, `ListRows`, `Reseal`/`PutRow` for each
row in any order; `StartSwap`, `ReadRow`, `Decide`, `OpenKey`, `Sent`, `SwapReturns`, and
`HangUp`, the dropped future of a client that went away. `dead` and `doomed` are history: the
bearers covered by a revocation that has returned Ok, and the swaps that began with one.

**`RelayLimits`** - `time` is real time, `Wall` and `Uptime` what the program sees. `Mint` fixes
the lifetime in whole seconds of a millisecond clock; `ReadClocks` and `Decide` are the two
ends of `relay_swap_prepare`; `Verdict` is `decide()` in the order of its checks.
**`PresenceGate`** adds the cached answer of the network factor: `AskCache` reads clock and
cache, `Resolve` probes, `KeepAnswer` refills with the time read *before* the probe.

**`RelayProxy`** - a connection of a child: `Accept`, `Connect` (the unlocked check),
`IssueLeaf` (coverage and leaf), `Request`, the swap of the broker with its scope
(`InScope`: hosts, provider, TLS and tunnel), `UpstreamAnswers`. `granted` and `barred` are
history. **`Secretd`** - the processes that start, bind, drain, leave or are killed over one
socket path; `Home` is the one whose engine is modelled.

**`Registry`** - components are numbered in the order of their ids; `Sorted` is Kahn's
algorithm as `topo_sort` runs it, a fold of one turn per component, `Closure`, `ReverseDependents`, and the graph report. Edges
are sets: duplicate requirements are the same edge. **`Guards`** - the facts `blkid` and
`findmnt` give, when the run begins and again at the check, and what each guard makes of
them. **`Executor`** - `plan` is the command, `detect` what each component's detect hook would
answer; `PlanForward`, `PlanRemove`, `RefuseRemove` are the code before the loop; `Block`,
`SkipStep`, `RefuseStep`, `DryStep`, `HookFails`, `HookActs` its steps, each with the wiring
and re-verification that belong to it. **`HookRunner`** - one hook step by step, the processes
it forks in and out of its group, their copies of the pipes, two readers, the polling thread.
`wait_timeout` is taken apart where it can be interrupted: `Expire` is the `try_wait` that found the
hook running at the deadline, `KillGroup` and `KillChild` the two kills, either of which may miss
what it should signal, `Reap` the wait; the hook may end between any two, and `spared` remembers
whom the group's kill could not signal.
**`EnvRun`** runs the detect hook of one component that way before a plan is chosen.

**`AgentAssets`** - assets, places and what a place holds, torn and foreign content included.
**`AgentConfig`** - the edits `add` and `remove` make to the lists of the config, entry by entry.
**`AgentSync`** - a sync section by section: `PlanSkills`/`PlanCommands`/`PlanPacks` per source
with the fetch it may need, copies one by one, the prune, the save at the end; `Crash` and
failing copies anywhere; the verbs, and what the user and the sources do between runs.

**`Wiring`** - a process works through the pieces its component declares, in the code's
order; `CheckX`, `Save`, and the edit are separate steps. A file is a sequence of lines: the
user's, envctl's, and what a torn write leaves. A read may fail: `ReadBlock` then leaves the rc file
and says nothing, `CheckBlock` takes it for an empty one and appends, and `blind` remembers the
markers that were appended over a block nobody read. **`AddRepo`** - the stages of the pipeline, the
clone, links and drop-in, and `rebuild` and `reset` through the hooks the drop-in carries.
`HookCheckout` is the generated script up to its `cd`: a `set-url` that fails is shielded by
`|| true` and a `fetch` by the `&&` behind it, so in spite of `set -e` the script goes on with what
it has; `adrift` remembers the rebuilds that did.

**`Desktop`** - `Repaint` drains all events, draws and stores the cadence, `EndFrame` bumps the
generation; `Take` and the run steps are the worker, with the forwarder folded into its
queue of events; `SampleNow`, `ReadCadence`, `Wake` the sampler.

## 4. Runs

A bound limits only what may *begin* (a call, a fault, a change by the user); what has begun
always runs to its end, so no run ends in the middle of a call. Deadlock is checked except where
the table says that the system stops by design.

| Run | Instance | What it shows |
|---|---|---|
| `MCAuditAnchorCallers` | one or two callers, 5 rows, release build, crashes, failing store calls, lost trailing rows | for any callers, an advance that no other overlaps heals the anchor, and the anchor moves only under a live DEK; with a lone caller the vault opens only on all that was sealed and `AuditLedger` is implemented |
| `MCAuditAnchorRefused` (violation) | two callers, 4 rows, no fault | overlapping advances leave an anchor an honest log fails |
| `MCVaultSessionShared` | two callers, all six operations, 4 calls, crash and failing store calls, fair | what section 5 proves, the issuer and the Status mirror while calls do not overlap, and that a `lock()` completes unless a refused leaf audits under its own guard |
| `MCVaultSessionDeadlock` (violation) | `lock` and a leaf, 2 calls, no fault; deadlock not checked, being what the property is about | the panic stop that never returns |
| `MCVaultSessionIssuer` (violation) | `unlock` and `lock`, 3 calls, no fault | an issuer in a locked vault |
| `MCRelayBrokerShared` | two threads, two bearers, two processes, two hosts, two policies, six calls and starts together, crash, failing store calls, a presence factor that comes and goes | revocation, where the key may go, TLS only for covered hosts, the socket, and the refinement of the broker |
| `MCRelayLimitsShared` | three settings: two overlapping swaps with clock steps, restarts and reboots; six swaps in a row under true clocks; three presence questions with restarts. A second is 2 ticks, the window 3, time ends at 6 | expiry, budgets, two windows' worth, recency of presence |
| `MCExecutorRun` | every registry of three components with any requirements, cycles and unknown names included; every host, scope, gate and detect answer; one detect hook process by process | order, guards, what a reset leaves and reports, the runner's verdicts |
| `MCAgentSyncRuns` | two sources, one by wildcard, one name, two agents, two revisions, none or one MCP server that the user had before, three changes by the user or the sources, one fault | the lock and the settings lose nothing they should keep, the hash cache never speaks for content that is not there, two clean syncs settle |
| `MCRemoteVaultServer` | two threads in one daemon or two, one secret name, six calls, crash, lost answers, expired streams | one row per Ok, one key for all secrets, the refinement of the store |
| `MCDesktopWindow` | a chain of two components, two pressed buttons, fair; deadlock not checked: the window closes | `RowsAreHonest`: a busy row has work coming, and when all is quiet the rows show the host; `SleepsSafely`: no wake-up of the sampler is lost; every busy row comes back; closing ends the sampler |
| `MCAddRepoHost` | nine hosts: five of wiring, four of repositories; one process or two, three runs, up to two faults, two commits; deadlock not checked: the runs end | the user's text and foreign commands survive, reports are true but for what the code passes over, only what was asked for is built while the rebuild's fetch goes through |

A run's properties are conjunctions of named parts where several facts share one instance
(`RestAgrees`, `ReportsAreTrue`, `RunKeepsToPlan`, ...): the definitions say what each part is.
The type invariants of the modules whose run does not list one are proved (section 5). Every
property of a passing run has a mutant in `PROJECT.json`, an altered definition under which
TLC finds that property violated.

**Why these bounds are enough to mean something.** Each hazard needs a fixed number of
actors and steps to go wrong, and the run gives it one more: a stale advance needs two callers
and two rows; a lost panic stop two calls; a revocation missed by a swap one of each and a
mint; a key mixed in from another `init` two daemons and a crash between two writes; an unsafe
excision two components that share a block and one torn write. The mutants named in
`PROJECT.json` are such errors, and each is found under the run's own bounds. Symmetry is
declared over threads, bearers and daemons, in runs that check no liveness. A `VIEW`
leaves out of two runs what no later step reads: that of `MCExecutor` the targets of an install or
a fix once its order is made; that of
`MCSecretd` drops the locals of idle threads only: `StartX` sets them before any step reads
them. `MCAddRepo` sets `Prefix` empty: no repository slug is the beginning of another's (section 6
says what happens then).

**Fairness** is stated in two modules. `VaultSession!FairSpec` gives every thread weak fairness
of its own next step: the engine runs on `spawn_blocking` threads that nobody cancels, each
store call returns, and a lock is granted once it is free and no writer waits in front. A call
has to end, none has to begin. `Desktop!DesktopSpec` gives weak fairness to the frame that was asked
for (eframe draws it), to the worker and to the sampler, threads that the operating system
schedules; the user need never press anything. `HookRunner` assumes none: a hook need not end.

## 5. What is proved

The proofs hold for every value of the constants under the `ASSUME`s of the modules (finite or
non-empty sets, positive periods, a policy of the right shape), and TLC evaluates those
assumptions in every run. Each invariant is proved from an inductive strengthening by one
step per action.

* **`AuditAnchorProofs`** - `TypeCorrect`, `AnchorNeverMovesLocked`, `LoneAdvanceHeals`: for any
  callers, an advance that no other overlaps leaves a pair that verifies, because from a passed
  verification to the next lock the high-water stays within the log, and nothing is stored past
  the row of an advance that runs alone. What it cannot heal is a
  pair that is already broken when the vault is locked, by an overlap (section 6) or by a death of
  the daemon between the two writes: then no advance runs any more. With one
  thread in the engine, `SoloCorrect`: the stored pair is either the last sealed row or the
  thread is between the two writes of an advance and its copies are fresh; from it
  `HighWaterSigned`, `OpensOnSealedLog`, `HighWaterMonotone`, and `AnchorRefinesLedger`, where a
  seal is the step that stores the MAC and every other step of an advance stutters.
* **`VaultSessionProofs`** - `TypeCorrect`; `VaultCorrect`, whose strengthening says that a thread
  past its vault check holds the guard that keeps the DEK and that the key row is written
  before the certificate; `CertNeverAlone` and `SealsUnderLiveDek` follow. `RestIsOfOnePiece`, from
  `AloneInv`: as long as calls have not overlapped, at most one thread is under way, and what
  it still has to do accounts for every difference between vault, issuer, CA rows and flag.
* **`RelayLimitsProofs`** - `BudgetKept`: the counters have counted whatever was allowed, because
  they are bumped before the decision reads them; `ExpiryKept`, from an invariant that the row's
  lifetime ends no later than the granted one by either clock that was not set back, and that a
  running swap read both clocks at one moment; `LimitsOverGate`, the gate's steps are stutters of
  the limits; `PresenceRecent`, since what the gate keeps is dated by when its probe began;
  `TwoWindowsAtMost`, from `RateInv`: with one caller and true clocks, all swaps but as many as the
  current window has counted went out before it began, and all but one more window's worth a whole
  window earlier. The proof showed that the promise has to say "none" at a rate of 0 (`PerWindow`).
* **`SecretdProofs`** - of the broker, `TypeCorrect` and `RevokeCorrect`: of a policy that has been flipped no
  live row remains outside the list a revocation still has to work off, and no doomed swap
  holds a live row; `NeverSentOnceRevoked` and `KeyOpensUnlocked` follow. Of the daemon,
  `DaemonIsBroker`: every step of the daemon, its proxy, its starts, exits and
  kills is a step or a stutter of `RelayBroker`, so `DaemonNeverSendsRevoked` is the broker's
  theorem and not a second proof; `KeyGoesToItsProvider`, from the invariant that an allowed
  swap's scope was within the policy when it was decided; `NoLeafForTheBarred`, from `LeafInv`:
  an open vault bars nobody for being locked, a policy that covers the host bars nobody for the
  want of one, and a connection past its checks is barred by nothing; `TheServerIsReachable`, from
  `SocketInv`: while nobody raced, a process that clears or leaves the path does so when no
  other listens; `DaemonTypes`.
* **`RemoteVaultProofs`** - `TypeCorrect`; `OkIsAudited`, `PutsOnce` and with them `OkDurable`, from an invariant that ties
  each statement under way to whether the server has applied it; `ImplementsStore`: the
  application at the server is the abstract step, and sending, losing and repeating stutter;
  `SecretsReadable` and `InitOpens`, from `KeysInv`: while no two inits wrote at once, the MAC
  commits to slots that are there, whoever holds a DEK holds the MAC's, secrets are
  sealed under it, and a writing init knows how far its header has come.
* **`ExecutorProofs`** (over `Registry` and `EnvRun`) - `GraphReported`: Kahn's loop, followed turn by
  turn, never takes a component before what it requires or twice, and what it leaves over is a
  ring or has an edge to nowhere; on an accepted order the recursive definitions have values
  (`Recursion`), the paths to a component run through exactly its closure, and `analyze`, followed
  component by component, keeps a longest path of each. `RunKeeps`, from `RestIsFed` - in what the
  loop has still to take, each component comes after its prerequisites, or in a reset after all
  that was live and needs it, as far as these are not behind it - and from `TakesAsked`: what is
  passed and what is left together are within what was asked. `EnvTypes`. `LeftReported` and
  `OkResetIsClean`: the component the loop has passed is
  undetected or on a roster; `GuardsAreKept`; `LoopOverRunner`, the loop over the process runner
  refines the loop, and so `EnvResetIsHonest`; `HookIsAccounted`, from `HookInv`, which says of one hook
  that a timeout leaves no process of its group but those the kill could not signal and what they
  forked since, that everything written is read, that Ok is answered for an exit with zero only, and
  that a hook which was killed is reported as nothing but timed out. `HookInv` follows the poller: it is past
  the group's kill only with a group that is empty or has a spared member, and past the wait only
  without a hook.
* **`EnvctlProofs`** (over `AddRepo`, `Wiring` and `Desktop`, which share its lemmas on numbers and
  folds) - `HostTypesHold`; `UserIsKept`: whoever is about to overwrite a file holds what is in it or has its copy, so no line of the user's is lost to a crash, an error
  or a second process; `BuildsAreAsked`: a clone that nobody registered holds only commits of its
  origin, hooks belong to components that were registered, and an add works on a clone of the
  repository it was asked for and owns its links; a rebuild builds the recorded commit unless it is
  one of `adrift`, whose `set-url` or fetch failed; `StepsKeepMandate`, from `BlocksInv`: as long as
  one envctl has written a text it is orderly for every marker outside `blind` - no block begins twice, and an END stands right
  behind a BEGIN and its body, however many writes were torn - so an excision takes just its
  three lines. `ReportsHold`, from `ReportInv`: of one envctl at a time, each kind of line stays in
  its own files, also in a text read to be written back; every piece that a process is through with
  and that did not fail is in place after the step of an apply, and gone after the step of a revert;
  a key is written before its list and taken out after it, so a list is never left without its key.
  A piece the code passes over without a word - an rc file it could not read among them - is mute and
  promises nothing.
  `Outcome` sorts the steps of every edit once - it fails, dies, is done, goes on or reads - and
  the three parts follow from it. Folds over the lines are reasoned about by induction over their length, in
  lemmas of their own. Assumed are that slugs name components and
  are not the marks of a free or a foreign name (`SlugAssumption`), that a repository has a
  commit (`CommitsAssumption`), that a manifest declares a key exactly where it declares a list
  (`ScenesAssumption`; an `AptRepo` in `model.rs` is a pair of both), and that a registered
  repository declares nothing but its path (`AddScenesAssumption`; `synth_dropin` in `register.rs`
  writes `path_entries` and no other wiring). Of the desktop, `WindowTypes`; `RowsStayHonest`, from
  `FreshInv`: unless an add-repo has failed, the last report - shown or on its way - is the host, or a
  run is under way, or a detect is ordered, or the RunFinished that will order one is in the inbox;
  and an order of a run stands for a StepFinished of every component it marked, because the
  closures are followed target by target (`OrderHolds`); `SleepIsSafe`, from `SleepInv`: a wait that
  nobody has bumped began with the cadence the window stored last, and once the worker has stopped
  the sampler has a bump still to see, is about to look, or has ended. Assumed is that requirements lie
  before their component in the registry's order (`DesktopAssumption`; `topo_sort` in `model.rs`
  makes that order, and `GraphReported` proves it of `Registry`).
* **`AgentSyncProofs`** - `TypeCorrect`; `CacheTruthful`, since whatever changes a skill's directory
  drops or sets its hash in the same step; `PreviewIsPure`; `AskedIsKept`;
  `ServersLostOnlyIfTracked`; `TwoSyncsSettle`, from `SettleInv`: a source is planned once in a
  section and what is then kept is asked for; a clean sync skips no prune, so it leaves no stray -
  an entry nothing asks for - in the lock; in the sync after it, whose prunes then empty no place
  that an asset alone under its name has, every such asset is settled once its section is behind,
  and in its section is still to be planned, settled, or being copied, with the targets behind it
  already intact.

**Only model-checked.** Liveness under fairness (`PanicStopUnlessNested`, `BusyClears`,
`SamplerEnds`) and what rests on `ENABLED` are out of the prover's reach. Recursion and folds are
proved about where the model has them, `Registry`, `Wiring` and `Desktop`, by induction along the
order or the sequence, with the numbers below a bound as the set the induction runs over. What the
proofs assume beyond the constants is what the models assume: that a store
statement, a lock operation, a read or a write of a file and a command is one step.

## 6. Findings

Three runs expect a violation of what the sources say of themselves; TLC's traces are short.

* **An honest log is refused** (`MCAuditAnchorRefused`). `lib.rs:2220-2221`: advance "always anchors
  the tail it just observed and sets `high_water == that seq`". Two advances overlap under the
  shared guard; one stores its high-water between the other's two writes. The stored pair then
  names a row and a position that do not belong together, and the next unlock answers
  `AuditChainBroken` for a log nobody touched.
* **The panic stop hangs** (`MCVaultSessionDeadlock`). `lib.rs:943-944`: "never hold a lock across a
  store write that takes its own lock". `issue_leaf_for_covered_host` audits its refusal inside the
  vault's read guard (`lib.rs:1844`), the audit takes the read lock again, and a `lock()` queued
  between the two blocks both. `PanicStopUnlessNested` shows that nothing else can hold it up.
* **An issuer in a locked vault** (`MCVaultSessionIssuer`). `ca.rs:40-41`: "Present only while the
  vault is unlocked". `rebuild_ca_if_initialized` stores it after the vault guard is gone.

Seen while translating, each visible in a model but stated by no run of its own:

*Secrets engine.* A daemon that dies between the two writes of an advance leaves a high-water
without its MAC, and the vault then refuses an honest log at every unlock (2156). With two callers the high-water can fall, and a debug build's assertion at
`lib.rs:2174` fails. `unlock` returns the error of the issuer's rebuild over a vault that is open
(515-518). Two overlapping `ca_init` can pair one's key with the other's certificate, until the next
unlock refuses it (`ca.rs:48-49`). An advance called best-effort hands its error to the caller of an
operation that has been done (2105-2106); the swap's result is handed out even when its audit row
could not be appended (1257). Overlapping revocations both count a row (1130). Minting under an
existing relay name replaces its policy, and so undoes its revocation. The rate window tumbles
(`broker/mod.rs:214`), so two windows' worth can pass in one minute, and a rate of *r* admits *r - 1*,
one of 0 nothing (`decide.rs:243`). A bearer is accepted past its lifetime after a reboot *and* a clock set back
(`decide.rs:264-278`), which is why `NoUseAfterExpiry` excludes the two together. A clock set back
also prolongs a kept presence answer beyond one TTL (1606-1607).

*Proxy and daemon.* A policy synthesised from gRPC has empty host, path and method lists
(`conv.rs:212-236`), so bearers minted over gRPC are always denied. A client that sends no lifetime
sends 0, which `clamp_ttl` refuses, though the CLI says that 0 lets the engine clamp (`secretctl`
`main.rs:440`). `Relay.Create`, `Relay.List` and `Audit.Query` are not implemented. `env-ctl run`
without injection leaves its bearer live. A hang-up leaves a sent key unaudited; an upstream error
in the body makes a truncated body look complete. Two daemons that start and stop at once can
remove each other's socket (`main.rs:311-334`, history `raced`); the signal handler is installed
after the bind.

*Executor, runner, guards.* A component is blocked only behind a dependency that failed *itself*, not
behind one that was blocked (`executor.rs:206`), against `executor.rs:8-9`. A wiring failure of a
component already installed reaches no summary (237). The joins wait as long as any outliving process keeps a
pipe (`runner.rs:10-11` against 97). An error of `try_wait` neither kills nor reports a timeout
(237-240). A hook that succeeds between the last `try_wait` and the kill is reported as timed out, its
status dropped with the answer of `child.wait` (226-234), and the errors of both kills are ignored
(232, 244-248): what runs as root under `sudo` outlives the timeout, against "reap the whole child
tree" (43-45). A failing `findmnt` lets `NotMounted` pass, and with no live root known `NotLiveDevice` too
(`guard.rs:68-84`). The drift report's advice, `envctl install nvidia-open` and `auto-fix X --apply`, is
skipped when the component is detected and refused for a system component without `--confirm`.
Two tables of one id: the last wins silently.

*Wiring.* The "envctl PATH" block is shared: the second component's entries are never written, and
resetting either removes them for both. A torn append is never repaired, and revert refuses it; a torn BEGIN
before a later whole block makes revert remove the user's lines between them (307-311). An rc file
that cannot be read or is not UTF-8 makes revert return Ok with the block in place (280-282), and
apply append a block, a second one if there was one, and return Ok (261) although `wiring_present`
answers no ever after (`executor.rs:420-431`); over a torn BEGIN that second block is how one process
alone comes to the excision just named. The lines it takes are in the backup. Two
processes that append at once leave two blocks, which revert refuses. A failed backup does not stop
the truncating write (5). A partial keyring counts as whole, an unreadable nix config as absent. A
crash after the nix append leaves the daemon unrestarted. Failures of the cdi, enable and systemctl
commands are ignored. `WiringMissing` of the drift report looks at shell files only.

*add-repo.* A reused clone without a ref is fetched and never moved. A clone killed by the timeout
leaves a directory with the right origin, and every retry fails. A patch is applied again on retry. A partly
failed installation leaves links and a PATH block that nothing owns. A drop-in with a ref is not
pinned to a commit (`register.rs:3`), and neither is one whose fetch fails: the rebuild's `git fetch ...
&& git checkout ...` does not stop a script under `set -e` (54-62, 158), which goes on to build the HEAD
it finds, the tip of a fresh clone for one. `remote set-url` over a connected clone of another repository
builds that one's ref. The remove hook's `grep` takes every link under a slug that begins with
this one (`register.rs:4`; the constant `Prefix`). `ln -sfn` on a rebuild replaces foreign files
(history `late`), and `install.rs:218` removes a target that has come back without a backup.

*Agent assets.* A skill name that moves between sources is copied and then pruned under its old
key; the second sync heals it. Copies in the second and later agent directories are never removed
by prune or clean. A source that is broken rather than failed lets the prune remove its copies; an empty
section prunes whatever failed (`driver.rs:701-704`, 1156-1167 against 11-12). A user's MCP server
named like a tracked pack's is removed (`clean.rs:7-8` against `driver.rs:1543`). Unchanged content under a
renamed pin never updates the lock's label, so `--locked` refuses for ever. Settings, lock and
config are written in place, and processes do not exclude each other. `agent_clean` defaults to
the project scope; an entry "x.json" becomes "x.json.json".

*Desktop.* An add-repo that fails after its installation sends no `RunFinished`, so its rows stay stale. Every
frame's `set_cadence` bumps the generation and wakes the sampler (`main.rs:356` against
`command.rs:7-9`). Install always applies, while Fix and Deploy honour the dry-run box. A component
that add-repo registered is not in the worker's registry.

## 7. Hazards

`PROJECT.json` lists what in this code is hard to test, each at its line, with the properties that
would catch it. Two have none. The audit row of a swap may fail to be appended after the key was
sent (`lib.rs:1257`): the code lets it, so no promise can be stated beyond the denied swap, which is
audited first. And two envctl processes that sync the same project (`driver.rs:593`): whoever saves last
wins, and the code promises nothing else.

## 8. Not modelled

* Cryptography, key derivation, token formats, record encryption: a DEK, a MAC, a sealed
  record or a token is the value it stands for, and what opens with which key is kept.
* Remote clients of the engine (no daemon call reaches them), the GitHub mint and child
  injection, HTTP and TLS parsing, gRPC conversions, the command lines, rendering, the drift and
  lock files, the dashboard's layout, the sudo keep-alive, packaging and data files.
* In `RelayBroker`, `RelayProxy`, `Secretd`: several relays at once; dry runs of a revocation; the filters
  of `query_audit`; one request per connection; paths, methods and headers are one choice of
  denial; scopes an embedder mints by hand; several processes over one in-memory store. `relay_revoke` writes
  back the whole policy as it read it (`lib.rs:1115-1117`), so that a mint in between loses its scope; here
  only the state is written. The difference cannot be seen: a scope is looked at while its policy is
  active, and what makes a revoked policy active, a mint, replaces the scope.
* In `HookRunner`: a `wait` that fails. Of one's own child it can only with `ECHILD`, when somebody has
  set SIGCHLD to be ignored, and then after the child has gone, which is `Reap`.
* In `AgentSync` and `AgentConfig`: one entry per source and list, so one source under two pins,
  sub-directories and object-form entries are left out; an addition costs one change per list;
  `agent_clean` is one step; one process.
* In `AddRepo`: validation of the spec string, the refusal to run as root, the sudo prewarm; `--local` and
  the registry's answer to connect. In `Wiring`: a user's write to a file between envctl's check of it
  and the end of its edit (from `save` to `edit` or `fill`, an append's included), which a rewrite would
  lose to no fault of the backup; a `stat` that fails for a file that exists (`Path::exists` is false then).
* In `Desktop`: the forwarder thread is folded into the worker; log, telemetry and graph views.
