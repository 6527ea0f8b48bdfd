# Verification of openclaw-gateway

TLA+ models of the programs in this repository that keep state, run beside
others or must survive being cut short; TLC configurations that check them on
small instances; and TLAPS proofs of the main invariants for every value of the
constants. Paths below are relative to the repository.

    tlc -config TaskBus.cfg TaskBusProps.tla      # one configuration
    tlapm TaskBusProofs.tla                       # one module of proofs

## 1. The system

The repository is the deployment and operations layer around an OpenClaw
gateway: the gateway itself (Node, upstream) runs as a systemd user service and
is not part of it. What is here are short-lived commands, timers and small
services that share files, locks and the gateway's unit with each other.

| Component | State it keeps | Operations | Interacts with |
|---|---|---|---|
| Task bus, `scripts/cross-agent-task.py` | three directories of task files, a lock file | submit, claim, complete, list | the agents' lanes, each a process of its own |
| Retention pruner, `scripts/lib-prune-retention.py` | none but a lock file in its target | plan, re-check, delete | a timer, `deploy.sh`, the gateway's leases and plugin index |
| Lane health probe, `scripts/lane-health-probe.sh` and helpers | `alerted.json` with dedup keys | read log, ingress verdict, alert, kill, restart | a 30 s timer, the gateway's log, lanes and unit |
| Key provisioning, `scripts/openrouter-provision.py` | keys at OpenRouter; key strings in the caller's files | provision, sync, list, info, revoke | OpenRouter over HTTP, the deploys |
| Preflight gate, `scripts/preflight-gate.py`, `extensions/preflight-emitter` | none (reads principals, consent, posture) | evaluate a message before a model call | the gateway's hook with its timeout |
| Config writers, `openclaw-model-manager.py`, `openclaw-import-model.py`, `openclaw-update-guilds.py`, `merge-openclaw-config.py` | `openclaw.json`, backups of it, a catalog cache | switch, import, guild update, repair, merge | each other, through the file, without a lock |
| Repository bind, `scripts/openclaw-bind-repos.sh`, and `scripts/remote/*.sh` | config mode, systemd drop-in, token | phases 0 to 7 | the config writers, the gateway's unit |
| Deploy, `scripts/install/deploy.sh` and its gates | snapshot tag, installed scripts | install, verify lanes, verify memory index, prune | all of the above |
| Visualisation service, `config/services/viz` | one lazily started browser, a cache file | render, shutdown; client spawns the server | several clients at once |
| Response normalizer, `config/services/discord-response-normalizer` | a memoised server start | normalize, chunk | the gateway's replies |
| Claude bridge, `scripts/discord-claude-bridge.sh` | last message id, sessions | poll, process, reply | Discord, the CLI |
| Upstream watch, `scripts/ci/upstream-watch.sh` and its workflow | a state file, kept in the actions cache | restore, compare, comment, save | GitHub, an hourly cron |
| Cost monitor, `scripts/cost-monitor.py`, and `lifecycle.py` | none | read trajectories and summarise | the gateway, which appends to the files and removes them |
| Validators, diagnostics | none | read and report | files |

Behaviours that are hard here: processes that die between two file operations
(task bus, probe, config writers, upstream watch); checks that are stale when
they are acted upon (pruner against the gateway, probe against its five-minute
log, restart against active sessions); two instances of the same command
(provisioning, pruner, config writers, viz); files read while they are written
(list, cost monitor); helpers whose failure is swallowed (probe); lost HTTP
answers after the request took effect (provisioning); and verdicts that must
fail closed (preflight, deploy gates). `PROJECT.json` lists each hazard at its
line.

What makes each correct: a task is neither lost nor owned twice; the pruner
never removes what the gateway references, as far as its checks can see, and
obeys its policy; the probe alerts once and, where its helpers work, misses
nothing; a sync creates no key for an agent that its whole list has one for, and
an error loses the string of one key at most; the preflight gate never passes
what it could not check; the config is torn at worst, never wrong, a change is
lost to a race only, and a repair costs no agent that the index has; a report
counts every event once, at its model's own price; the upstream watch never
moves its baseline past a change it did not tell of; a deploy does not end in
success over a failed gate.

## 2. Plan

1. `TaskQueue`, `TaskBus` (+`Props`, `Proofs`): done.
2. `Prune` (+`Props`, `Proofs`): done.
3. `LaneProbe` (+`Props`, `Proofs`): done.
4. `KeyProvisioning` (+`Props`, `Proofs`, `MCKeyProvisioning`): done.
5. `PreflightGate`, `PreflightRun` (+`Props`, `Proofs`, `MCPreflight`): done.
6. `ConfigDoc` (what each writer makes of a config), `ConfigStore` (several of
   them over one file) (+`Props`, `Proofs`, `MCConfigStore`): done.
7. `CostReport` (the reports as functions of the events read), `CostMonitor`
   (the read itself) (+`Props`, `Proofs`, `MCCostMonitor`): done.
8. `UpstreamWatch` (+`Props`, `Proofs`, `MCUpstreamWatch`): done.
9. Left: `BindRepos`, with the drop-in and the config's mode, which composes
   with `ConfigStore`; `VizRender`; `DeployGates`; the Claude bridge; the
   normalizer.
10. To prove: every safety property of a run is a theorem; liveness stays with
    TLC.

Every module takes its parameters as named CONSTANTS with the assumptions it
needs, has one action per step that others can observe, and uses no recursive
operator where it is proved about.

## 3. Modules and the code they model

### Task bus

`TaskQueue` is what callers are promised: submit, claim, complete, each atomic.
`TaskBus` is the code. `files[state][task]` is a task file; `lock` the flock;
`pc` and `cmd` the running command of each lane; `reader` a running list. A
command is Start, Acquire (`BusLock.__enter__`), Find (`find_task`, refusal or
load), Write (`atomic_write`), Unlink, Unlock; a submit goes from Acquire to
Write. `Crash` ends a command at any point: a kill, or an `OSError`, which
`main` does not catch. The kernel drops the flock. List globs one directory
after the other and loads file by file without the lock.

`TaskBusProps` maps the files to the queue through `find_task`: a task is where
the first directory that has it says, so a move takes effect at the unlink and
an interrupted move has not happened.

### Retention pruner

`Prune` models a target directory whose children are capture trees or plain
directories with one loose file, the lock file, the plugin registry and the
gateway that changes all of them. A run is Open, Flock, Plan, Reread, Check
(once per entry), one or two steps of deletion, Finish; `Kill` ends it anywhere.
The lock file's path and its inode are separate: a run holds the lock on the
inode it opened. `Plan` is the planning code as a whole (it reads the world
once; the candidates, the age rule, the order and the cap are operators),
`Check` the re-check in the loop. A tree's removal takes two steps, so the
gateway can act in between.

### Lane health probe

`LaneProbe` models the gateway's lanes, the diagnostics among the last five
minutes of log, the age of the last Discord receive, the state file of the
current hour, and one probe at a time (the timer starts a oneshot unit). A probe
is Read, CheckIngress, NoteIngress, Extract, then per line CheckLane, one of
KillLane, RestartGateway, RestartFails, then NoteLane, and End. Read,
CheckIngress and Extract may fail unnoticed (`|| true`,
`lane-health-probe.sh:164`, 176, 213): the probe goes on with any part of the
lines, and `failed` remembers it. An alert is its line in the probe's log: where
the notification fails, or has no channel, that is only logged and the key is
written all the same (85-99, 206, 266), so the model does not tell the two
apart. Nor has it the exit code, which the timer ignores. `bucket` records
whether the hour turned since a dedup key was computed: such a key is written
and never matches again.

### Key provisioning

`KeyProvisioning` models the account at OpenRouter (the live keys in the order
the API lists them, the hashes drawn so far) and any number of processes, each
one `provision` or `sync`. A run is Start, ListPage (once per page of
`list_keys`, with the ceiling on pages), then per agent NextAgent, Post
(`create_key`), PrintLine, and Exit. Where the answer to the POST hides the key
string the run lists again (`relist`), asks once without a limit (Requery), and
ends in Recovered. Every request may fail, and the answer to a POST may be lost
after the key was created. Standard output is a buffer that a kill empties.
Revoke removes a key by hand, which moves the later ones up between two pages.
`since`, `partial` and `made` are history: the keys live when the list began,
whether that list could be complete, and the keys the run created.

### Preflight gate

`PreflightGate` holds the decision of `preflight-gate.py` as operators, each
given what it read: `Evaluate`, `TenantCheck`, `ConsentCheck`, `PostureCheck`,
and `After`, by which `main` takes a check over the decision so far.
`PreflightRun` is the process around it and the plugin around the process. A
message is Enter (sender and shim), Spawn, ReadPrincipals, CheckTenant,
CheckConsent, CheckPosture, Emit, Return, and Settle, where the plugin hears of
the exit; `Dies` is an exit by a traceback. Timeout is the plugin's ten seconds:
the message is blocked, and the gate, which is a child of the shell that is
signalled, may go on. Meanwhile `Replace` changes or breaks a registry file,
`BrokerChanges` the broker's mind about the JWT, and `Redeploy` removes or
restores the shim. `held` is history: which of the four layers (attribution,
tenant, consent, posture) held at some time since the message came in. The shim
is outside this repository; it passes arguments on and the exit code back.

### Config writers

`ConfigDoc` holds what each command makes of a document: `ResolveModelId` and
`Switched` for the manager, `Imported`, `Bound` for the guild script,
`DeepMerge` with its three treatments of a list, and `Repair`. A model keeps its
id and the unit its prices are in; an id counts the `openrouter/` prefixes it
carries, for that is where catalog, shipped defaults and keys differ.
`ConfigStore` is `openclaw.json`, the catalog cache, the backups, and one
command per process: an import is FetchImport, LoadFile, Open, Write; a switch
LoadFile, Resolve, Add, Backup, Open, Write; the guild update and the repair
LoadFile, Open, Write; a deploy (the merge with the config as its output)
LoadInputs, Open, Write. `LoadFails` and the refusals on the way exit with their
code. Open empties the file; what two processes write at once may be mixed
(`mixed`), and `Die` after Open leaves the file torn. Nobody can parse a torn
file, so no command goes on from it. `unseen`, `landed`, `lost`, `raced` and
`held` are history: who wrote since a command read, whose change may therefore
be gone, whether another opened or wrote the file since a command took its
backup, and what the file was when it last could be read.

### Cost monitor and lifecycle

`CostReport` is the arithmetic: `CostTable` with its four spellings of a model,
`ComputeCost`, `Takes` (kind, window, attribution), `Aggregate`, `ModelCost`,
the rows of context-health in their stable order (`LatestFirst`) and its
warning, and the `Summary` of a session in `lifecycle.py`. `CostMonitor` is the
read: Glob, Open, ReadLine, ReadTail, ReadFails (an `OSError` half way, after
which the report goes on with the next file), EndOfFile, Finish, beside a
gateway that begins a line, ends it, and a cleanup that removes files
(`Vanish`). A tail is skipped as a line that is not JSON, and its rest, read
later, is another such line; a tail that ends inside a character fails the
report.

### Upstream watch

`UpstreamWatch` is the hourly job: Start restores the newest saved state, or
none where the restore step fails or misses (`missed`), then per item FetchFirst
and FetchLater, which ends in the comparison and the write to the state file
(`Compare`); PostComment where there is something to tell; Save by the workflow.
`Abort` is every end without a save: a failed request or comment, the timeout, a
lost runner, a failed save, a dry run. Upstream moves between any two requests
(`Move`), so a signature may mix two states of an item, and the saved state is
evicted at any time (`Evict`). Of the release the ancestry may fail unnoticed
(`BestEffort`). A rerun of a job that succeeded is left out, as is the limit of
the later requests to their first page of a hundred comments, reviews or events
(`upstream-watch.sh:227`, 246-247).

The `...Props` modules state what is expected of each model; the `...Proofs`
modules prove it.

## 4. Runs

| Run | Shows | Bounds |
|---|---|---|
| `taskbus` | nothing lost, one winner per claim, owners keep their tasks, a list that exits 0 is complete, the bus implements the queue, every command ends | 1 task, 2 lanes, 1 list, 2 interrupted commands |
| `prune` | leases and the registry honoured, the plan meets the policy, the exit code tells the truth | 2 children of different sizes, 1 run, 3 flags, cap 1 |
| `prune_pair` | runs that are not capture-aware exclude each other | 1 child, 2 runs |
| `prune_lock` | *violated*: the lock file is never a candidate | 1 child, 2 capture-aware runs |
| `lane` | one alert raised per lane and hour, no key without one, no wedge missed by a probe whose helpers worked, a wedged lane is freed in the end | 2 lanes with wedged lines, 1 probe that dies |
| `lane_ingress` | *violated*: an ingress alert means 15 minutes of silence | 2 lanes, wedged and operator-held lines, 1 probe that dies |
| `keys` | no key for an agent that had one, a sync that exits 0 forgot nobody, an error loses the string of one key at most | 2 agents, a provision or a sync of both in each of 2 runs, 2 keys to begin with, pages of 2, at most 2 pages, 1 revocation |
| `keys_recover` | *violated*: a recovered creation reports its key | 1 run |
| `preflight` | what passes was allowed and is logged, the log says why, every message passes or is blocked in the end | 1 message of 4 kinds, 4 environments, 1 principal, agent, capability and route, any sequence of changes outside |
| `config` | the default is configured, no agent of the index is lost but to a repair (and then only one that the list alone had), a change is lost to a race only, what a torn file held last is in a backup, merging again changes nothing | 2 commands out of 11, each may be cut short, 5 first documents, 2 catalogs |
| `cost` | every complete event counted once, the totals agree, a model has its own price, context-health shows the latest | 2 files, 3 lines out of 5 events, 4 reports, 2 price lists |
| `watch` | the baseline passes over no change that was not told of; a change that stays is told of in the end | an issue with 2 blocker labels in 3 states, the release in 2 and a failed ancestry request; any number of failed jobs and evictions |

Two actors are enough for each race: every hazard involves one command and one
that interferes. Tasks share nothing but the lock of the bus, so one of them
with two lanes meets every race for it, and two interrupted commands are a claim
cut short twice, or a claim and the complete after it. The pruner needs two
children to have a first deletion during which the second goes stale, and sizes
1 and 2 under a cap of 1 to reach a plan that must go on past the first
survivor. Three ages suffice for its plan: one past the horizon, two within it
in either order. In `keys` two initial keys and up to four creations over two
pages of two reach the second page, a full last page and the ceiling; a second
run provides the keys that appear, and the revocation the shift, between two
pages of the first. Messages at the gate share nothing but what they read, so
one of them, with the world free to change at every step, shows all the gate can
do; the four kinds of message and four environments between them wire each
check, leave each out, and reach each reason. In `lane` the other kinds of line,
which a probe passes over, would only lengthen its loop; the proofs hold for any
`Reports`. In `config` the eleven commands reach each way to resolve a target
(alias, id, partial match, catalog), both merges that settle and one that is
repaired, and the five documents each shape of the index; a third command could
only lose what a second loses. In `cost` a second file is what a vanished first
one must not hide, and three lines are one more than `Recent = 2` and two more
than `WarnAbove = 1`, which stand for 10 and 3. `watch` has nothing that is
bounded: the issue loses its two labels one by one, the second before somebody
comments, so that the last removal and a later change are different
observations. The reports of `cost` may fail to read a file at any of its lines;
in `watch` any restore may miss.

Runs of the pruner, the provisioning, the config writers and a report end, so a
state with all of them done and nothing left for the environment to do is
allowed there (`CHECK_DEADLOCK FALSE`).

Where the code departs from its documentation (the *violated* runs) is described
under "findings" in `PROJECT.json`. More disagreements need no run. The "atomic
rename" of `cross-agent-task.py:7-8` is a write and an unlink (130-131): a
command cut short in between leaves the task in two directories, which
`TaskBus!Crash` has and `NoTaskLost` and `OneWinner` survive. The pruner's
comment promises a re-check of the registry "right before removal"
(`lib-prune-retention.py:614-616`), but the registry is read again once, before
the loop (620): a plugin installed while earlier entries are deleted is not
seen, which is why `RegistryHonoured` speaks of the second read. The probe's
header says that exit 0 means no wedged lanes (`lane-health-probe.sh:32`), but
only a kill that worked raises it (274), so a probe that could not free a lane,
or acted on it before within the hour, reports health; it says that the operator
is alerted once per wedged lane (21-22), but a notification that fails is
"non-fatal" (96) and its key is written (206, 266), so the operator may not be
told at all. The probe's comment says it restarts the gateway only under
`LANE_HEALTH_PROBE_RESTART=1` (`lane-health-probe.sh:74`), the code always does
(152); `cross-agent-task.py` documents an exit code 2 (20-21) it never returns.

Of the gate: a broker that answers with something other than an object ends it
by a traceback (`preflight-gate.py:208`) and without the event that
`docs/contracts/preflight-v1.md:90-91` promises (`PreflightRun!Dies`); the exit
code still blocks.

Of the config writers: a full catalog id is not preferred over a partial match
among the configured ids (`openclaw-model-manager.py:220-259`, 585), so a switch
to a model that is in the catalog but not configured takes the configured
`:free` variant of it and exits 0 (`ConfigDoc!ResolveModelId`), and is
"Ambiguous" in a catalog that has both. The shipped defaults list ids with the
prefix `openrouter/` that the keys add once more, so that a switch by alias adds
the model a second time. An import writes the catalog's prices per token
(`openclaw-import-model.py:66-73`) where the manager and the cost monitor take
them per million (44-56; `cost-monitor.py:73-86`): `ConfigDoc!Mapped` and
`Added`. `merge-openclaw-config.py --validate` (182) writes the output when one
is given (224). `--repair` drops `agents.list` where `agents.entries` is a
dictionary, whatever is in it (139), though its docstring has the index "carry
the same data" (130-131): an agent of the list alone is lost
(`ConfigDoc!Repair`), which is what `IndexKept` allows and no more (`Exposed`).
A merged list keeps elements with an `id` only, which the shipped bindings have
not (`ConfigDoc!MergeIdentityList`); merge refuses the key `ownership` that the
manager allows.

Three properties except what the code does not guard against, and no line of it
promises to. `BackupSaves` excepts a switch that was overtaken between its
backup and its write: of two that overlap the second may back up the file that
the first has emptied, and be cut short after the first has written
(`openclaw-model-manager.py:195-198`). `NothingPassedOver` and `ChangesAreTold`
except a run whose restore missed (`upstream-watch.yml:69`). `NoWedgeMissed`
excepts a probe with a failed helper.

Of the cost monitor: "Truncated tail lines (skipped, scan continues)"
(`cost-monitor.py:322`) does not hold for a tail that ends inside a character,
which is not an `OSError` (356) and fails the report (`CostMonitor!ReadTail`);
the warning of context-health says 3 or more where it needs 4.

## 5. Fairness

Safety is checked and proved without fairness. `TaskBus!FairSpec` assumes that a
running process keeps running, and that the kernel grants a blocking flock to
each waiter in turn (its wait queue is first in, first out), hence strong
fairness of Acquire. Nobody is obliged to start a command. `LaneProbe!FairSpec`
assumes that the timer keeps starting probes and they keep running (systemd),
that the gateway repeats its diagnostics while a lane is busy, that the clock
goes on, that of infinitely many reads and extractions one does not fail, and
that of infinitely many attempts on a lane one kill or restart works. It does
not assume that an attempt works the first time: the dedup key then blocks the
lane until the next hour, which is why `NewHour` must occur.
`PreflightRun!FairSpec` assumes of the plugin that it starts what it is asked
for, hears of an exit and has its timer fire (the gateway's event loop). It
assumes nothing of the gate, the broker or the shim: each may hang.
`UpstreamWatch!FairSpec` assumes that the cron starts a real run over and over,
that a job ends (its timeout), and that the real runs do not all fail at the
restore, the same request, the same comment or the same save for ever: strong
fairness, because a failure ends the job and so disables the step. It assumes
nothing of the eviction of the saved state, which `ChangesAreTold` excepts, as
it does a job that starts without the saved state and comes to its save.

## 6. Proofs

Written for TLAPS 1.4.5; all hold for every value of the constants that
satisfies the named assumptions (`ConstantsAssumption`, `NullAssumption`,
`PruneAssumption`, `ProbeAssumption`, `KeyAssumption`, `GateAssumption`,
`RunAssumption`, `ConfigAssumption`, `InputsAssumption`, `WatchAssumption`,
`CostAssumption`, `ReportAssumption`).

`TaskBusProofs`. `TypeOK`, `NoTaskLost`, `OneWinner` and `OwnerIntact` are not
inductive: they say nothing of a command in flight. `IInv` adds what the holder
of the lock knows: who is past Acquire holds the lock; the data it is to write
belongs to the task it found; the old file is still there at the write and the
new file is there at the unlink; and what an acknowledged command implies for
the files. It is preserved by every action (one lemma per action), and the
theorems follow. `BusImplementsQueue` shows each step to be a step of
`TaskQueue` or a stutter: Write moves a submitted task from new to pending,
Unlink performs a claim or a complete, everything else, a crash included, leaves
the mapped state alone. `ListsAreComplete` needs a second invariant, `ListInv`:
what a list still owes lies ahead of it, in a directory it has not globbed or
among the names it has yet to load. It holds because a task only moves on
(`WriteMovesOn` and its like): the copy that an unlink takes away, by `IInv`,
has a successor further along the order in which list reads.

`PruneProofs`. The invariant relates a run's phase to what it has read: from the
second read on, what it knows of the registry is true unless the registry
changed since; a tree about to be removed had no lease at its check unless
claimed since. From it follow `LeasesAreHonoured` and `RegistryIsHonoured`.
`RunsExclude` needs a second one: as long as no run deletes in capture-aware
mode, the lock file's inode never changes once it exists, so that all runs lock
the same inode. `ExitsTellTheTruth` follows a run through its loop: what it has
passed is no longer whole, or the run has noted a failure (`TruthInv`), and no
step of anybody makes a removed body whole again. `PlansMeetThePolicy` is about
one step, but of any size: the order of deletion is a permutation of the
candidates, what a plan takes beyond the horizon is its shortest beginning that
brings the rest under the cap, and the sum of the sizes is a cardinality, so
that leaving one more out lowers it.

`KeyProvisioningProofs`. All four properties of the run `keys`. None is
inductive; `IInv` says of each run what it may rely on (`Good`). While a list is
read, every key that was live at its start and whose place is before the offset
is among the rows; a creation does not change this, because it appends, and a
revocation sets `partial`. At the end of a whole list all those keys are in
`existing`, so an agent that is not found there has none of them. `Covers`
accounts for every agent of a sync: still to do, found, or printed. The keys a
run has created are accounted for likewise: printed, or the one it is about to
print or to look for. The proof shows once that what a run knows outlives a
creation and a revocation by another, and then that each step of its own leaves
it good.

`PreflightProofs`. All four safety properties of the run `preflight`. The
decision is handled apart from the process: a lemma for each check says that it
passes only what the property allows and what it says otherwise, and one for
each check taken over a decision that the line so far stays explained
(`Partial`, `AfterTenant`, ...). The inductive invariant `Good` then records,
per step of the gate, which layers a decision to allow has behind it (`Backed`),
what is in the log (`Recorded`) and what an exit 0 that the plugin has not heard
of implies (`Passing`); `Noticed` says that `held` contains what holds now, so a
check that succeeds has its layer in `held` for good.

`LaneProbeProofs`. The debounce is an account: `Counted` says that the alerts of
a key are at most its entry in the state file (0 or 1), plus the one the running
probe has raised and not yet noted, plus the probes that died; a death moves an
alert from the second to the third. `Covered` says the rest: a key in the file
has its alert, and so has a lane the probe has passed in its lines, unless the
hour turned since or a helper failed and hid lines from it. That the operator
got the alert is not claimed.

`ConfigStoreProofs`. What a command makes of a document is handled first: each
of them `Carries` over the default's model and the index (one lemma per
command), and a merge over its own result changes nothing (`PlanSettles`). The
invariant has four parts: the types; `Good`, what each running command knows of
the document in its hands (it is sound, and holds what landed unless that is
among its `unseen`); `Kept`, the same of the file; and `Saved`, where a copy of
what the file held last (`held`) is while a switch has it open. Most steps
change only their own command (`QuietStep`); Backup, Open and Write are the ones
with a proof of their own. `InputsAssumption` is what the proof asks of the
first config and of what each deploy merges: the default is configured, and the
index, the list included, has every agent. `config/openclaw-defaults.json` meets
it, and the code does not check it. It does not ask that `agents.entries` be
complete: what an input has in the list only (`Exposed`) is what `IndexIsKept`
allows to be lost, and only once a repair has landed.

`UpstreamWatchProofs`. While the state a job started from is still the saved
one, an item it has not come to is as saved and not reported, and an item it has
compared differs from the saved one only if reported, as unblocked exactly when
the last label went (`Known`); and a job comes to its save without a comment
only when it has nothing to report (`Queue`).

`CostMonitorProofs`. All five properties of the run `cost`, in three parts. The
scan: `ScanInv` says that what a report has seen lies behind the place it has
come to (`SeenInv`), in the order of files and lines (`OrderInv`), and that
whatever was complete at the glob and lies behind has been seen (`CountInv`);
the gateway only adds lines, so none of it is undone. From it
`ReportsCountOnce`: at the end everything lies behind, and an order is strict.
The arithmetic: the price list, the totals and their sums are folds and sums of
the community modules, which are recursive functions over the subsets of a
finite set. `FoldExists` shows once, by induction over the size (`UpFromZero`,
`BySize`), that such a function exists; each fold is then a sequence of single
steps (`Indexed`, `Aggregated`) and a sum may be taken apart at any element
(`RestAny`, `SumGrows`). `TableInv` says what holds of the price table after
each entry, whence `ModelsPayTheirPrice`; `AggInv` that the three totals agree
after each event, because an event adds its cost to one agent and one model,
whence `ReportsAddUp`. The rows: the place of an event in the sorted list is one
more than the number of those ahead of it, and no two have the same, so these
places are a permutation (`RankFacts`), whence `HealthShowsTheLatest`.

Only model-checked: the four liveness properties (`CommandsEnd`, `WedgesEnd`,
`MessagesSettle`, `ChangesAreTold`), which are out of the reach of TLAPS. The
induction that the arithmetic needs is over numbers and sets that are written
out in each lemma; the library's induction theorems take an operator, which the
provers cannot instantiate.

## 7. What is not modelled

Each component with status `not_modelled` in `PROJECT.json` says why. The
repository bind and the remote scripts rewrite a systemd drop-in and the mode of
the config, which need a module of their own; the deploy's gates wait for a
gateway that is upstream code; the visualisation service and the bridge are left
for later, the normalizer is text conversion. Left out for good: read-only
diagnostics and validators, install scripts that only copy files, agent
definitions, documentation and patches. In the modelled parts: the parsing of
sizes, ages, log lines and JSON is reduced to what the decisions distinguish; a
config that was cut off is taken not to parse; and a file system that loses
completed writes after a power failure is not considered (the code never calls
fsync).
