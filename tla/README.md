# Scale Agent: TLA+ models, checks and proofs

Scale Agent is a DaemonSet. On each node it looks for the pods of the database
it serves, watches how much CPU each one uses and how often it is throttled,
and moves the pod's limits up or down a table of quotas. This directory holds
TLA+ models of it, the TLC configurations that check them, and proofs for TLAPS.

    tlc -workers 2 -config MCWorker.cfg MCWorker     # one run
    tlapm ToolkitProofs.tla                          # one proof module

## 1. Inventory

| Part | Source | State | Operations |
|---|---|---|---|
| Agent process | `cmd/main.go`, `cmd/setup` | where `main` is, root directory, pod manager | start-up steps, exit, panic, restart |
| Configuration | `pkg/config/config.go`, `resource_range.go` | `gCfg` (node name, labels, annotation key) | InitConfiguration, Validate, GetLabelSelector, ParseResourceRange |
| Reconciler | `pkg/controller/pod_controller.go` | none of its own; informer and work queue of controller-runtime | Reconcile |
| Pod manager | `pkg/pod/manager.go` | event channel, mutex, workers by name | NewPod, DeletePod, EvictPod, Start, Stop, loop |
| Pod worker | `pkg/pod/worker.go` | pod, quota, toolkit, ticker, channel | loop, SendEvent, updatePodQuota |
| Scale strategy | `pkg/scale` | the lower CPU rate | CheckScaleUp, CheckScaleDown |
| Cgroup toolkit | `pkg/util/cgroupv2/toolkit.go` | two samples of `cpu.stat`, a mutex | Init, loop, rates, SetCgroupLimit |
| Quota table | `pkg/config/quota.go` | `allQuotas`, filled once | up, down, floor, configuration of a quota |
| Kubelet's configuration | `pkg/kubelet`, `pkg/util/ps.go` | kubelet server and feature gates, read once | GetKubeletServer, GetProcessList, loadConfigFile, kubeletConfigFlagPrecedence |
| Cgroup manager | `pkg/kubelet` | the kubelet server, shared and changed; `qosCM` | GetCgroupNames, buildCgroupMgr, newCgroupManager, GetPodContainerName |

How they interact. `main` reads the configuration, changes its root to the
node's to read the kubelet's, and starts controller-runtime and the pod manager.
Informer events queue keys; Reconcile reads the pod from the informer's copy and
calls NewPod. The manager's loop makes one worker (a goroutine) for each pod name and
sends it New, then Update events through its channel. At each tick the worker
makes the toolkit for its pod's cgroup if it has none; Init starts the toolkit's
goroutine, which samples `cpu.stat` every 100ms. The worker asks the scale
strategy for both decisions and sends itself an event for each in a goroutine of
its own. A pod event sets the cgroup's files; a scale event writes the pod's
limits to the API server, and the change comes back as an Update event.

What is hard: two goroutines share the samples; a sample's reading and its time
are taken apart; a tick may have waited in the ticker's channel; counters restart when a cgroup is made again; the channel of a
worker has several senders that block; the pod is read from a copy that lags and
written back whole; pods are replaced under the same name, and after a
forced deletion the old pod's cgroup is still there; a worker keeps its toolkit when
its pod is replaced; Reconcile hands the same version over again; all pods go through one channel, one mutex and
one loop; workers build cgroup managers at the same time from one server that
they change without a lock, and leave the result in one variable; the kubelet may
change while its flags and its file are read; errors are logged and forgotten, or retried
for ever; the process restarts with nothing in memory. `PROJECT.json` lists each
of these at its line, with the properties about it.

What makes each part correct:

- quota table: each choice is the best entry, moves one rung, and the limits meant
  for an entry are recognised as that entry;
- toolkit: a pair of samples is always a real pair in order, rates are the true
  growth, a busy pod looks idle only in named cases, the goroutine ends;
- worker: no cgroup gets the limits of an earlier pod, events in order, nobody's edit is
  overwritten, every event is handled, cancellation ends it;
- manager: each worker takes the pod of every call for its name once and in order,
  and no pod keeps the others waiting unless a worker has ended;
- kubelet's configuration: what the workers share is what the kubelet itself
  works with, as far as no drop-in file says otherwise;
- cgroup manager: each pod's toolkit is on that pod's cgroup, and there is one in
  the end;
- agent: no wanted pod is forgotten, only the node's own pods are handed over,
  and after all restarts and errors the manager knows each one.

## 2. Modules

| Module | Models |
|---|---|
| `Quota` | the table and the choices of `quota.go`, as the entry each loop returns; what a ladder is |
| `QuotaCalls` | walks over the table, a trip through the pod's limits included |
| `QuotaLoops` | extends `QuotaCalls`: the same walks with the loops, a step for each entry |
| `Toolkit` | sampling goroutine, rates, scale strategy, clock and kernel counters |
| `Worker` | the worker's loop with its senders, the pod, the informer, the cgroup |
| `Mailboxes` | abstract: one mailbox for each pod name |
| `Manager` | the pod manager's loop, channel, mutex and map, and the workers' channels |
| `Kubelet` | from the list of processes to the kubelet server |
| `CgroupManager` | extends `Kubelet`: the workers' ticks, from the server to a toolkit |
| `Agent` | `main`, configuration, Reconcile, work queue, crash and restart |
| `QuotaLemmas` | theorems about the choices alone, which `QuotaProofs` and `WorkerProofs` use |
| `MailboxesProofs` | theorems about the abstract mailboxes, which `ManagerProofs` instantiates |
| `QuotaProofs`, `ToolkitProofs`, `WorkerProofs`, `ManagerProofs`, `CgroupManagerProofs`, `AgentProofs` | theorems about the behaviours |
| `MCQuota`, `MCToolkit`, `MCWorker`, `MCManager`, `MCKubelet`, `MCAgent` | values of the constants for TLC |

Operators with a comment "Mutant:" are wrong variants of the
definition after them. Nothing uses them: they are what each property is tried
against (`PROJECT.json`, "mutants").

**Quota.** A quota is `[cpu, mem]` in millicores and MiB. The Go functions scan
the table keeping the best entry so far; `Quota` states the entry that survives,
which is what a caller needs to know. `QuotaLoops` has the loops themselves as a state
machine: `Begin` is the call and the first value of `target`, `Iterate` looks at one
entry of `allQuotas`, `Return` tells whether one was found. The five functions are
the same loop with different `Start`, `Skip`, `Better` and `Result`, the odd start of
GetScaleDownMemoryQuota from maxQuota included. `LoopsAgree` says that this
machine implements `QuotaCalls`, so that every property of the declarative
choices is one of the loops. `MilliPerCpu` is 100 because `init` writes
`cpu*100` millicores. `Floor` is a trip through the pod's limits as updatePodQuota is
written to make it: add `DeltaMemory`, take the floor again. The committed lines set
copies of the limits (`worker_scale`), so `RoundTrip` and `StaysOnTable` are about the
two functions and describe nothing that the committed program does to a pod.

**Toolkit.** `pc` follows Init and loop: reading the file, stamping it with
`time.Now()`, and installing the pair under the mutex are steps of their own, and
the clock and counters may move between them (`Advance`), at most `Lag` between
reading and stamping. `Recreate` sets the counters to zero. Rates are kept as
fractions; a difference is taken modulo `Word` (2^64 in the code). `at` and
`gen` in a sample are history. The ticker is that of Go 1.22 (`go.mod`, Dockerfile): `Fire`
puts a tick into its channel (`tickC`) unless there is one, and `ResetTicker` moves the next
one and leaves that one where it is. After an iteration of more than an interval the
next reading therefore follows at once. `BusyIdleOnlyIfClose` says when a pod that uses a
whole CPU is taken for an idle one: when its two samples have the same time, which is
so at the check that follows every Init, or when the readings are close compared with
the delay of the second stamp. Nothing in the code prevents either.

**Worker.** `pc` is the point in loop. Handlers that do not wait are one
action; updatePodQuota is two, `HandleScale` (read from the informer's copy and
mutate) and `Update` (write), since others act between them. `mgr` is the event
the manager is blocked on, `outbox` counts the goroutines of the worker's own
events, `high` and `ioMax` are the files of each pod's cgroup. SetOnCopy says
what `Limits.Cpu().SetMilli(..)` does: it changes a copy, so what is written
differs from what was read in its annotation only. io.max may be refused by the
kernel, and for the device "default" the committed code writes it always is; that
is one of the outcomes. The API object and the cgroup of a pod go their own ways:
`Remove` takes the object, `RemoveCgroup` the cgroup, in any order, as after a forced
deletion. A later pod's event then sets the old pod's cgroup through the toolkit; that is
what the code does, and `NoEarlierLimits` says that nothing worse happens. `Notify` makes
an event of whatever copy the informer has, also of one that was handed over before.
NextQuota has no branches for the memory: no decision asks for them.

**Mailboxes, Manager.** `Mailboxes` is what the manager promises. The calls of NewPod for
a name are numbered; `due[n]` are those whose pod the worker of `n` has still to
take, and it takes the lowest of them, New first and then Update. The version of the pod
is left out, since the manager looks at none: after a requeue that meets an update,
or a resync, Reconcile hands over the same version again and the worker gets it
again. "Once" is therefore said of calls. `Manager` has the loop step by step (take a
pod, lock, look up, make a worker, send), a channel for all pods and one for each
worker, and implements `Mailboxes` with the calls in the channel, in the
loop's hand and in the worker's channel as `due`. `Worker` implements the steps of
the same abstract module for its own pod (`MailboxSteps`), with the scale events
that push in between: that is where the two modules meet. That versions never go
backwards is `HandsOverItsOwn` of `Agent` and `EventsInOrder` of `Worker`.

A worker is also something that can end the process: `WorkerStart` panics without a
ticker (worker.go:85), and `WorkerHandle` may panic until a tick (`WorkerTick`) has made
the toolkit (worker.go:102). `EveryPodServed` lists all that ends service: Stop, that
panic, the pod's own worker having returned, and the loop waiting with the mutex at the
full channel of any worker that has (`Stuck`).

**Kubelet.** A node is its list of processes, its configuration file and its drop-in files. A
configuration is a function from keys (the flags that decide over cgroups, and
feature gates) to values. getKubeletServer is four steps, `ReadProcesses`,
`ParseFlags`, `LoadFile` and `ApplyPrecedence`, between which the node may become
another one (`ChangeNode`). Arguments pass through ps, which cuts them at blanks
(what follows a blank is taken to be no flag: no value has ` --` in it).
The two parses know different flags. `KubeletsOwn` is written independently of
these steps: the last flag, or the drop-in files (which the agent never reads), or the
file, or the default. `FromDropIns` are the keys on which agent and kubelet may differ. `Words` are the values
that flags and files may have: all strings.

**CgroupManager.** Each worker's tick is up to six steps, cut where it touches what
others touch: the shared server (`ReadReserved`, and `WriteReserved` in two steps, one for each map), and `qosCM`
(written by `NewCgroupManager`, read by `MakeToolkit`). A cgroup is a path: its
name and the driver's form of it. The kubelet makes the cgroup of a pod where its
own configuration says (`PlacedBy`). Failures that pass (dependencies,
cadvisor, MachineInfo, Start of the QoS manager, reading the cgroup) and the Go
runtime's answer to concurrent map accesses are counted by `fails`. The process
may die at any of them and begins again with `ReadProcesses`.

**Agent.** `host` is what the agent is started in: configuration file, cgroup
version, and where API credentials are found. Each step of `main` either goes on
or ends the process; ending it clears everything in memory (`Die`). The informer
and the work queue are controller-runtime's, modelled from how Reconcile relies on
them: a key is queued once, a key added while in process is queued again when it
is done, a Requeue result comes back later. Reconcile takes its copy in one
step (`Get`) and finishes in another.

**Parts that are not there.** The committed code does not make the tickers of
the two loops, the worker's channel or the manager's map, never unlocks the
manager's mutex, does not leave the manager's loop on ctx.Done(), never sends Delete, and does not implement NewPod. Taken alone, that stops everything at once: `loop` panics on its first
line. So that the rest of the code can be checked as it is written, each of these
is a rigid choice made in Init (`made` in Toolkit, `build` in Worker and Manager,
`newPod` in Agent). The safety runs cover every choice, the committed one
included; a liveness property or its run says which parts it needs. What the committed
choice does can be read off the actions: `Start` of Worker, `Unknown` and
`WorkerStart` of Manager and `NewPodPanic` of Agent end in a panic. `CgroupManager` begins where a worker
has its ticks.

## 3. Runs

| Run | Shows |
|---|---|
| `quota` | `BestSoFar` (the loop invariant), `LoopsAgree` (refinement), `RoundTrip`, `OneRungUpOneRungDown`, `StaysOnTable` on all tables of up to two boundary entries, one of five with ties, and the first eight of `init` |
| `quota_down` (violated) | scaling down 1000m/2Gi asks for 950m/19Gi |
| `toolkit` | `SamplesOrdered`, `RatesExact`, `BusyIdleOnlyIfClose`, `IInv`, `CancelStops` |
| `toolkit_wrap` (violated) | the throttled time wraps when a cgroup is made again |
| `worker` | `IInv`, `NoEarlierLimits`, `LimitsApplied`, `MailboxSteps`, `NoLostEdit` |
| `worker_live` | `EventsHandled`, `CancelStops` |
| `worker_scale` (violated) | the update that scales a pod leaves its limits as they were |
| `manager` | `Routing`, `MailboxSpec` (refinement), `EveryPodServed`, `StopEndsWorkers` |
| `agent` | `IInv`, `NoForgottenPod`, `HandsOverItsOwn`, `Converges` |
| `agent_v1` (violated) | without cgroup v2 the reconciler works all the same |
| `kubelet` | `IInv`, `ServerIsKubelets`, `ToolkitOnItsCgroup`, `EveryPodGetsToolkit` |
| `kubelet_old` (violated) | `--container-runtime` with `--config` ends the agent |

Bounds, and why they are enough. *Quota:* values at, just below and just above
each constant the loops compare with, with ties and duplicates; two trips show
whether the 64Mi accumulate; that the whole table of `init` is a ladder is proved,
and `quota_down` uses all its 64 entries. *Toolkit:* three usec with an interval of one, so
three samples follow each other, with one reset and one failure in any place;
the proofs remove these bounds. *Worker:* two pods of the same name, three
resource versions, three calls of NewPod (so that one may repeat a version while
another brings a newer one), one tick (the one that makes the toolkit), a channel of one
place (the smallest in which senders block), limits with and without a table entry and
without limits at all. The liveness run has one pod, since replacing it changes which
cgroup is written, not who waits for whom, two versions, two calls, and two ticks: up to
four scale events against the manager's. An endless stream of scale events is not in it. *Manager:* two names, so that one can keep the other waiting;
three calls for each, a channel of two places for all pods and of one for each worker,
so that both are full at the same time; all 32 builds. *Kubelet:* 22 nodes, one
for each way in which the reading goes on or ends, drop-in files that move the cgroups and
some that do not among them, one change from any of them to
any other at any step, and one failure that passes, in any place; two pods of different classes,
since two workers are enough for every race on the server and on `qosCM`.
*Agent:* two pods, two versions, one transient failure and one kill in any place;
restarts are not bounded. Deadlock is checked for `MCQuota` and `MCKubelet`, not
where the system may stop: a bounded environment ends, a panic ends the process,
and an idle agent has nothing to do.

Fairness. Go runs every goroutine that can run, so steps that nothing
disables get weak fairness. A select picks at random among ready cases, and
senders blocked on a channel are let in first come first served, so these get strong
fairness. Ticks of the worker are not assumed, in Worker and in Manager: every event resets the ticker. In
Agent, controller-runtime delivers watch events, ends the delay of a retry, and
works while the queue has keys; the queue is a sequence, so that no key is
overtaken follows from the model rather than from fairness. Kubernetes starts the
container again. In CgroupManager a worker has its ticks: it is about workers that
are not given events all the time. Weak fairness is enough in Manager: it has one
sender for each channel, and once a pod is taken nothing disables the loop's steps.

## 4. Proofs

Every safety property of the passing runs is a theorem, for every
value of the constants that satisfies the assumptions below: any number of pods,
names, versions, calls, workers, ticks, failures and restarts. Where a property is not
inductive, the strengthening is itself an invariant of the run, so TLC tries it
before it is proved: `IInv` in `Toolkit`, `Worker`, `CgroupManager` and `Agent`,
`Routing` in `Manager`, `BestSoFar` with `LoopTypeOK` in `QuotaLoops`.

| Module | Theorem | States |
|---|---|---|
| `QuotaLemmas` | `FloorNotAbove`, `ScaleCpuDirection`, `ScaleDownMemoryIdle`, `InitTableIsLadder` | facts about the choices and about `init`'s table |
| `QuotaProofs` | `TypeCorrect`, `RoundTripHolds`, `OneRungHolds`, `StaysOnTableHolds` | the run's properties for all tables |
| | `LoopTypeCorrect`, `BestSoFarHolds` | the loops' invariants, for all tables |
| | `LoopsAgreeHolds`, `LoopsKeepToTheTable` | the loops implement the choices, and have their properties |
| | `CommittedTableWalk` | on `init`'s table of any length, a quota on a rung stays on the rungs |
| `MailboxesProofs` | `LedgerHolds`, `TakenOnceInOrderHolds` | what the abstract mailboxes promise |
| `ToolkitProofs` | `TypeCorrect`, `IInvHolds`, `SamplesOrderedHolds`, `RatesExactHolds`, `BusyIdleOnlyIfCloseHolds` | invariants |
| `ManagerProofs` | `TypeCorrect`, `RoutingCorrect` | invariants |
| | `ImplementsMailboxes` | the refinement `MailboxSpec` |
| | `NoneLost`, `NoneTwice` | what the mailboxes promise, for the manager |
| `WorkerProofs` | `TypeCorrect`, `CopiesInOrder`, `NoEarlierLimitsHolds`, `LimitsAppliedHolds` | invariants |
| | `NoLostEditHolds`, `MailboxStepsHold` | action properties, the second the steps of `Mailboxes` |
| `CgroupManagerProofs` | `TypeCorrect`, `ReadFromItsKubelet`, `ServerIsKubeletsHolds`, `ToolkitOnItsCgroupHolds` | invariants |
| `AgentProofs` | `TypeCorrect`, `CopiesInOrder`, `NoForgottenPodHolds` | invariants |
| | `HandsOverItsOwnHolds` | action property |

Assumptions. `QuotaConstants`, `CallsConstants`, `ToolkitConstants`,
`WorkerConstants`, `ManagerConstants` and `AgentConstants` say what kind of value a
constant is, and that channels have a place. Those of the kubelet say more:

- `KubeletConstants`: the strings that the code itself writes are among `Words`,
  and no feature gate has a default in the kubelet's configuration (the map is
  empty until a flag or the file fills it);
- `DefunctIsStray`: ps shows a defunct process as its name in brackets and the word
  `<defunct>`, which belong to no flag. Without this a defunct kubelet could be
  taken for the live one: ReadProcesses takes the first process of that name;
- `CgroupManagerConstants`: a pod's part of a cgroup name, which has the pod's UID
  in it, is not the name of a QoS class and not `kubepods`.

`QuotaLemmas`, `QuotaProofs`. The entry that CHOOSE picks exists because a
non-empty set of indices has a best one (well-founded induction on the natural
numbers, stated once for greatest and least). From it: the floor is not above its
argument, scaling goes in the direction it says, scaling down the memory is idle,
`init`'s table is a ladder, and the three properties of the run for all tables.

The loops need no induction over the table: it is in the steps. What the five have in
common is that `Better` is a strict weak order (`BetterOrder`) and that the entries a
choice may name are those that are not skipped and are better than `Start`
(`CandidatesMeaning`). With these two lemmas `BestSoFar` is preserved by
`Iterate` in one argument for all five: a new entry that is not better leaves the
first best in place, one that is better than the target is better than every earlier
entry too. When the loop has seen the whole table, `FirstBestUnique` makes its target
the entry that CHOOSE names, and an entry better than `Start` is never taken for
"none found". `Return` is then a step of `QuotaCalls`, and all else stutters.

`ToolkitProofs`. `SamplesOrdered` is not inductive: it says nothing of a
sample that has been read and not installed. `IInv` adds, for each control
point, what is known of the pending sample (`PendOK`), of the current one against
the counters (`CurOK`), and of the pair (`PairOK`); nothing is assumed of when ticks
come, so a tick that has waited is covered. Its core is
`Follows`: a sample read later has no smaller counters unless the cgroup was made again,
and a busy pod has used at least the time between the readings. The safety
properties follow from IInv by arithmetic.

`ManagerProofs`. The refinement needs to know where the pod of each call is. `Routing`
says that the loop has a pod in its hand exactly between taking and sending it
(`OneInHand`), that the calls for a name lie in order from the worker's last
event over its channel and the loop's hand to the manager's channel (`InOrder`),
and that a name is kept in the map from its New event on, which is the first in
the worker's channel (`NewFirst`). The proof puts `InOrder` as one predicate on
five sets of calls for each name (`Placed`), so that taking, sending and
handling are three small lemmas about numbers, and the lemmas on sequences are
stated once for both kinds of channel. With `Routing` every step of the manager maps
to Tell, Handle or a stutter: `SendEvent` moves a call inside `due`, and the
one a worker takes is the least of them. `MailboxesProofs` shows what that
is worth: its `Ledger` says that the calls due are those between the last one handled and
the last one made, which is the invariant behind "none twice and none left out".
`NoneLost` and `NoneTwice` are its two theorems under the refinement mapping.

`WorkerProofs`. `NoEarlierLimits` needs that the pod an event brings to the toolkit is
not of an earlier uid than the toolkit's: copies of the pod are in five places at once, of
which each may be behind the next. `IInv` says that they are versions that the API
server has had, that two with the same version are equal and that later versions are
not of earlier pods (`CopiesAgree`); that channel, manager and worker hold their events in
the order of the calls and their pods in that of the versions, which may repeat, New
first (`EventsInOrder`); and that the toolkit is not for a later pod than
the worker's (`ToolkitBehind`). Each action is split into what it does to
the set of copies (a lemma for a set that shrinks, one for a new version) and to
the order of the events. `LimitsApplied` then needs only the actions that touch
quota, toolkit or files. `NoLostEdit` is `CopiesAgree` for the copy that
updatePodQuota has read: it is written only if its version is the API server's, and
then the two are equal. `MailboxStepsHold` maps the steps of the worker to those of
`Mailboxes` with the number of calls as `told`.

`CgroupManagerProofs`. `ServerIsKubelets` is a statement about the end of four
steps; `ReadFromKubelet` says for each of them what has been put together so far,
as long as the node is as it was. Its key lemma: an argument list in which
every word belongs to a flag is the live kubelet's own, uncut, since a cut or a
defunct one leaves a stray word and the parse of it ends the agent. The rest is the
algebra of the two parses (flags, file, flags again, gates added back equals
`KubeletsOwn` on every key outside `FromDropIns`), and that what workers write to the
shared server later, a step at a time, is idempotent and keeps the keys apart.
`ToolkitOnItsCgroup` rests on names: a path that exists and ends in the pod's own
part can only be the cgroup that the kubelet made for it, whatever prefix a stale
`qosCM` or server, or a drop-in file the agent has not read, gives it.

`AgentProofs`. Type correctness, with `OneCall` (calls of Reconcile do not
overlap, since only an idle reconciler takes a key). `NoForgottenPod` is not
inductive alone: Reconcile may end after handing over an older version than the
informer's, and the pod would be pending with nothing queued. `StaleIsAgain` is
what rules it out: a call whose copy is behind the informer's has been marked by
`workqueue.Add` to be done again, and only the running process has a call. The
argument is then per step: Add and Done lose no key, Get moves one key into the
call, and a call on the informer's own version ends by handing it over, by
requeueing its key, or with a version that is not wanted. `HandsOverItsOwn` is
about one step, NewPod, and needs what led to it: `VersionsInOrder` (what was handed
over is not ahead of Reconcile's copy, that not of the informer's, that not of the API
server's) and `ConfigRead` (labels and node name are those that `main` was started
with).

Only model-checked: liveness, since fairness and ENABLED are outside these
proofs: `CancelStops` of Toolkit and of Worker, `EventsHandled`, `EveryPodServed`,
`StopEndsWorkers`, `Converges`, `EveryPodGetsToolkit`.

## 5. Not modelled

Formatting, logging, metrics, versions and the stubs for other platforms. The
contents of labels and of the resource range (accepted or refused is all that
Reconcile looks at), and the text of cgroup files. In `pkg/kubelet`, GetCgroupCpu,
setCgroupCpu, buildContainerMgr, newContainerManager and the functions that write
`cpu.max` and `cpu.weight`: nothing in the program calls them. The goroutines that
the kubelet's libraries start for each QoS manager. Keys of the kubelet's
configuration that do not decide over cgroups. Time between the worker's ticks: no
property depends on it. A race inside the toolkit's mutex: the four fields of the
samples change in one step.

## 6. Plan

1. Done: Quota, Toolkit, Worker, Manager with its refinement, Kubelet,
   CgroupManager, Agent, and their runs.
2. Done: every safety property of the runs as a theorem, the loops of the quota
   table and the refinements included.
3. Left: that a worker's goroutines are the only senders left after it has
   returned; the time between ticks, without which the ticker that every event
   resets cannot be judged; scale events without end, which need ticks without end.

What the code does and no property forbids, since there is no promise against it: the
first event of a worker ends the process if no tick came before it (worker.go:102), the
first check after Init finds every pod idle (toolkit.go:78), a later pod's limits reach
an old pod's cgroup (worker.go:147), a worker that has returned stops the manager
(manager.go:98), and drop-in files of --config-dir are not read (cmd.go:399). Each is a
step of a model, a named exception of a property, and a hazard in `PROJECT.json`.
