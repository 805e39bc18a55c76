# A TLA+ model of bmd, the bhyve VM supervisor

This directory holds a TLA+ model of `bmd` (`src/bmd.c`). It also has TLC
configurations that check the model on small instances, and TLAPS proofs of
its main invariants for every value of the constants. `PROJECT.json` maps
every modelling definition to the source lines it translates. It also lists
the runs, the mutants, the findings and the hazards.

## The system

`bmd` is a single-threaded daemon built around a kqueue reactor
(`event_loop`, bmd.c 1137-1189). Each event is dispatched to a callback that
runs to completion before the next `kevent` call. The events that change
supervisor state are these:

- **process exit** (`on_vm_exit`, 324-379). This is the VM state machine.
  - LOAD: the loader exited, so bhyve starts or the VM stops.
  - RESTART: the reboot shutdown is done, so the VM boots again after a delay.
  - RUN: bhyve is relaunched, or the RUN case falls through to STOP.
  - STOP: the VM is cleaned up.
  - REMOVE: the VM is cleaned up, unlinked and freed.
- **one-shot timer** (`on_timer`, 229-252). A boot-delay timer starts a
  TERMINATE VM. A loader or stop timeout powers the VM off, except in RUN,
  where the timer is ignored.
- **SIGHUP**. `reload_virtual_machines` (1006-1135) parses the
  configuration again and reconciles it with the tracked VMs.
  - It adds new VMs.
  - It reboots, stops or starts changed ones, according to `boot` and
    `reboot_on_change`.
  - It marks VMs that are gone as REMOVE, or frees them at once.
  - It commits the new definitions.
- **SIGTERM**. `event_loop` returns, and `stop_virtual_machines`
  (1191-1230) sends an ACPI poweroff to every LOAD or RUN VM. It arms a stop
  timer for each, then dispatches events until it has seen as many process
  exits as VMs it stopped.

A VM is started by `start_virtual_machine` (901-950) in three steps:

1. `assign_comport` (834-899) picks a console. It keeps one already assigned,
   uses a literal one, or for "auto" probes `/dev/nmdm<max+i>B` above the
   largest number in use.
2. `VM_START` forks the loader or bhyve, creating the taps when the VM starts
   from TERMINATE.
3. The process exit is watched and, in LOAD, a loader timeout is armed.

`stop_virtual_machine` (986-993) clears the VM's timers and calls
`VM_CLEANUP`, which destroys the taps and forgets the pid. `VM_START`,
`VM_CLEANUP` and `VM_POWEROFF` live in `vm.c`, which is not in this
repository. Their effect is modelled from the spec and marked
`spec_modelled` in the map.

## Modules

| Module | Models |
|---|---|
| `Supervisor.tla` | the daemon: state, callbacks, reload and shutdown |
| `MC_Supervisor.tla` | small sets of definitions for TLC |
| `SupervisorProofs.tla` | type correctness and the inductive invariant `IInv` (TLAPS) |
| `SupervisorSafety.tla` | pid, state and tap consistency `SInv` (TLAPS) |
| `SupervisorTimers.tla` | the stop timer and the no-op reload (TLAPS) |
| `SupervisorConsoles.tla` | unique and sticky auto-assigned consoles (TLAPS) |
| `DirectRun.tla` | `direct_run` in bmd.c 1379-1482, the `bmd run` command |
| `MC_DirectRun.tla` | TLC instance of `DirectRun` |
| `DirectRunProofs.tla` | the label invariant `DInv` and the two properties (TLAPS) |
| `Bhyved.tla` | `bhyved.c`, the older stand-alone daemon |
| `MC_Bhyved.tla` | net counts for TLC |
| `BhyvedProofs.tla` | the invariant `BInv` and the two properties (TLAPS) |
| `Reactor.tla` | `Supervisor` composed with the one-shot `struct event` that `event_loop` retires after each callback |
| `MC_Reactor.tla` | TLC instance of `Reactor` |
| `VMLifecycle.tla` | the abstract per-instance lifecycle the spec promises (sections 3 and 4.2) |
| `SupervisorLifecycle.tla` | `Supervisor` with the refinement mapping onto `VMLifecycle` |
| `MC_SupervisorLifecycle.tla` | TLC instance of the refinement check |
| `LifecycleProofs.tla` | the refinement theorem, and `NoOrphan` proved of the abstract lifecycle (TLAPS) |
| `VMConf.tla` | the heap objects of one definition: `conf.c`'s allocators and `load_config_file`'s loop (parser.c 1292-1320) |
| `MC_VMConf.tla` | TLC instance of `VMConf` |
| `VMConfProofs.tla` | no double free and no dangling pointer while a definition is built (TLAPS) |

### State in `Supervisor`

| Variable | Code |
|---|---|
| `phase` | where `main` is: start_virtual_machines, event_loop, inside reload, inside stop_virtual_machines, exited |
| `tracked` | names that have a `vm_entry` on `vm_list` |
| `conf`, `newconf` | `VM_CONF` / `VM_NEWCONF` of each entry: a definition entry `[name, def, gen]`, `gen` being the reload that parsed it |
| `confList`, `newList` | `vm_conf_list` and the `new_list` of a reload in progress |
| `freed` | definition entries already freed (`free_vm_conf_entry`) |
| `vmState`, `proc` | `VM_STATE`, and which child `VM_PID` runs (none, loader, bhyve) |
| `inst` | `VM_CONF(vm)->install`, cleared by the STOP case |
| `taps`, `hostTaps` | taps the entry holds, and taps existing on the host for that name |
| `ascom`, `devs` | `VM_ASCOMPORT` as an nmdm number (-1 is NULL), and nmdm nodes present under `/dev` |
| `timers` | pending one-shot timer events of each VM, counted per purpose (boot, loader, stop) |
| `count` | `stop_virtual_machines`' count of exits to wait for |
| `todo` | definitions the startup or reload loop has still to visit |
| `killed` | VMs whose process was sent `VM_POWEROFF` (SIGKILL) and whose exit is therefore certain |
| `reaped` | VMs whose `VM_PID` names a process that `on_vm_exit` already collected with `waitpid` |

A definition keeps only the fields the control flow reads:

- `boot`
- `boot_delay > 0`
- `reboot_on_change`
- the number of nets
- whether the backend has a loader
- whether a loader timeout is set
- the comport: none, "auto" or a literal nmdm number
- `install`
- whether the backend is bhyve

### Actions

Each action is one callback, or one turn of a loop of the reload.

| Action | Code |
|---|---|
| `start_virtual_machines(v)` | one turn of the startup loop (952-984) |
| `on_vm_exit_load/restart/run/stop/remove` | one case each of `on_vm_exit` |
| `on_timer(v, p)` | `on_timer`, for a pending timer of purpose `p` |
| `reload_begin` | a successful `load_config_file` and the clearing of `VM_NEWCONF` |
| `reload_add(v)`, `reload_update(v)` | the two branches of the loop over `new_list` |
| `reload_finish` | the sweep of `vm_list` and the commit of `new_list` |
| `stop_virtual_machines` | its first loop |
| `shutdown_done` | the end of its counting loop, and `main`'s teardown |

`start_virtual_machine` has three outcomes. The console probe can fail and
return early. `VM_START` can fail, or `wait_for_vm` can fail after the fork
(920-929): either way the VM is powered off, waited for and cleaned up. Or
the VM runs. The early return leaves `VM_PID` as it was. When the caller is
`on_vm_exit`, that pid has already been collected, so `StalePid` adds the
VM to `reaped`.

Within an action, a process exit and the delivery of its event are one step,
because nothing in the daemon observes a process between them. Process exit
statuses, timer firings and the outcome of `VM_START` and of the console
probe are nondeterministic inputs. A reload runs as a single callback in the
code. The model splits it into steps, but no other action is enabled while
`phase = "reload"`, so the split adds no interleavings.

### `Reactor`

`Reactor` extends `Supervisor` with `cur`, the one-shot event whose callback
has just returned. `event_loop` runs `(*event->cb)(...)` and then, for an
`EV_ONESHOT` event, runs `LIST_REMOVE(event, next); free(event)`. The model
splits this into two steps:

- `dispatch_exit(v)` / `dispatch_timer(v)` run the callback and set `cur`;
- `retire` clears `cur`.

`cur.freed` records whether the callback freed the event itself. This
happens when `on_vm_exit` in REMOVE calls `free_vm_entry`, which frees every
event whose data is the entry.

### `VMLifecycle` and the refinement

`VMLifecycle` states what the daemon promises for each instance, with no
states, timers, consoles or definitions:

- `live`: the instances that exist;
- `child`: the one process an instance runs (none, loader, bhyve);
- `held`: the taps it holds on the host.

Its actions are:

- `Admit`: a name is seen for the first time, possibly launched at once;
- `Start`: an idle instance launches a child with fresh taps;
- `Handover`: loader to bhyve on the same taps;
- `Relaunch`: bhyve relaunched on the same taps;
- `Reap`: the child exits and every tap is destroyed, possibly destroying
  the instance;
- `Forget`: idle instances are destroyed.

`SupervisorLifecycle` maps `live <- tracked`, `child <- proc` and
`held <- hostTaps`. It checks `LifecycleRefined == Lifecycle!ASpec` as a
temporal property. `child <- proc` maps the recorded `VM_PID`: on the
stale-pid path (finding 6) it names a process that was already reaped,
which the abstract lifecycle still counts as a running child.

### `VMConf`

`VMConf` follows one section of the configuration through `load_config_file`.
Objects are ids handed out in order up to `MaxAlloc`, and `heap` is the set
of ids still allocated. Every `malloc`, `calloc`, `strdup` and `asprintf`
may fail, so each allocation is a nondeterministic choice.

The conf's state is kept as follows:

- `blk` is the block, first a `vm_conf` and later a `vm_conf_entry`;
- `str` holds its string members and those of its fbuf;
- `lst`, `last` and `cnt` are, for each list head, the nodes
  `STAILQ_FOREACH` reaches from `stqh_first` (in order), its `stqh_last`
  and the count;
- `nf` holds the nodes' strings.

`last` is a location: the head inside a given block, or a node's `next`
field. `STAILQ_INSERT_TAIL` stores the new node at that location
(`StoreAt`). A store to the head of the current block makes the node the
whole list. A store to the `next` field of a node on the list cuts the
walk after that node and appends the new one. A store anywhere else (an
unreachable node, or a freed block) leaves the walk as it was. The `next`
fields of nodes no walk reaches are not kept. A list is a sequence rather
than a chain of `next` pointers so that the proofs need no induction over
the chain. This is what makes the `realloc` bug visible. When the block moves,
the copy keeps `stqh_last` pointing into the old block. `wild` and `dfree`
record a store to freed memory and a free of something not allocated.
`wild` is kept so the model does what the code does, but no run checks it
(finding 14).

The actions are:

- `create_vm_conf`, with `create_fbuf`'s all-or-nothing;
- `realloc_entry`, which fails, grows in place or moves;
- `set_params`, one parameter per step: a string or fbuf setter, or
  `add_disk/iso/net_conf` with `STAILQ_INSERT_TAIL`;
- `finish`, which is `check_conf` and then either `LIST_INSERT_HEAD` or
  `free_vm_conf`.

A list parameter given with `=` first calls `clear_*_conf`. That function
is not under `src/`, so the model applies list parameters as `+=`.

### `DirectRun`

`direct_run` starts one VM in the foreground and returns. `pc` is the label
it is at. `def` is the VM's definition, chosen in `Init`: whether it has a
loader, whether it has a loader timeout, and its number of nets. `vst`,
`proc` and `taps` are the VM's state, child and taps. `evs` holds the
kevents registered on its queue, and `rc` the value it returns. The actions
are:

- `setup_fail`: `kqueue`, `lookup_vm_conf` or `create_vm_entry` fails.
- `launch`: `assign_comport`, `VM_START` and the `kevent_set`, with their
  failure paths.
- `wait_fail`: `kevent_get` fails.
- `on_proc_exit(ok)`: the child exits with status 0 or not.
- `on_loader_timeout`: the loader timeout fires.
- `boot`: after the loop, bhyve starts from LOAD or the function returns
  from RUN.
- `reap`: the final `waitpid`.

Every error path is `cleanup_and_return(1)`, which is `VM_CLEANUP` and
`free_vm_entry`.

### `Bhyved`

`bhyved` reads one VM per file of `./conf.d`. It creates taps for the VMs
that boot, runs `bhyveload` and then `bhyve`, and reacts to their exits.

Taps are counted: `held[v]` is the number of nets of `v` whose `nc->tap` is
set. The tap helpers are sets of outcomes, because each helper starts with a
`socket()` call that may fail. The helpers are:

- `assign_taps`, which fails at any net and then calls `remove_taps`;
- `activate_taps`;
- `remove_taps`;
- `start_vm`;
- `exec_bhyve`;
- `destroy_vm`.

The actions are:

- `register_signals`;
- `start_virtual_machine(v)`: one turn of the startup loop;
- `on_exit(v, s)`: the `EVFILT_PROC` case of the event loop, with its LOAD,
  reboot and teardown branches;
- `shutdown`: SIGTERM, after which the empty `stop_virtual_machines` runs.

## Runs

The passing runs use small instances. Two VMs suffice for the console
collision and for interleaved exits. One VM with two reloads suffices for the
reload decision table. The bounds `MaxExit` and `MaxReload` end behaviours.
That, and the daemon really stopping after `shutdown_done`, is why deadlock
is not checked (`CHECK_DEADLOCK FALSE`).

| Run | Properties | What it shows |
|---|---|---|
| `change` (1 VM, 5 definitions, 4 exits, 2 reloads, `LiveSpec`) | `PidValid`, `TapOwnership`, `StopTimerOnlyWhileStopping`, `NoOpReloadStable`, `TimeoutBoundsStop` | pids match states; no tap leaks through restarts and reloads; a stop timer never survives into a state where it would boot or kill a healthy VM; reloading an unchanged definition leaves the VM alone; every LOAD, STOP, RESTART or REMOVE with a timeout armed ends, whatever the guest does, unless its recorded pid was already reaped (the stale-pid path, which the definitions without `reboot_on_change` make reachable here) |
| `refinement` (2 VMs, 3 exits, 1 reload; 2.5 M states) | `TypeOK`, `AutoComUnique`, `ComportSticky`, `LifecycleRefined` | types hold; auto consoles of two VMs never collide and never change while the entry lives; every step of the daemon is a step of the abstract lifecycle, or a stutter |
| `direct_run` (nets 0-3, every definition) | `ReturnsClean`, `ZeroMeansGuestRan` | every return path of `bmd run` leaves no child and no taps; 0 is returned only after bhyve ran and was reaped |
| `bhyved` (3 VMs, 2 booting, 1-2 nets) | `ChildMatchesState`, `BhyveHasTaps` | each child matches its VM's state, and bhyve always runs with all of its taps, over reboots and failed starts |
| `vmconf` (16 allocations, 3 parameters of every kind) | `NoDoubleFree`, `NoDangling` | whatever allocation fails and wherever realloc puts the block, nothing is freed twice and nothing reachable from the conf dangles |
| `readd` | `ActiveDefsLive` (violation) | a VM removed and re-added before it stopped frees a live definition entry |
| `orphan` | `ShutdownLeavesNoProcess` (violation) | shutdown can exit while a VM process restarted during the wait is running |
| `hang` (`LiveSpec`) | `ShutdownCompletes` (violation) | a guest in RUN that ignores the ACPI poweroff keeps the shutdown waiting for ever |
| `unlink` | `UnlinkOnlyLinked` (violation) | a second reload unlinks an already unlinked definition entry |
| `reactor` | `RetireLiveEvent` (violation) | `event_loop` frees a one-shot event that its callback already freed |
| `stalepid` | `PidWatched` (violation) | `start_virtual_machine` returns early and leaves `VM_PID` on a reaped process |
| `boottimer` | `BootOnlyOnBootTimer` (violation) | a loader timeout left armed by a failed bhyve start fires in TERMINATE and boots the VM |

More configurations check properties that the code also violates. They are
not among the runs, and the findings below describe them:

| Configuration | Property |
|---|---|
| `MC_Supervisor_timers.cfg` | `AtMostOneTimer` |
| `MC_Supervisor_taps.cfg` | `TapsMatchDefinition` |
| `MC_Bhyved_live.cfg` | `ActiveHasProcess` |
| `MC_Bhyved_leak.cfg` | `NoTapLeak` |
| `MC_VMConf.cfg`, with its invariants replaced | `CreateAllOrNothing`, `NodesComplete` |

The `direct_run` run has no bound: the function runs once and returns. In
`bhyved`, three VMs cover two kinds of VM: one that does not boot, with
one net, and two that boot, with two nets each. Two nets make `assign_taps` fail
part-way. Every behaviour of bhyved is finite, because once a VM's child is
gone it is never started again, and a reboot loop revisits states TLC has
already seen.

Each property of a passing run has a mutant in `PROJECT.json`: a plausible
bug in the code that TLC catches with that property. The mutants are:

- counting exits after the count reached 0;
- `VM_CLEANUP` keeping the pid;
- `assign_comport` ignoring assigned consoles when it computes the maximum;
- `assign_comport` without its "already assigned" check;
- taps recreated on the loader-to-bhyve start;
- `stop_virtual_machine` keeping timers;
- the reload's boot comparison dropped;
- `direct_run` without the `VM_POWEROFF` of its `kevent_set` failure;
- `direct_run` returning from LOAD without starting bhyve;
- `exec_bhyve` forgetting `vm->state = RUN`;
- `assign_taps` stopping one net short;
- `on_timer` ignoring timeouts in every state (`TimeoutBoundsStop`);
- taps recreated on the loader-to-bhyve start, which the abstract lifecycle
  has no step for (`LifecycleRefined`);
- a `realloc` failure that frees the block and then calls `free_vm_conf`
  (`NoDoubleFree`);
- `set_string` freeing the old string before its `strdup` (`NoDangling`).

### Fairness

`LiveSpec` adds weak fairness to the following actions:

- `on_timer(v, p)`. The kernel fires every armed `EVFILT_TIMER`.
- `KilledExit(v)`. A process sent `VM_POWEROFF` gets SIGKILL, which it
  cannot catch, so its `EVFILT_PROC` event comes. This fairness covers only
  the VMs in `killed`.
- The steps of the startup and reload loops, `reload_finish` and
  `shutdown_done`. A callback or loop that has begun runs to its end.

A guest's own exit, a signal and a reload come from the environment, and
they get no fairness.

The liveness runs need bounds. `nExit = MaxExit` and `phase = "done"` are
allowed outcomes, because behaviours stop at the bound.

## Findings

Findings 1 to 7 each come with a run that shows them. Findings 8 to 13 come
with the configurations listed above.

1. **Freeing a live definition** (`readd`). A REMOVE VM listed again by a
   later reload has `VM_CONF` replaced by the new entry (1124). When its
   process exits, `free_vm_entry` frees that entry while it is on
   `vm_conf_list`, and the next reload frees it again (1128).
2. **Orphan process at shutdown** (`orphan`). The exits that
   `stop_virtual_machines` counts can run callbacks that start new processes
   (loader to bhyve, or a boot ALWAYS relaunch).
3. **Shutdown can hang** (`hang`). `on_timer` ignores every timer in RUN
   (248-250). This includes the stop timer that `stop_virtual_machines`
   arms after the ACPI request. A guest that ignores ACPI keeps the daemon
   waiting for ever. Spec 4.4 says a stop escalates to a forced poweroff.
4. **Second unlink** (`unlink`). A REMOVE VM that is still missing from the
   next reload reaches `LIST_REMOVE(VM_CONF_ENT(vm_ent))` (1114) again. Its
   entry was already unlinked, and the list it pointed into was freed at
   1128.
5. **Use after free of the dispatched event** (`reactor`). In REMOVE,
   `on_vm_exit` calls `free_vm_entry` (372), which frees every event of the
   entry, including the one being dispatched. `event_loop` then reads its
   flags, unlinks it and frees it (1163-1165). `stop_virtual_machines`
   does the same at 1217-1219.
6. **Stale pid** (`stalepid`). `on_vm_exit` reaps the loader and calls
   `start_virtual_machine` (338, and the relaunch at 356). If
   `assign_comport` fails, it returns at 911. The VM stays in LOAD or RUN,
   `VM_PID` names a collected process, and no event will ever move it. One
   trace:
   - a reload turns the console from none to "auto";
   - the probe then fails when bhyve is started.
7. **A loader timeout boots the VM again** (`boottimer`). The loader
   exits 0 and `start_virtual_machine` fails to start bhyve (`VM_START`
   at 914-917, or the watch registration at 920-928). `VM_CLEANUP` puts
   the VM in TERMINATE but cancels no timer, so the loader timeout set at
   937 is still armed. When it fires, `on_timer` (235-237) takes it for a
   delayed boot and starts the VM. Spec 4.2 starts a TERMINATE VM only on
   a delayed-boot timer, and its full cleanup cancels every timer. Spec §7
   leaves a relaunch after a launch failure to the boot policy.
8. **Stacked timers** (`AtMostOneTimer`). `set_timer` never cancels a
   pending timer. The reload (1061, 1079, 1106) and `stop_virtual_machines`
   (1203) add stop timers on top of pending ones, and the loader timeout
   survives into RUN. Spec §5 requires cancelling the prior timer.
9. **Taps out of date** (`TapsMatchDefinition`). With `reboot_on_change`
   off, a changed `nets` is committed without a restart.
10. **bhyved leaves VMs stuck** (`ActiveHasProcess`). `on_exit` ignores the
    results of `exec_bhyve` (bhyved.c 366) and of `start_vm` (370). After a
    failed malloc or a failed `activate_taps`, the VM stays in LOAD or RUN
    with no process, and nothing ever wakes it. Spec §7 says a launch error
    terminates the VM.
11. **bhyved leaks taps** (`NoTapLeak`). When `activate_taps` fails,
    `start_vm` (292) returns without removing the taps `assign_taps`
    created. `remove_taps` also gives up silently when `socket()` fails.
    Spec §7 says the taps of a failed start are destroyed.
12. **Leak in `create_vm_conf`** (`CreateAllOrNothing`). Its error path
    calls `free(fbuf)` rather than `free_fbuf` (conf.c 405-407). The three
    strings of the fbuf leak when `calloc` or `strdup(name)` fails.
13. **Incomplete iso entries** (`NodesComplete`). `add_iso_conf` tests
    only the node (conf.c 104). A failed `strdup` appends an iso whose type
    or path is NULL.
14. **Stale list tail after realloc** (not checked). `create_vm_conf`
    points each head's `stqh_last` into the `vm_conf` (conf.c 399-401).
    `load_config_file` then reallocs the block to a `vm_conf_entry`
    (parser.c 1306). If the block moves, the first `add_*_conf` stores the
    node into the freed block. The new head stays empty while `ndisks`,
    `nisoes` or `nnets` counts the node. This needs a list parameter given
    with `+=` before any `=` in the section. The model records the store
    (`wild`); no run checks it, since it follows from the realloc step in
    one move.

## Proofs

`SupervisorProofs` proves `IInvariant == Spec => []IInv` and
`TypeCorrect == Spec => []TypeOK`. `TypeOK` alone is not inductive. A step
reads `conf[v].def` of tracked VMs and the `NewEntry(v)` of names still to
visit, and those must be real definition entries. A VM's taps are also
subtracted from the host count on cleanup, and the count must not go
negative. So `IInv` conjoins `TypeOK` with two more facts:

- `EntriesExist`: tracked and pending names have entries in `Entries` and in
  `newList`.
- `TapsCovered`: `hostTaps >= taps`.

The proof has one lemma per action, and lemmas for the helpers (the console
probe, `VM_CLEANUP`, `start_virtual_machine`, `stop_virtual_machine`). The
type of `count` after `stop_virtual_machines` uses the finiteness of `VMs`
(`VMsAssumption`) and `FS_Subset` / `FS_CardinalityType`.

`SupervisorSafety` proves `SInvariant == Spec => []SInv`, and from it:

- `PidValidity == Spec => []PidValid`;
- `TapsNeverLeak == Spec => []TapOwnership`.

`SInv` adds two things to `IInv`:

- the per-VM consistency of pid, state, image and taps;
- `StartupFresh`: names the startup loop has still to visit are untracked.

`StartupFresh` is needed because `start_virtual_machines` adds a name to the
tracked set, and the host taps of that name must be 0 before.

The assumptions are `DefsAssumption` (definitions are well typed),
`BoundsAssumption` and `VMsAssumption`.

`DirectRunProofs` proves the following for every definition (assumption:
`NetCounts \subseteq Nat`):

- `CleanReturn == Spec => []ReturnsClean`;
- `ZeroOnlyAfterGuest == Spec => ZeroMeansGuestRan`.

`ReturnsClean` is not inductive, because a step into `done` leaves `proc` as
it is on some paths. The invariant `DInv` states, per label, what holds
there:

- no child at init, boot and done;
- no taps at init and done;
- RUN while reaping.

The action property follows from `DInv` by a case split on the two steps
that can return 0.

`BhyvedProofs` proves the following for every `conf.d` and every net count:

- `ChildrenMatchStates == Spec => []ChildMatchesState`;
- `BhyveAlwaysHasTaps == Spec => []BhyveHasTaps`.

`BhyveHasTaps` alone is not inductive: bhyve inherits the taps of the loader
phase. So `BInv` strengthens it in two ways:

- every child, loader or bhyve, holds `Nets[v]` taps;
- the VMs the startup loop has still to visit are unlisted and have no child.

Lemmas state what `assign_taps` and `start_vm` return: a tap count, and all
of the taps on success.

`LifecycleProofs` proves `Refinement == Spec => LifecycleRefined` for every
set of VMs and every definition. The argument has three parts:

- `Init` maps to `AInit`.
- Every `Next` step, in a state satisfying `SInv`, is an `ANext` step under
  the mapping, or a stutter (`NextMaps`).
- `SInvariant` discharges the `SInv` hypothesis.

There is one lemma per group of actions:

- `StartLifecycle` lists the five outcomes of `start_virtual_machine`.
- `CleanupReaps` shows that `VM_CLEANUP` of a tracked running VM is a `Reap`.
- `ExitMaps`, `TimerMaps`, `ReloadMaps` and `ReloadFinishMaps` cover the
  callbacks.

`SInv` is needed for two facts. An idle VM holds no host taps, which a
`Launch` requires. A process exit always finds the VM tracked.

The same module proves what the abstract lifecycle promises.
`AbstractNoOrphan == Lifecycle!ASpec => []Lifecycle!NoOrphan`
is proved from the abstract actions alone. `NoOrphan` is inductive once the
functions are typed (`ALifeInv`), which the `EXCEPT`s of `Launch`, `Reap`
and `Handover` need. `LaunchKeeps` covers `Admit` and `Start`, which both
launch. It is not carried to the daemon through the refinement. Under the
mapping, `child` is the recorded `VM_PID`, and on the stale-pid path that
names a process already reaped, so the result would speak of the recorded
pid and not of a running process.

`SupervisorTimers` proves `StopTimerSafety == Spec =>
[]StopTimerOnlyWhileStopping` and `NoOpReloadStability == Spec =>
NoOpReloadStable`. The invariant `TInv` is `SInv` with
`StopTimerOnlyWhileStopping`. After `stop_virtual_machines` the phase
never goes back, and the property holds trivially. Before it, the property
says, per VM (`StopStrict`), that a stop timer belongs to a tracked VM in
STOP, RESTART or REMOVE. Two lemmas carry the proof. Every call of
`start_virtual_machine` is made with no stop timer in hand. Every state
change out of STOP, RESTART or REMOVE clears the timer. The no-op reload
rests on `CompareSame`: `compare_vm_conf` finds no difference between a
definition and itself, so `reload_virtual_machines` marks no VM for update
and touches none.

`SupervisorConsoles` proves `ComportStability == Spec => ComportSticky`
for all constants. It also proves
`AutoConsolesUnique == ASSUME NoLiteralConsoles PROVE Spec => []AutoComUnique`:
two tracked VMs never share an auto-assigned nmdm number, under the
hypothesis that every definition has `com` -1 or `AUTO`. The hypothesis is
needed. `assign_comport` skips only the numbers already assigned, and
never compares with a literal `com` of another definition. TLC finds
`AutoComUnique` violated with two VMs, one of which has the literal
console number 1.
The invariant `CInv` adds `UntrackedNoConsole` to `IInv`: a VM that is not
tracked has no console assigned. The step lemma `ProbeAbove` shows that a
successful probe returns a number above every console a tracked VM holds.
Hence a newly assigned console differs from all of them.

`VMConfProofs` proves `DefinitionNoDoubleFree == Spec => []NoDoubleFree`
and `DefinitionNoDangling == Spec => []NoDangling`. They hold for every
`MaxAlloc`, `MaxParams` and `Params`, and for every choice of which
allocations fail. Neither property is inductive. `set_string` frees the
old string, and the realloc that moves the block frees the old block.
Both are safe only if no other member holds the same object. The
invariant `VInv` therefore has three parts:

- every allocated id is below `nid`, so what the allocator hands out next
  is held by nobody;
- while `pc` is `create`, nothing is allocated and no member or list is
  set;
- while the definition is built (`Owned`), its block, fbuf, strings, list
  nodes and node strings are allocated or NULL, and each string member and
  the block are held exactly once (`StrAlone`, `BlkAlone`).

`StoreAtRange` shows that `STAILQ_INSERT_TAIL` puts on a list no node but
the one inserted. There is one lemma per action. `AddStep` serves all
three `add_*_conf` functions.

Only TLC checks the following:

- the violated properties;
- `TimeoutBoundsStop` and `ShutdownCompletes`. Liveness and `ENABLED` are
  beyond TLAPS.

## Not modelled

| Part | Why |
|---|---|
| `bhyved.c` config reading (`read_conf_files`, `parse_file`) | a configuration is the constants `VMs`, `Boots`, `Nets` |
| stdin forwarding in `direct_run` (`EVFILT_READ`) | changes no state |
| the parser's tokenizer, variables and field parsing (`parser.c`) | string processing: `Supervisor` takes a configuration as a set of unique names with definitions from `Defs`, and `VMConf` keeps only which object each field points to |
| `copy_net_conf`, `set_hookcmd`, `assign_nmdm`, `dump_vm_conf` (`conf.c`) | no caller under `src/`, or output only; `free_vm_conf` never frees `hookcmd` |
| the command socket, plugins, output logging | no effect on supervisor state |
| `tap.c` | tap creation is counted, not performed |
| events other than the one being dispatched | `Reactor` keeps only the event whose callback has just returned; the timers are counts |

## Plan

1. A model of `vm_conf_list` links, so that the second unlink is an illegal
   write rather than a missing member.
2. Several sections in `VMConf`, and the `=` operator once `clear_*_conf` is
   available.
