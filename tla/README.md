# A verification project for dji4g-gen1-panel

The panel is a Windows tray program for first-generation DJI 4G modules: it watches
the module (USB, AT port, network adapter, hotspot, connectivity), and repairs it when
the user agrees. It is a Rust workspace: `crates/domain`, `crates/application`,
`crates/at-protocol`, `crates/ipc`, `crates/windows-platform`, and the programs
`apps/panel`, `apps/helper` and `apps/updater`. `docs/architecture.md` is its own
description; the modules here are translated from the source, and the docs only
supply the claims that some runs refute.

Line references below are to files under `src/`.

## 1. The system

### 1.1 Parts and how they interact

    user ── egui frame (panel/app.rs) ── dialog thread ──┐ bounded command queue
             ▲ watch channel of snapshots                ▼
             └────────────── ControllerRunner + Controller (one thread) ── RefreshSignal
                                │ spawns               │ polls, one slot each
                                ▼                      ▼
                        executor thread          scan stages, SMS, tools, host network
                                │                      │
                                ▼                      ▼
                        AT session actor (one worker thread per open port, one lease per port)
                                │
                                ▼
                              module

    panel ── handoff thread ── updater process ── new panel process
       └── markers, installation directory, transaction directory ──┘

- One **runner** thread owns the `Controller`. Everything a command handler reads is
  state of that thread. Commands arrive over a bounded `mpsc` channel with `try_send`
  (a full queue drops the command), snapshots leave over a watch channel that keeps the
  latest value only. The refresh request is a flag beside the queue.
- A **confirmed plan** is executed on a thread of its own whose result comes back over a
  channel the runner polls. SMS, device tools, network check, host-network work and
  scans use further threads, one slot each.
- Whoever talks to the module opens an **AT session**: an actor whose worker thread owns
  the port. Any thread may submit to it, invalidate it or close it; a process-wide lease
  keeps the next session off the port until the last worker has left it.
- **Confirmed repairs** (all but the hotspot) go through a one-shot elevated helper over an
  authenticated named pipe, one pipe and one request per operation.
- The **local SMS history** is a worker thread of the window's process: bounded commands
  in, answers out, one encrypted file that nobody else writes. Whether it captures is one
  of the saved settings.
- The **updater** is a process that outlives the panel: panel, updater, helpers and the
  new panel share a directory and marker files, and nothing else.

### 1.2 Inventory

`status` is the one of `PROJECT.json`. *Hard* names what makes the part difficult to test.

| Part | State it keeps | Operations | Hard | Correct when | Status |
|---|---|---|---|---|---|
| Controller (`application/controller.rs`, `confirmation.rs`) | prepared plan, consumed ids, operation, its pending channel, busy flags | prepare, confirm, cancel, dismiss, set probe, poll completion, apply event | plan and device change while a box is open; executor thread dies; repeated confirmations | at most one write per consent, alone, on the ground consented to, reported as it ended | partly |
| Runner, monitoring (`monitor.rs`, `sync.rs`) | refresh flag, deferral, current scan, published snapshot | loop, scan, publish, poll jobs | commands wait behind a scan; deferral; abandoned plans | scans yield to interactions, and resume | partly |
| Evidence reducer (`reducer.rs`, `domain/device.rs`) | facts with age and epoch, epoch, revision, classification | one handler per event | events of an old epoch; answers stamped later than they were taken; revision as the plan's freshness | no fact outlives its epoch; green only on a recent proof | partly |
| Native dialogs (`panel/app.rs`, `native_dialog.rs`) | dialog slot, dialog thread, last result shown | click, answer, wait for plan, show result | snapshot behind the command; late plan; lost command | what is confirmed is what the box showed; the slot comes free | modelled |
| AT session actor (`serial.rs`) | lease, terminal flag, outstanding counter, queue, backlog, replies | submit, invalidate, close, worker loop, coalescing, retry | three parties race on terminal; slots; leftovers of timeouts | one port owner, one answer per request, no write twice | modelled |
| AT parser (`at-protocol/parser.rs`) | partial line, pending result | feed | echo, late lines | a line is credited to the command it answers | partly |
| Repair executor (`windows-platform/repair.rs`) | observation, frozen plan, dispatch result | prepare, execute, rescan, write, verify | unplug between steps, readback lost | Applied means stored, Failed means not written | partly |
| SMS send, history, delete (`sms_transaction.rs`, `sms_history.rs`, `sms_delete.rs`) | phase, cancellation, storage to restore | send, list, checked delete | cancellation against the last acknowledgement; restoration; card exchanged | an ambiguous send is not "failed"; storage restored; only the proven record is deleted | send partly, history and deletion modelled |
| SMS codec (`sms_pdu.rs`) | none | encode, decode | – | round trip | not modelled |
| Device tools (`device_tools.rs`, `tool_*`) | one request, its transaction | queue, run, poll | arbitration with SMS and scans | one serial owner | not modelled |
| Module network check (`module_network_check.rs`) | request, its cycle and epoch, report | request, observe, finish | its cycle dies under it; facts of an earlier one | a report rests on its own cycle and always comes | partly |
| Host network and proxy repair (`host_network.rs`, `proxy_repair.rs`) | task, proxy snapshot | inspect, apply, undo | timeout of a task that still writes | undo restores what was there | not modelled |
| Elevation, helper, IPC (`privilege.rs`, `crates/ipc`, `apps/helper`) | operation, nonces, pipe, helper's own plan | prove, launch, accept, send, receive, execute | either side killed; panel gives up while the helper works; request aged behind the prompt | written at most once, on what was proven, and never told otherwise | partly |
| Standalone updater (`apps/updater`) | lock, retained processes, staged files, backups | stage, wait, replace, confirm, roll back | killed between renames; locked files; user's own panel | the old payload is never lost, the report is true | modelled |
| Archive validation (`updater/archive.rs`) | none | verify, unpack | – | allowlisted names only | not modelled |
| Update service (`panel/update`) | state, check task, download, updater child | check, download, install, poll | cancelled check, dead updater | single flight; no exit for a dead updater | partly |
| Availability (`domain/availability.rs`) | none | classify | order of precedence, freshness | the documented order | partly |
| Probe, PnP (`probe.rs`, `pnp.rs`) | none | native queries | answers about what is gone | – | partly (as what they may answer, and when) |
| Adapter resolution, hotspot (`adapter.rs`, `hotspot.rs`) | none | native queries | – | – | not modelled |
| Panel runtime (`runtime.rs`, `main.rs`) | inventory epoch, last observation | evidence and executor ports | epoch advance on absence, return, drift | a new device is a new epoch | partly |
| SMS archive (`sms_archive.rs`, `app.rs`) | encrypted file, rows, pending commands, the exit's last snapshot | load, capture, purge, clear, export, maintain, drain at exit | failing saves, crashes, answers of two kinds, exit with work under way | only what was allowed, all that was reported | modelled |
| Settings (`config.rs`) | one file | load, save with readback | a save that fails after the replacement | what was reported is what the next launch finds | partly |
| Single instance, tray, autostart | mutex, event | acquire, activate | two starts at once | one window | not modelled |
| Driver setup, diagnostics, logging, UI | – | – | – | – | not modelled |

The reasons are in `PROJECT.json`: planned (section 5), pure I/O or formatting, or pure
functions without state.

### 1.3 Hazards

`PROJECT.json` lists each at its line with the properties that would catch it. They fall
into eight groups:

- evidence that moves under an open box (`controller.rs:2015`, `:676`, `:504`);
- the box and the runner seeing different snapshots (`app.rs:2305`, `:2247`, `:2411`);
- the three-way race on an AT session (`serial.rs:838` to `:1143`);
- late answers and lost readbacks of a module that is slow or unplugged (`serial.rs:1654`,
  `repair.rs:795`);
- an SMS transaction stopped around its point of no return (`serial.rs:576`, `:635`,
  `sms_transaction.rs:186`, `sms_history.rs:253`);
- a helper that outlives the panel's patience or dies with its answer (`privilege.rs:699`,
  `:1148`, `:1243`);
- a proof credited to a device or a cycle that is not its own (`runtime.rs:825`,
  `monitor.rs:1706`, `reducer.rs:2289`);
- files half replaced: an installation (`updater/install.rs:85`), the SMS history and its
  switch (`panel/app.rs:629`, `:536`, `sms_archive.rs:537`).

Three have no property, because the code lets them happen: an explicit refresh is deferred
behind a waiting plan (`monitor.rs:1718`, a finding); a helper that is killed between its
write and its answer is told of as a failure (`privilege.rs:1148`, a finding); and the updater
may give the panel up after 60 s while the panel is already closing, and nobody starts it
again.

## 2. The modules

| Module | Extends | Code |
|---|---|---|
| `RepairContract` | – | none: what the controlled repair promises |
| `PlanLifecycle` | – (instantiates `RepairContract`) | `controller.rs`, `confirmation.rs`, `reducer.rs`, `monitor.rs` |
| `PlanLifecycleProofs` | `ConsentFlow`, `TLAPS` | theorems of `PlanLifecycle` and `ConsentFlow` |
| `ConsentFlow` | `PlanLifecycle` | `panel/app.rs`, the command queue, `sync.rs` |
| `SerialActor` | – | `windows-platform/serial.rs`, `at-protocol/command.rs` |
| `SerialActorProofs` | `SerialActor`, `TLAPS` | theorems |
| `RepairTransaction` | – | `windows-platform/repair.rs`, parts of `serial.rs` and `at-protocol/parser.rs`; the module and the bus are external |
| `RepairTransactionProofs` | `RepairTransaction`, `TLAPS` | theorems |
| `SmsSession` | – | `sms_transaction.rs`, `sms_history.rs`, `sms_delete.rs`, the parts of `serial.rs` that run them; module and card are external |
| `SmsProofs` | `SmsSession`, `TLAPS` | theorems |
| `RepairDelivery` | – | none: what the panel may tell of a repair another process carries out |
| `PrivilegedFlow` | – (instantiates `RepairDelivery`) | `privilege.rs`, `crates/ipc`, `apps/helper`, `execute_via_helper` of `runtime.rs` |
| `PrivilegedProofs` | `PrivilegedFlow`, `TLAPS` | theorems |
| `EvidenceFlow` | – | `run_refresh` of `monitor.rs`, `runtime.rs`, `reducer.rs`, `availability.rs`, `module_network_check.rs` |
| `EvidenceProofs` | `EvidenceFlow`, `TLAPS` | theorems |
| `ArchiveFlow` | – | `panel/sms_archive.rs`, `config.rs`, the parts of `panel/app.rs` and `main.rs` that use them |
| `ArchiveProofs` | `ArchiveFlow`, `TLAPS` | theorems |
| `Updater` | – | `apps/updater`, `panel/update`, parts of `panel/app.rs` and `main.rs` |
| `UpdaterProofs` | `Updater`, `TLAPS` | theorems |
| `MC*` | the module of that name | constants for TLC |

Definitions named `X_Something` right before `X` are mutated forms of `X`, each a bug one
could have written there; the project checks that every property notices one.

### PlanLifecycle

One handler of the runner is one step, since nothing else touches what it reads. What
interleaves is the clock, the executor thread (`WorkerReturns`), the scan's stages
(`InventoryFinished`, `StageFinished`) and the user. The reducer's evidence is reduced to
what a plan depends on: revision, epoch, proven target, the time it was observed, and the
*ground*, one value for everything else that enters the before-state hash. Stages come in
any order and number, which covers the order of `run_refresh` and its early ends.
Sources: `PrepareAction` is `prepare_action` (`controller.rs:504`), `ConfirmAction` and
`ConfirmInvalidates` are `begin_confirmation` with `revalidate_and_consume` (`:612`,
`:676`), `PollOperationCompletion` with `MapExecution` is `:654` and `:2113`. SMS, tool and
host-network work are the flags `serialJob` and `hostJob`. `executed` and `moved` are
history variables. The clock is taken to be monotone, though the code reads the wall clock.

`RepairContract` says in five transitions what all this is for: a plan is *shown* once,
*withdrawn*, or *written* at most once, with no other write under way and only while
nothing moved since it was shown. `Stage` in `PlanLifecycle` is the refinement mapping.

### ConsentFlow

Adds the dialog slot to `PlanLifecycle`. A click sends the prepare command and opens the
box at once; the dialog thread waits a bounded time for *a plan of that tag* to be
published. Queue and watch channel are modelled as they are (a full queue drops, a
publication may be late), so the box may be answered on an older snapshot. `planAction`,
`consent` and `resultBoxes` are history.

### SerialActor

Whatever `serial.rs` does under `submission_gate` is one step; the worker's own looks at the
terminal flag are not under it, so checking, writing and reading are separate. Bytes are
left out: an exchange writes a line and reads one outcome. Kinds of request differ in how
many exchanges they take (`Rounds`) and how often a line is repeated (`Attempts`).
Cancelling blocked native I/O only makes a read return sooner and is not a step. A session
request (SMS history, checked deletion) may still report success after an invalidation, by
design of `run_actor`, and `NoSuccessAfterTerminal` says so.

### RepairTransaction

One AT repair, five sessions in a row, each starting with `AT`, `ATI`. An observation then
asks for the setting, the contexts and their activation (`at_observation`); a read that fails
there is left out, and the next one is sent all the same (`Fails`). The module answers
in order but as late as it likes, also into the next session, and may be unplugged or
exchanged. Answers carry what they answer as history only; whether the host can tell is
`Fits`, read off the parser. The read limits are not clocks: a wait may end at any time
with `RetryRead` or `TimedOut`.

### Updater

Panel, updater, helpers, new panel and a panel the user starts meanwhile. Every rename and
removal is a step, may fail, and the updater may be killed between any two. `toRemove` and
`toRestore` are the lists `installed` and `moved_old` of `replace_and_confirm`
(`install.rs:62`). A file can be absent before the update when it is optional. Helpers are
started by the panel only, also by one that is closing, and the image of a running process
can be renamed but not deleted, as on Windows. One update session is modelled.

### SmsSession

A transaction is a script of AT commands (`NextStep` is the order in which `run` of each
transaction issues them) on a worker thread, while the calling thread waits, notices a
cancellation or its deadline, closes the session and reports. Each command is *checked*
(the look at session and control), *written* and *read* in steps of their own; what is read
is whatever lies on the line, so a late answer meets the next command (`Fits`, `Proves`).
The card may be exchanged at any step; the record that is found may be another one than the
listed one from the start, but is not replaced on the way. A history read switches
the module's storage and restores it on a budget of its own (`Restore`, `RestoreCheck`),
also after a cancellation. `proofs` is history: what was read of card, storage and record, in
order, and that the effect went out; `ProvenBeforeEffect` is about this order.

### PrivilegedFlow

For each operation the panel goes through find, prove, prompt, accept, send, receive and
exit, the helper through connect, take, check, inspect, prepare, compare, dispatch, readback
and respond. The waits of the panel are bounded and its steps beyond them (`ReceiveTimesOut`,
`ExitTimesOut`) close the pipe; the helper looks at the pipe only when it answers and so
may act after the panel gave up. `Change` exchanges the device or its state, `Age` lets a
request expire, `PanelDies` and `HelperDies` kill either side at any step, `CallFails` is the
system failing the panel's read or its wait for the process. `Means` and
`Report` are the two translations (`map_helper_response`, `map_execution`) between the
helper's verdict and what the user reads. A frame with a wrong nonce or a second frame
counts as a broken pipe.

`RepairDelivery` says what the user is owed: applied only if written; not done only if not
written *and from then on never written*; written at most once. "Not done" promises nothing of
a repair whose helper was killed, or whose pipe or wait the system failed: the code tells of a
failure there (see the findings), and `lost` keeps account of them.

### EvidenceFlow

One refresh after the other. Every stage runs on a worker (`scan`, `at`, `adapter`, `probe`)
that looks at the world when it pleases and answers when it pleases or never; the runner
takes the answer, or gives the stage up at its deadline (`Expired`, `InventoryFails`). What
the late inventory worker still writes into the port's memory (`Remember`) is written. The
reducer keeps one piece of evidence per kind with epoch and age (`ApplyAt`, `ApplyAdapter`,
`ProbePasses`, ...), `Status` is the classifier. `lately` is history: for each attachment,
how long ago its own path was last up. The hotspot's stage has no variables: its join, whose
bound (15 s) is shorter than the probe's (22 s), is the time `EndProbe` may take. `RequestCheck`, `Adopts`, `Probed` and `Finish` are
the user's network check.

### ArchiveFlow

One step per frame of the window (`Frame`, `ExitFrame`: take the snapshot, poll, observe),
one per click, and the worker's jobs in two steps, so that a crash, an exit or a click falls
between the decision and the file. Files are replaced in one step or not at all, as
`atomic_write` and `save_bytes` do by a temporary file. A failed save rolls the rows back
(`back`) and pauses captures until a clearing or a restart. A save of the settings may fail
after the file was replaced (`SaveEnd`). The exit keeps the snapshot of its first frame and
closes when the worker has answered to its capture; a handoff whose updater dies calls the
exit off. The queue of four is never full, as one command is under way at most
(`PendingIsUnderway` is checked). `user` is history: what the user switched on, saw
reported and had cleared; a message counts as allowed when it is captured with saving on.

## 3. What is checked

TLC checks twelve runs. Bounds are constants with names; each is the smallest at which the
mutants of that run are told apart and every action fires.

| Run | Question | Bounds |
|---|---|---|
| `plan_safety` | at most one write per plan, alone, on unmoved ground, on recent evidence; `RepairContract` implemented; operations end, monitoring resumes | 2 actions, 2 modules (one read-only), 2 grounds, 2 plans, revision ≤ 3 (prepare, move, move back), clock ≤ 3, a TTL below one tick and a lifetime of one, one epoch change (the first proof; later ones never come without a new revision, which the verdict compares first, and the theorems of `PlanLifecycleProofs` hold for any number), one other job |
| `consent_own_tags` | the box and the write are about the same action, results shown once, slot comes free | 2 clicks, 2 plans, queue of 2, tags tell the actions apart |
| `consent_shared_tag` | *violation*: the same with one tag for two DNS profiles | as above |
| `serial_reads` | coalescing, slots, answers, port given back | 1 session, 2 equal reads and a write (the read is repeated after a timeout, the write is not), queue of 3 |
| `serial_sessions` | one port owner, no repeated write, no success on a dead session | 2 sessions, a write, a prompt, a tool and a session request, queue of 2; sessions symmetric, numbers of exchanges and the order of the log left out of the view |
| `repair_safety` | the write goes out once, to the plan's module; Applied is real; an outcome comes | 2 modules, 2 values, 2 unplugs |
| `updater_safety` | files in use untouched, old payload recoverable, report true, no panel left behind | 4 files (the panel, two others, an optional one), 1 helper, 2 visits of a user's panel |
| `sms_sessions` | what is reported of message, record and storage is true; card proven before the effect; every transaction ends | all three transactions, 2 cards, one exchange, a storage the code has a name for beside those that can be asked for and one it has none for |
| `sms_send_race` | *violation*: a send that is reported as failed was not sent | a send, as above |
| `privileged_flow` | written as proven; `RepairDelivery` implemented; the panel answers | 2 operations (the helper of the first meets the second), 1 device, 2 states, one change |
| `evidence_flow` | green is recent and on its own adapter, a forbidden probe leaves nothing green, a report is of its own cycle and comes | a module on either of 2 adapters and another module, one change of the world, one request, TTL and probe limit of one tick, other stages of none, AT and adapter answers good or missing, probe good, failed or missing |
| `archive_history` | only what was allowed is kept, what was reported stays, one command under way, nothing undone at exit | 2 messages, a snapshot with one or both, cap of 1, retention of 2, clock ≤ 2, 2 publications, 2 launches |

Why these bounds are enough: a hazard between two plans, modules, sessions, helpers or visits
needs two of them; A-B-A on the evidence needs three revisions; expiry needs one tick beyond
lifetime and TTL; coalescing needs two equal reads and something between; a rollback that
mixes versions needs one file done, one in hand and one untouched; a row overtaken by another
needs two messages and a cap of one, one that is too old two ticks; a restart that refills
needs a second launch. One change of the world is enough for `evidence_flow` because the
stages of each cycle see the world before or after it independently. `CHECK_DEADLOCK` is off
where the system really stops: when every request is answered and every actor closed, when
the executor or the transaction has its outcome, when the updater has ended and the user has
nothing left to do, when the panel is closed and the launches are used up. The clock, ids,
revisions, epochs, jobs, clicks, visits, unplugs and moves are bounded in guards;
`MonitoringResumes` therefore speaks of runs with finitely many plans.

Each module's type invariant (`TypeOK`, `ConsentTypeOK`, `SmsTypeOK`, `EvidenceTypeOK`,
`ArchiveTypeOK`, ...) is either proved or was checked by TLC at these bounds; it is not
repeated in every run. The same holds of `AtMostOnce`, `OutcomeIsItsWorkers`,
`ScanYieldsToInteraction` (proved) and of `FreeMeansQuiet` (the module is free for the next
operation only when the worker has left the port), which a reader can add to the
configurations named after their modules.

### Fairness

- `PlanLifecycle`: weak fairness of the executor thread (its own waits are bounded, but for
  `ShellExecuteExW`, which blocks as long as the elevation prompt is open: `OperationEnds`
  supposes that the prompt is answered, by the user or by the system's time limit), the poll, the start and end of scans, the end of other jobs, and time. None for the user.
- `ConsentFlow`: weak fairness of the dialog thread and of publication, strong fairness of
  the command handling and of time. The clock is urgent: a unit is seconds and the runner's
  loop is milliseconds, so a step of the runner that is due comes before the tick. Command
  handling is disabled during each scan and enabled again after it, hence strong.
- `SerialActor`: weak fairness of the worker only; `COMMTIMEOUTS` bound every read and
  write. Nobody owes a submission, an invalidation or a close.
- `RepairTransaction`: weak fairness of the executor only: every wait has a deadline. The
  module owes nothing.
- `SmsSession`: weak fairness of the worker, whose native reads and writes come back, and of
  the caller, whose waits are bounded. Nobody owes a cancellation; the deadline is a stop.
- `PrivilegedFlow`: weak fairness of the panel's own bounded waits, from accepting the
  helper on. The prompt may stay open; the helper owes nothing.
- `EvidenceFlow`: weak fairness of the runner and of time. No worker need ever answer.
- `ArchiveFlow`: none; only safety is claimed.
- `Updater`: weak fairness of the updater (60 s, 30 s and 5 s deadlines) and of the panel's
  polling and closing. The user, the work that keeps the panel from being idle
  (`TakeHandoff`), helpers and the new panel owe nothing.

### What the violations show

1. **`consent_shared_tag`**: `wait_for_prepared_plan` knows a plan by its tag, and the tag
   of `ApplyDnsProfile` leaves out the profile, that of `EditApn` all but the cid. The box of a second click
   can confirm the late plan of the first. The frozen plan protects the device from stale
   evidence, not the user from another profile than the box showed.
2. **`sms_send_race`**: `run_prompt_transaction` looks for a cancellation and marks the
   submission as possible in two steps, neither under the gate. A caller that is cancelled
   in between reads the mark as unset and reports a failure; the body goes out. The checked
   deletion marks under the gate, and `DeleteReportIsTrue` holds.

### Findings without a run

The properties the first four refute are kept in the modules (`ExplicitRefreshNotSuppressed`,
`FailedIsProven`, `RestartIsDefinite`, `BlockedRollbackStops`); add one to the configuration
of its module to see the behaviour.

3. `run_refresh` defers every refresh while an interaction is in flight;
   `docs/architecture.md:90` and the comment at `controller.rs:2011` say that an explicit one
   is not suppressed.
4. A repair write that was acknowledged, or whose answer was garbled, and whose readback is
   missing is reported as failed; `RELEASE_NOTES_0.1.12.md:8` says that it stays unknown.
5. Nothing discards what the module still sends to a session that was given up, so late
   answers pass the next handshake and a late `OK` is taken for the restart's.
6. The updater's rollback goes on past a file it could not remove or put back and leaves
   versions mixed before it returns `RECOVERY_REQUIRED`; `UPDATE_REVIEW_0.1.14.md:62` says it
   does not. Nothing is lost (`OldRecoverable` holds).
7. `consecutive_public_failures` survives cycles without a probe result, so that two failures
   any number of cycles apart end as *failed in two cycles*; `architecture.md:143` says
   *consecutive* cycles.
8. A helper that is killed after its write leaves a broken pipe, which is no timeout and
   becomes a definite failure, like a read or wait that the system fails;
   `architecture.md:195` says that such outcomes stay unknown. `RepairDelivery` excuses
   these repairs for this reason.
9. A save of the settings that cannot be read back has replaced the file; the panel says that
   the change was not kept, the next launch follows it.
10. What an exit keeps of its last snapshot is not reset when the exit is called off, so the
    next exit archives nothing. `ExitKeepsWork` excuses a panel that called one off.
11. A history worker whose last job failed removes nothing that grew too old until it is
    cleared or restarted.

Seen on the way: `set_active_probe` raises the revision without invalidating a waiting plan
(`architecture.md:153` says any change does), though the confirmation then refuses it; a
revoked handoff also calls off an exit the user had asked for, and the tray's watchdog is not
disarmed by it; `CleanFails` of the updater reports failure though the update stands;
leftovers of a query's retry can fail the next session's handshake; a late inventory worker
can advance the epoch after its scan was given up; a failed probe, AT session or adapter
stage leaves the old evidence, which forces *Detecting* when it expires; evidence is stamped
when it is taken, not when it was sampled, hence the bound `TTL + ProbeTime` of
`GreenIsRecent`; the limits of the stages add up to more than the TTL, so a slow module is
never green; a failed adapter stage ends a user's check as stale, without a report; a message
that is still in the inbox when its copy expires is captured anew; a temporary file that a
crash left behind is not removed by a clearing; a settings file that cannot be read at start
turns saving off with the next save of any setting.

## 4. What is proved

`tlapm` proves the following for every value of the constants, under the named assumptions
on them and nothing else: `ConstantsAssumption` (of `PlanLifecycle` and of `Updater`),
`ConsentAssumption`, `SerialAssumption`, `RepairAssumption`, `SmsAssumption`,
`PrivilegedAssumption`, `EvidenceAssumption` and `ArchiveAssumption`. Every safety property
of the runs is the subject of a theorem; one, `ConsentIsForThisAction`, has a hypothesis of
its own, which is named below.

**`PlanLifecycleProofs`.** `TypeCorrect`, `ExecutesAtMostOnce`, `ExecutorAlone`,
`OutcomeCorrect`, `ScanYields`, `NeverOnMovedGround`, `WriteEvidenceIsRecent` and
`ContractKept`. None of the properties is inductive. The invariant `IInv` adds what the
handlers rely on without checking it:

- `PlanIds`: ids are handed out in order, the prepared plan's was never consumed, what was
  executed was consumed. This makes `executed` at most 1.
- `DeviceOwner`: a running thread's operation is the one whose channel is held, and while a
  channel is held there is neither a scan nor a serial job.
- `FrozenGround`: while a waiting plan's revision is current, nothing moved since it was
  prepared and its expiry is within a TTL and a lifetime of the observation. The
  confirmation compares revisions only; this is why that suffices, and `ValidIsCurrent`
  connects the two.
- `OperationOwner`: a channel is held exactly while the operation runs.

Each part is preserved by a lemma with one step per action that can disturb it. The two
action properties follow from `WriteIsConfirmed`: only a valid confirmation starts a write.
`ContractKept` is the refinement: `StageKept` disposes of the steps that leave the mapping
alone, and `PrepareShows`, `ConfirmStarts`, `PollEnds`, `DropWithdraws`, `EvidenceMoves` map
each other action to a step of the contract.

The second part of the module is about `ConsentFlow`: `ConsentTypeCorrect`,
`ControllerBehindDialogs`, `ContractBehindDialogs`, `ConsentByTag`, `ConsentByOwnTag` and
`OneResultBox`. `ControllerBehindDialogs` says that the composition implements
`PlanLifecycle`: each of its steps is a step of the controller or none, so that all the
theorems above hold behind the dialogs too (`ContractBehindDialogs` draws the conclusion for
`RepairContract`). Snapshots and queued commands are old when they are read, and `ConsentInv`
carries what holds of the controller over to them: `Attributed` (a plan in the controller or
on the screen is of the action it was prepared for, and ids are not reused, so a copy cannot
become wrong), `AgreedFirst` (for every confirmation in the queue and every plan carried out,
a box for an action of its tag was answered yes before) and `ShownKept` (an operation whose
box was shown is remembered while it is on the screen, and the controller no longer has it
once it has left the screen: this is why `ForgetResult` may forget). `ConsentByTag` holds
whatever the tags are. `ConsentByOwnTag` states `ConsentIsForThisAction` under the hypothesis
that no two actions share a tag; the code satisfies it among actions that do not differ in a
DNS profile, an APN of the same cid or a USB profile alone, and the run `consent_shared_tag`
shows that without it the property fails.

**`UpdaterProofs`.** `UpdaterTypeCorrect`, `NeverTouchedInUse`, `AlwaysRecoverable`,
`OutcomeTrue`, for a payload of any length and any number of helpers and visits. The
invariant keeps account of the files: `InPlace` says what the two lists are at each place
of the updater, `Accounted` that as long as no step of a rollback failed the lists tell what
lies at each name (new, nothing, or the original), and `Alone` that from the last wait on
nobody else runs. Steps are grouped by what they leave alone (`Aside`, `Ends`, `Advances`),
with one lemma each; only the five that move files, and the clean-up, need the account.

**`PrivilegedProofs`.** `PrivTypes`, `PrivInvariant`, `KeepsDelivery` and `WritesAsProven`, for
any set of operations, devices and states. `PrivInv` is a conjunction over the operations:
`Together` says where panel and helper can be with respect to each other, `Progress` what the
helper has done at each of its places, `Settled` what a silent pipe and a definite answer say
about the write. The panel's and the helper's steps each get a lemma for the operation they
belong to and one for all others, which they leave alone. `KeepsDelivery` is the refinement
of `RepairDelivery`: writing, telling and losing are the three steps that are not a stutter.

**`SerialActorProofs`.** `SerialTypeCorrect`, `SlotsMatchReplies`, `PortHasOneOwner`,
`EffectfulLinesGoOutOnce`, `CoalescedReadsAreFresh` and `NoLateSuccess`, for any number of
sessions, requests and slots (`SerialAssumption`). The argument follows one value per
session, `Pending(n)`: the requests in the worker's hands, those it set aside while draining,
and those in the channel, in this order. It is always the end of the log of accepted requests
(`SuffixInv`), so a step of the worker or of a holder of the session can only keep it
(`Keeps`), append to it or answer a prefix of it, and each of these is one lemma for the
log, the answers and the slots. `FreshInv` says that the exchange under way is younger than
what it will answer and older answers are older, which gives `OrderInv`; `LeadWire` counts how
often the line in hand went out, and `RequestWire` the same for what has been answered.
`WorkerInv` ties lease, port and place of the worker together; `NoLateSuccess` is an action
property and rests on `ResultInv`: what the worker tells after a terminal flag.

**`RepairTransactionProofs`.** `RepairTypeCorrect`, `LateAnswersAreNotRead`,
`OneWriteOnTarget` and `AppliedMeansStored`, for any modules, values and exchanges. Answers
that nobody has read and commands that nobody has answered are seen as one queue (`To`,
`OwnAt` over `Places`). `HandshakeInv` says where an answer to `AT` may still be while the
handshake is under way, so that a session past it has read everything older out of the
queue; `NoQueryBehind` and `OnlyOwnQueries` then make every late query's answer
recognisable, which is `ReadbackIsOwn`. `WriteInv` (no line before the write session, at
most one in the queue, none after it was carried out) gives `WrittenOnceOnTarget`, and
`ValueInv` relates what was read to what is stored before and after the write, which gives
`AppliedIsReal`.

**`SmsProofs`.** `SmsTypeCorrect`, `CardIsProvenFirst`, `SubmittedWasTaken`,
`DeletionIsToldTruly`, `StorageIsToldTruly` and `PortIsGivenBack` (when the port may be opened
again its last worker has left it), for any cards, storages and changes. `LineInv` is the
key: outside the restoration of the storage the line holds at most the answer to the command
in hand (`Says`), so an answer speaks of its own command; the restoration may meet one late
answer but reads it in front of its own. `ProofInv` says what has been proven at each step, and in which order,
`SendInv`, `DeleteInv` and `StorageInv` where submission, record and storage are at each
step, with the mark of the attempt (`marked`) as what a caller that gives up may conclude
from.

**`EvidenceProofs`.** `EvidenceTypeCorrect`, `GreenOnRecentPath`, `NotGreenUnprobed` and
`ReportsOwnCycle`, for any modules and adapters, any number of changes of the world and any
deadlines. `Shapes` says what each answer and each piece of evidence looks like; `Put`, `NoData`
and the lemmas on `Waiting` say what the reducer does to it. The rest follows one thing, the
time since a path was last up (`lately`): `PathNow` for a path that is up, `FoundLately` for
what a probe that has come back found, `BoundLately` for the bound evidence made of it, each at
most one probe's time longer ago than the answer is old. The classifier's freshness test turns
the last into `GreenIsRecent`. `CycleNoted` does the same for the user's check with the set of
paths its cycle saw, and `NothingProbed` says that a cycle which may not probe leaves no probe's
evidence, or does not know its module.

**`ArchiveProofs`.** `ArchiveTypeCorrect`, `PendingCorrect`, `KeepsOnlyAllowed`,
`ReportedStaysStored` and `ExitLosesNothing`, for any finite set of messages and any cap,
retention and number of launches (`ArchiveAssumption`). `Flow` is the account
of what is under way (`Account`: the counter, the queue, the worker's job and the answers
tell one thing at a time) together with what the channels hold without a worker. It gives
`PendingIsUnderway`, and it is what makes `Cleared` inductive: an answered clearing that was
not yet read means an idle worker with nothing left, so the next frame may forget what was
allowed. `Choice` (saving is on only where the user turned it on, on the disk too) and `Held`
(every copy, the unread answers included) complete the invariant for `OnlyWhatWasAllowed`.
For the other two, `Covers(old, new)` says that every row of one version is in the next or
rightly gone; it is transitive, and a purge covers what it purges, which is where the
finiteness is needed. `Told` follows what was reported through memory, a save under way and
the file. `Taken(m)` follows a message of the last snapshot from the queue through the job
and its save into the file, and `Exiting` says that one of these holds from the first frame
of the exit until the window closes.

TLC has checked the invariants on the small instances.

**Only model-checked**: liveness (`OperationEnds`, `MonitoringResumes`, `DialogSlotFreed`,
`EveryRequestAnswered`, `TerminalFreesPort`, `OutcomeReached`, `UpdateResolved`,
`TransactionEnds`, `PanelAnswers`, `CheckEnds`), which is out of the prover's reach together
with `ENABLED`, induction over data and recursive operators. Nothing else the passing runs
check is without a theorem.

## 5. Plan

Written, in this order: `PlanLifecycle`, `ConsentFlow`, `SerialActor`, `RepairTransaction`,
`Updater`, `RepairContract`, their proofs, `SmsSession`, `PrivilegedFlow` with
`RepairDelivery` and its proofs, `EvidenceFlow`, `ArchiveFlow` and its proofs; then
`SerialActorProofs`, `RepairTransactionProofs`, `SmsProofs`, `EvidenceProofs` and the proofs
about `ConsentFlow`.

Left, most important first:

1. `SerialWork`: SMS, tools, network check and refresh on the runner, refining the flags of
   `PlanLifecycle`; with it the device tools and the optional feature probe.
2. `UpdateService` (checks, downloads) and `SingleInstance`.
3. Abstract specifications of what `SerialActor` promises its callers (answered once, in
   order) and of what `SmsSession` tells of a record, with the step-by-step refinement.

### Not modelled

- **Host network and proxy repair**: inspections and the native write are behind
  `hostJob` of `PlanLifecycle`. The automatic proxy write is closed in this version
  (`AUTOMATIC_REPAIR_ACCEPTED` is false), so that what is left is a bounded read.
- **Device tools, optional feature probe**: planned; on the wire they are the tool request of
  `SerialActor`.
- **SMS codec, update archive validation, IPC framing**: pure parsers of byte strings; a
  message is a payload and an archive a verified payload here.
- **Adapter resolution, hotspot, driver setup, autostart, tray**: native queries and shell
  glue; what they find enters as a choice.
- **Diagnostics, support report, logging, user interface, localization**: text and layout.

## 6. Running it

    tlc -workers 2 -config PlanLifecycle_safety.cfg MCPlanLifecycle.tla
    tlapm PlanLifecycleProofs.tla

`PROJECT.json` has the runs, the mutants, the map from definitions to source lines, the
findings, the hazards and the theorems.
