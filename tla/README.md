# SHER Process Explorer: verification project

TLA+ models of SHER Process Explorer: the kernel that reuses pids while `/proc` is
being read, the derived state that is computed from it, the daemon that writes what
was seen to a database while it may fail, be killed or be restarted, and the two
clients, the GUI and `sher`, which show a process to a user and then sample or
signal a pid.  TLC checks the models on small instances; TLAPS proves the invariants
of all four and both refinements for every value of the constants.

## 1. Inventory

| Component | State it keeps | Operations | Talks to |
|---|---|---|---|
| `sher-pe-telemetry` (`TelemetryAdapter`, `LinuxAdapter`) | none; every call reads `/proc` anew | `list_pids`, `process`, `connections`, `threads`, `open_files`, ... | the kernel |
| telemetry, control and sampling (`process_control`, `strace`, `perf`, `bpftrace`) | a temporary file and a subprocess during a call | `send_signal`, `sample_*`, `deep_trace` | kernel, tools on the host |
| `sher-pe-model` (`ProcessTree`, `ProcessSnapshot`, `TimelineEvent`, ...) | none | `build`, `roots`, `family`, `aggregate` | - |
| `sher-pe-intelligence` (`ProcessIntelligence`) | `current`, `history`, `connections_seen`, `timeline`, `stale_keys` | `refresh_at`, `history`, `timeline`, `recent_timeline_events`, `send_signal_verified`, `who_has_*` | telemetry |
| `sher-pe-investigation` | none | `why_cpu`, `why_memory`, `why_network`, `why_disk`, `crash_analysis`, `diagnostic_report` | intelligence |
| `sher-pe-history` (`HistoryStore`) | two SQLite tables | `record_snapshot`, `record_event`, `prune_older_than`, queries | disk |
| `sher-pe-daemon` (`sherd`) | loop position, `SHUTDOWN`, `last_prune` | tick, persist, prune, sleep, stop | intelligence, history, systemd |
| `sher-pe-gui` (`SherApp`) | selection, expanded rows, cached results, `pending_signal` | frame, refresh, click, confirm | intelligence, investigation |
| `sher-pe-cli` (`sher`) | none between invocations | one command each, after one refresh; `history` reads what `sherd` writes | all of the above |

The hard behaviours, and what makes each component correct:

* **Intelligence.** A refresh is a loop of reads of a table that changes meanwhile.
  Processes exit and appear, pids are recycled, reads fail for good or for once.
  The process map must hold one run per pid; each appearance and disappearance
  must be reported once; the samples of a run must not be mixed with those of
  another run of its pid, must stay for one tick after the exit and no longer; an
  event must name the run it happened to; a dropped event must not leave the
  timeline inconsistent.
* **Daemon and history.** Each INSERT commits on its own, a prune is two DELETEs,
  and sherd can die between any two of them and start again with empty memory.  No
  event may be stored twice; after a tick the database must agree with the process
  map; rows must be pruned in time, and not before it; a stop must be obeyed.
* **Adapter.** `process(pid)` is eight reads one after the other, any of which may be
  missing, refused, malformed, or of another run by then.  A snapshot that mixes runs
  must be recognisable as such.
* **Control.** A signal is decided on one run and sent to a pid, after a prompt that
  waits for as long as the user likes.  It must not reach a process the user was not
  shown, and its outcome must be reported as it was.
* **Sampling.** Subprocesses end by themselves, by timeout, by signal or with the
  process they trace.  What is returned must cover what was asked for, and temporary
  files must be removed on every path.
* **Investigation.** Findings correlate events of a bare pid, which may be of
  several runs; those that are cited together must be of one run.
* **GUI.** Frames, refreshes and clicks interleave.  What is read below the heading of
  a live process must be its own, whoever had the pid before or has it next, and a pane
  that heads a process that is over must be drawn anew.  What is kept by pid (findings,
  samples, results of signals, the events of the Timeline tab) can be of an earlier owner
  of the pid: see `gui_recycled`.
* **CLI.** A command looks its pid up once and then reads by bare pid; `history` makes
  two queries while sherd writes.  History and exit codes must be true, and a command
  must end.
* **Tree.** A parent chain read at different instants may have cycles.  What is listed
  must be listed and counted once.  A roll-up of a cyclic family never returns, in the
  GUI's overview and in `export`; printing it overflows the stack.

`PROJECT.json` lists every hazard with its line and the properties that cover it.

## 2. Modules

| Module | Models | Role |
|---|---|---|
| `ProcessTable` | the kernel: fork, exit, connect, close, memory growth | environment (external) |
| `ProcessIntelligence` | `ProcessIntelligence::refresh_at`, read by read | EXTENDS `ProcessTable` |
| `ProcessObserver` | what a refresh promises its callers | abstract specification |
| `MCProcessIntelligence`, `MCMemoryGrowth` | - | instances for TLC; the latter adds a history without capacity to compare with, and `crash_analysis` |
| `HistoryStore` | the two tables and their statements | used by `Sherd` and `SherCli` |
| `Sherd` | `main` of `sherd`, `persist_tick`, `sleep_interruptible`, signal handler, crash, restart | EXTENDS `HistoryStore` |
| `MCSherd` | - | instances for TLC |
| `LinuxAdapter` | `LinuxAdapter::process`, file by file, its error mapping, what every other read may answer | EXTENDS `ProcessTable` |
| `SignalControl` | `send_signal_verified` over `process(pid)` and `kill(2)` | EXTENDS `LinuxAdapter` |
| `Sampling` | `strace`, `perf` and `bpftrace`: subprocess, exit status, timeout, temporary files | EXTENDS `ProcessTable` |
| `ProcessTree` | `ProcessTree` and the GUI's `flatten_tree` as pure operators | - |
| `Investigation` | the `why_*` rules and `crash_analysis` as pure operators | - |
| `ProcessView` | what both clients see: the process map, live reads, samples, signals | EXTENDS the above |
| `Gui` | `SherApp` | EXTENDS `ProcessView` |
| `SherCli` | one run of `sher`, any command | EXTENDS `ProcessView`, `Investigation`; INSTANCE `HistoryStore` |
| `MCClients` | - | GUI and CLI over one process table, for TLC |
| `ProcessTable_proofs` | - | lemmas about the kernel, used by the others |
| `ProcessIntelligence_proofs` | - | theorems about the maps of a refresh: types, retention, one run per history |
| `ProcessTimeline_proofs` | - | theorems about the events of a refresh, that it implements `ProcessObserver`, and about `MCMemoryGrowth` |
| `Sherd_proofs`, `SignalControl_proofs`, `ProcessTree_proofs` | - | theorems about those modules |
| `ProcessView_proofs` | - | lemmas about samples and signals under any client |
| `Clients_proofs` | - | theorems about `Gui`, `SherCli` and their composition |

### ProcessTable and ProcessIntelligence

`table[p]` is what `/proc/p` shows.  One field is not in `/proc` and serves only a
property: `parent_start`, the run of the parent that forked the process.  A start
time is the number of the pid's run.  The code only compares start times for
equality, and the kernel never repeats a (pid, start time), so nothing is lost.

`refresh_at` is cut where it reads `/proc`, since that is where the table can have
moved on:

| Code (intelligence `lib.rs`) | Action |
|---|---|
| 104-118, drain the stale keys, `list_pids`, `old_keys` | `BeginRefresh(d)`, or `RefreshFails(d)` when `list_pids` fails |
| 120-130, `stat`, the first file of `process(pid)` | `ReadStat(p)`, or `SkipProcess(p)` when it fails |
| 120-192, the rest of `process(pid)`; Started, NewChild, growth | `ReadMemory`, or `DropProcess` when a later file fails |
| 194-222, `connections(pid)`; the sample is kept | `ReadConnections`, or `ConnectionsFail` |
| 224-246, Exited, `stale_keys`, timeline, `current` | `FinishRefresh` |

`pc`, `todo`, `snap`, `new_current` and `pending_events` are the locals of the
function; the other variables are the fields of the struct with the same names.
The order of `list_pids` and of hash map iterations is left open: any pid of `todo`
may be next, and sets become sequences in any order.  `SkipProcess` and `DropProcess`
need no exit: a read may fail for other reasons (a file that is refused or does not
parse), and the code does not distinguish them.  `process(pid)` is cut once, between
the start time and the memory, the two things derived state depends on: `rss_of` is the
run the memory was read of, which is not that of `start_time` when the pid was reused in
between.  `LinuxAdapter` has all its files.  The argument `now` moves by any member of
`ClockSteps`, backward too in the proofs.  Left out: CPU percentages, names,
descriptions, and the reads that do not feed derived state.

### ProcessObserver

The abstract specification has two steps.  `Forget`: a call has begun or failed,
the samples of the runs that vanished in the previous refresh are gone.  `Observe`:
the set of running processes is replaced, by any set with one run per pid; each run
that appeared has exactly one Started event and each that vanished exactly one
Exited event, exits come last, and the log is extended and cut at its capacity.
"Exactly one" is said as that there is one position in the tick's events with that run
and kind, and no position for any other run.  `ImplementsObserver` maps `running` to the
keys of `current`, and `readable` and `emitted` to `history` and the tick's events when
no refresh is in progress.  It is
what lets `Sherd` treat `refresh_at` as one step.

### HistoryStore and Sherd

Both tables are sets of rows; the rows of `timeline_events` have their id, which
orders the events of one second, and `last_id` is its AUTOINCREMENT counter.  Each row carries the number of the tick it comes from, which the
database does not store; it tells two occurrences of an event apart.

| Code (daemon `main.rs`) | Action |
|---|---|
| 139-174 | `Start` |
| 22-27 | `Signal` |
| 176-177 | `Stop`, `BeginTick` |
| 178-179 | `Refresh`, `RefreshFails` |
| 113-116 | `WriteSnapshot(k)`, `WriteFails` |
| 117-120 | `BeginEvents`, `WriteEvent`, `WriteFails`, `PersistDone` |
| 184-193 with history 251-260 | `SkipPrune`, `PruneFirst`, `PruneSecond`, `PruneFails` |
| 195 with 98-106 | `Wake`, `WakeEarly` |
| death, systemd | `Crash`, `Start` |

`now` is read once per tick, so the clock needs to move only in the sleep and while
sherd is down.  Only Started and Exited events are modelled; the other kinds take
the same path.  `tick`, `boot_tick`, `lossy` and `pruned` are not in the program:
they say which tick and which start a row is from, whether a write failed since the
start, and whether a prune has gone through.

### LinuxAdapter and SignalControl

| Code | Action |
|---|---|
| telemetry `linux/mod.rs`, `process`: `stat`, `status`, `cmdline` and `exe`, `statm`, `smaps_rollup` or `VmSwap`, `cgroup`, `fd` | `ReadStat`, `ReadIds`, `ReadCmdline`, `ReadStatm`, `ReadSmapsRollup`, `ReadVmSwap`, `ReadCgroup`, `CountOpenFiles` |
| intelligence `send_signal_verified`: the call, the live read | `Confirm(k, expected)`, `ReadLive` |
| the error of the read | `ReadFailed` |
| start times differ | `Refuse` |
| `kill(2)` and its `errno` | `Kill` |
| back to the caller | `Return` |

`call` is the `process(pid)` in progress: which file is next, the start time that
`stat` gave, and `runs`, the runs of the pid that the files read so far were about.  The
table may change between two files, so a read can end in "missing" (ENOENT on open) or
"gone" (ESRCH on read).  `Oddities` is what any file of a live process may answer besides
its content: "denied", "invalid" (a name that is not UTF-8) and "malformed" (what
does not parse); `Rollup` is what `smaps_rollup` may answer on top of that.  `sent` is a
history variable: for each delivery the run the user confirmed, the start time that was
compared, and the run that was hit.

The other reads (`Threads(p)`, `OpenFiles(p)`, ...) are sets of answers, "rows",
"empty" or "failed", for a live and for a gone process; clients choose among them.
Reads in several steps that take a missing file for an empty one (the sockets after the
descriptors, the links of the descriptors, the cgroup) may answer "empty" of a process
that has just gone.

### Sampling, ProcessTree, Investigation

`sample` is the call in progress.  strace and perf attach to the owner of the pid and
end with it; bpftrace filters by the bare pid.  `Conclude` is what the code makes of an
exit status.  `covered` is what the tool saw, which the code cannot know and the
properties need: all of the time, up to the exit of the traced process, the first
`MAX_EVENTS` events ("capped"), or less ("cut").

A tree is a function from listed pids to parents.  `family()`'s queue is a recursive
function by level, cut at the number of pids: a cycle shows as a last level that is not
empty.  The rules of the investigation are functions of what they read, with quantities
replaced by the outcome of their comparison with a threshold.

### ProcessView, Gui, SherCli, MCClients

A refresh is one instant here, which is what `ImplementsObserver` shows it to be to its
callers, but for the parents: each may have been read before its end, so a pid that
was used again since can be named as the parent (`ParentsRead`), and a listing can hold a
cycle.  `RollupEnds(p)` says that `family_rollup` of `p` returns.

| Code (`sher-pe-gui/src/app.rs`) | Action |
|---|---|
| refresh at the top of a frame, "Refresh now" | `RefreshTick` |
| click on a row that `flatten_tree` gave | `SelectRow(p)` |
| "Why?" | `FindingFor` |
| "Profile", "Trace syscalls" | `StartSample`, `SampleProceeds`, `SampleReturns` |
| signal buttons, "Confirm", "Cancel" | `RequestSignal`, `ConfirmSignal`, `SignalProceeds`, `SignalReturns`, `CancelSignal` |
| "Export diagnostic report" | `Export` |
| drawing the detail pane, any tab | `Repaint` |

A frame handles one click.  Samples and signals block the window's only thread, so no
other action of the GUI happens until they return, while the table moves on; the overview
and the export of a member of a cyclic family block it for ever (`hung`).  `pane` and
`observed` are not fields.  `pane` is what was drawn last: the run in the heading, the
runs the live reads below it were about, and the runs of the events in the Timeline tab.
`observed` are the runs a refresh has listed, which are those with events.

`SherCli` has an action for every subcommand, from the refresh to the exit code;
`trace`, `profile`, `deep-trace`, `kill` and `history` take several.  Of `inspect` and
`export` one section is shown per run, any of them, since sections do not depend on each
other, as text or as JSON where they answer differently.  `history` prints generations as
text and two flat lists, each row with its run, as JSON.  Exit code 134 is the abort on
stack overflow; `hung` is `export` in the roll-up of a cyclic family.

In `MCClients` a behaviour is one session of the GUI or one run of `sher`.  The table
stands still for the commands that do not depend on it (`tree`, `history`, `system`,
`ebpf`); `tree` is checked over every listing instead.

Definitions whose names end in `Fault` take no part in the specifications.  Each is
a plausible mistake in the definition below it and is put in its place once per
property, to see that the property notices.

## 3. Runs

| Run | Shows | Bounds |
|---|---|---|
| `lifecycle` | type and loop invariant, retention, lifecycle events, refinement of `ProcessObserver` | 2 pids, 2 runs each, timeline of 3, capacity 1 |
| `noticing` | exits are noticed and survivors listed, under fairness | 2 pids, 2 runs each, no parents |
| `growth_window_covered` | growth over the window is reported if the capacity spans it; no remembered address went unreported; `crash_analysis` cites events of one run; at most the last sample of a run is mixed | 1 pid, 2 runs, 1 address, RSS 0, 2, 3, window 3, capacity 3, clock to 5, timeline of 5 |
| `growth_default_capacity` | and is not if the capacity does not (violation) | window 4, capacity 2 |
| `child_attribution` | NewChild can name the wrong run (violation) | 2 pids, quiet table |
| `connection_attribution` | NewConnection can name the wrong run (violation) | 1 pid |
| `sherd` | the database against the process map, across failures, crashes, restarts, signals | 2 runs, 3 ticks, clock to 2, retention 1, prune every 1 |
| `sherd_timeline_full` | a tick larger than the timeline loses events (violation) | 2 runs, timeline of 1 |
| `clients` | the inductive invariant of both clients; signals, samples, panes, stored rows, trees and exit codes are about the run the user was shown; the pane catches up and commands end | 2 pids, one of them recycled, 2 clicks and the answers to prompts; tree listings over 3 pids; 2 runs × 2 times of history, one write by sherd |
| `listing` | `process(pid)` fails for a live process (violation) | 1 pid, every answer of `smaps_rollup` |
| `signal_window` | a signal can reach the pid's next owner (violation) | 1 pid, 2 runs |
| `gui_recycled` | what is drawn for a pid by its pid alone can be of an earlier run (violation) | 1 pid, 2 runs, 2 clicks |

The passing runs have 709 837 (`lifecycle`), 26 334 (`noticing`), 2 472 082
(`growth_window_covered`), 444 767 (`sherd`) and 129 995 (`clients`) distinct states.

Why the bounds are enough.  Everything about identity needs a pid whose two runs
meet in one refresh, and a second pid for parents and for reads in either order: two
pids with two runs.  A timeline of three events drops events in most behaviours and
keeps the complete life of a run in others, and both parts of `LifecycleAlternates`
are exercised.  The clock is frozen in the runs about identity, which never look at
it.  A history of one sample reaches its capacity on the second tick; whether mixed samples
come last is asked where three samples are kept.  Parents matter to NewChild alone,
so `noticing` does without them.  The growth
test needs a sample older than the window, one exactly as old and one younger: a
window of three ticks with three samples has all of them, and RSS 0, 2, 3 has the
excluded baseline and the exact threshold.  In `sherd`, three ticks are a row, the
tick at which it may be pruned and the one at which it must have been; one crash
and restart fit in between.  Retention and prune period are in ticks.

In `clients`, two clicks and an answer are what a signal takes (select, request,
confirm), and what it takes to leave a result, select, look and be blocked by a sample or
an export; the answers to a prompt are not counted.  One pid is recycled and the
other stays, so that a second row can be selected and the two can be each other's parents
in a listing.  Three pids make every shape of family a row, a
printed line or a roll-up can get wrong, cycles with and without a tail included.  Of
history, two runs and two times put rows of both runs on both sides of the window, and
one write or prune of sherd falls between the two queries or around them.

Deadlock is checked except in the growth runs, which stop when the clock reaches its
bound, and where a command ends, the window hangs or clicks run out (`clients`, `gui_recycled`), or
the pid has had its last run and its signal (`signal_window`).

### Properties worth explaining

* `LifecycleAlternates`: Started and Exited of a run alternate in what the timeline
  retains and the last agrees with the process map.  A live process whose read
  fails once is reported as Exited and later Started: the property holds through
  that, which is the contract the code actually keeps.
* `HistoryCoversCurrentAndGrace`: the histories are those of the last refresh and
  of the runs that vanished in it.  It excludes a leak in a daemon that runs for
  months, and the loss of a current run's samples.
* `FallbackUnambiguous`: `history(pid)` searches an unordered map by pid alone; the
  answer would depend on hashing if two runs of a pid were ever in grace together.
* `StoreReconstructsRunning`: after a tick, the rows alone tell who is alive.  The rows
  of a run come back ordered by their second, and rows of one second in any order
  (`LastOf` may be several); the property covers every order.
* `StartedHasSnapshot`: whichever two writes a crash or an error falls between, no
  Started event within the retention is without its snapshot.  It rests on
  snapshots being written first and pruned by the same cutoff.
* `RetentionBound`: nothing is older than retention plus one prune period, once a
  prune has gone through.

* `NeverABystander`: over prompts of any length, a signal goes out only if the start
  time just read is the one of the confirmed run, and it never reaches an older run.
  What it leaves open, the instant between that read and `kill(2)`, is `signal_window`.
* `SignalSpec`, checked over `ClientsSpec`: whatever the GUI and `sher kill` do to
  signal is a behaviour of `SignalControl`.  In particular what they confirm is a run
  that existed, with its own start time.  It makes the theorems about `SignalControl`
  theorems about the clients (`ClientsSignalAsSpecified`).
* `OnlyTheLastIsMixed`: the pid can pass to another run between the files of one
  `process(pid)`, so a sample filed under a run can hold the memory of its successor.
  It is the last sample of that run in every interleaving, so it is never the
  baseline, and never followed by another sample, of a growth that is reported.
* `SnapshotOfTheLiving`: a snapshot may be about several runs, but one with the start time
  of the process that has the pid is about that process in every file, because `stat` is
  read first.  It is why comparing start times, as `send_signal_verified` does, is enough.
* `LivePaneIsItsOwn`: the reads below a heading are later than the refresh the heading is
  of, and by bare pid.  As long as the process in the heading lives they are its own, in
  every tab; once it has gone they may be its successor's until the next refresh.
* `DetailCatchesUp`, `CommandEnds`: the pane does not head a run that is over for ever,
  and every command ends or prompts.  Both except the roll-up of a family that is in
  a cycle, and only that; `CommandEnds` also the stack overflow of `sher tree`.
* `FailsOnlyForTheGone`: violated by what the code has no fallback for (`listing`).
* `SampleIsComplete`, `TempFilesRemoved`: a result covers the requested time, ends with
  the process that strace or perf traced, or is cut at `MAX_EVENTS` for bpftrace; no
  temporary file outlives a call.  The exceptions are those the code has, stated
  outcome by outcome: of bpftrace an exit in order before its time and a signal 9 that
  `timeout` did not send count as finished, and a script that cannot be written in full
  is left behind.
* `KillExitStatus`: 0 just when a signal was delivered.
* `HistoryShownByRun`: the generations `sher history` prints are runs, and miss nothing
  of the window but snapshots written after the first query.
* `TreePrinted`: `RowsAsPromised` and `FamilyCountedOnce` over every listing.
* `GrowthReported`: compared with `FullSpec`'s history without capacity, by a definition of
  growth over the window (`GrewInWindow`) that does not use the code's.
* `CrashAnalysisOneRun`: `crash_analysis` takes the first exit of a pid and the last
  growth before it.  A timeline that has lost its oldest events could pair an exit with
  another run's growth; the run shows that it does not, because events leave from the
  front and a run's growth comes before its exit and after the exit of the run before.

### What the violations say

* With the default capacity of 120 samples and an interval of 5 s a history spans
  10 minutes; the growth window is an hour.  `MemoryGrowthThresholdCrossed` can
  only be emitted when refreshes are at least 30 s apart.
* A child listed before its parent's new run is attributed to the old run of the
  parent's pid, whose samples are about to be dropped.
* A connection of the run that took the pid between two reads is reported for its
  predecessor.
* The first tick on a host with more than some 500 processes exceeds the timeline
  of 1000 events; the oldest Started events are gone before sherd asks for them.

* `read_smaps_rollup` falls back only when the file is missing.  Refused (another user's
  process) or empty-handed (zombies, kernel threads), the error is passed on,
  `process(pid)` fails, and refresh leaves the live process out.
* Between the comparison of start times and `kill(2)` the pid can be recycled.  The
  window is narrowed, not closed.
* A finding, a sample, the result of a signal and the events of the Timeline tab are
  looked up by bare pid.  When a pid is recycled under a standing selection, they appear
  below the heading of the new process, and only a click on a row clears the first three.

### Fairness

`noticing` assumes that refresh is called again and again (sherd's loop, the GUI's
timer), that its reads return, that `list_pids` is not refused for ever (weak
fairness of `BeginRefresh`: `RefreshFails` leaves it enabled, so it is taken
eventually), and that reads of a process that stays alive do not fail for ever
(strong fairness of `ReadStat(p)`, and of `ReadMemory` for `p`, which are enabled once
per refresh only).
Without the last, a process whose files are never readable is never listed, as in
the code.  `sherd` assumes that a running daemon is scheduled and its system calls
return (weak fairness of the loop).  Nothing is assumed of signals, crashes,
restarts or the kernel.

`clients` assumes that the window is refreshed and redrawn (`update` asks for a repaint
every half second), that its refreshes do not fail for ever, that blocking calls return
(files of `/proc` answer; `timeout` or `sleep` bounds a sample), and that `sher` goes on.
Nothing is assumed of the user: clicks and the answer to the prompt may never come.
Each condition names the client it is about, so none excludes behaviours of the other.

## 4. Proofs

### A refresh: `ProcessIntelligence_proofs`, `ProcessTimeline_proofs`

For any finite set of pids and addresses, any number of reuses, any capacities and,
but for the last two, any movement of the clock:

* `TypeCorrect`: `Spec => []TypeOK`, one step per action over lemmas about
  sequences and maps (`KeepLastProperties`, `MapDomains`, `OrderedEventsType`), the
  kernel (`TableType`) and the loop body (`ReadType`, `RememberType`).
* `RetentionInvariantHolds`, then `HistoryRetention` and `FallbackIsUnambiguous`.
  Retention is a statement about the time between refreshes and says nothing while
  one runs, so it is not inductive.  `RetentionInvariant` adds what the loop keeps:
  the samples are those of the old and the new map, no pid is read twice, and, for
  the next drain to be right, the stale keys are disjoint from the current runs and
  have one run per pid.
* `NoMixedHistory` (`OnlyTheLastIsMixed`).  `MixedInvariant` adds the reason: a mixed
  sample was completed after its run was over, when the pid's latest start time was
  already later, so `stat` never names that run again and nothing is filed behind the
  sample (`MixedRemember`).  It holds for the read in progress as well, from `stat` on
  (`MixedStat`, `MixedMemory`), and the kernel keeps it (`MixedEnvironment`).
* `RefreshInvariantHolds`.  `RefreshInvariant` is `RetentionInvariant` with
  `StartsReported`: at any read, the events of the refresh so far have exactly one
  Started for each run that is in the new map, or being read, and was not in the old
  one, and none has an Exited.  `OnceEachExtends` is the step: reports about different
  runs add up.
* `RefreshRefinesObserver`: `Spec => ImplementsObserver`.  `BeginRefresh` and
  `RefreshFails` are `Forget` (`BeginForgets`), `FinishRefresh` is `Observe`
  (`FinishObserves`: with the exits appended, `FinishReports` accounts for every run
  of either map), and every other step is hidden (`OthersAreHidden`).
* `LifeIsAlternating` (`LifecycleAlternates`).  The events of one refresh are, for a
  run, nothing, a start or an exit, and which of them follows from whether the two maps
  have it (`FinishReports`).  Appending them to a life that alternates and ends with the
  old map gives one that ends with the new map (`AlternatesExtends`), and what is
  dropped at the capacity is a prefix (`KeepLastIsSuffix`, `AlternatesSuffix`).
* `NoConnectionSwallowed` (`ConnectionsReported`): an address is remembered in the step
  that reports it; a start of the same run later on would have to come while its
  addresses are remembered, which retention excludes.
* `CrashesAreOfOneRun` (`CrashAnalysisOneRun`), if the clock is never set back and the
  growth window is not empty.  `CrashInvariant` says which way growth and exits of the
  runs of a pid can follow each other: a sample of a current run is no older than the
  exits of the pid's earlier runs, so growth over a window is later than those exits
  (`CrashRead`); growth of a run that is not listed is followed by its exit
  (`GrowthEnds`); so an exit of one run after growth of another has the exit of the
  other in between (`Separated`, `SeparatedExtends`), and is not the first.  What is
  dropped at the capacity is a prefix, and cannot be that exit alone
  (`SeparatedSuffix`).  A clock that is set back can date the growth of a new run
  before the exit of the old one.
* `NoGrowthMissed` (`GrowthReported`), if calls are at least `gap` apart and the history
  capacity times `gap` is no less than the window: the exact form of the remark about
  the defaults in section 3, where 120 samples and 3600 s make `gap` 30 s.
  `FullInvariant` says that the history is the end of the history without capacity
  (`KeepLastAppend`) and that its samples are `gap` apart, also from the call in
  progress.  A sample a window old that was dropped would leave as many younger ones as
  the capacity, which do not fit in the window (`WindowIsKept`).

Assumed: `ProcessTableAssumption` (finite sets, `NoPid` is no pid, sizes are
natural numbers) and `IntelligenceAssumption` (capacities and window are natural
numbers, the history capacity is positive).  TLC evaluates both on every instance.
The last two theorems assume what they say of the clock; `growth_window_covered`
satisfies it, `growth_default_capacity` is a case in which the capacity is too small.

### The daemon: `Sherd_proofs`

For any number of runs and ticks and any timeline capacity, retention and prune period:

* `TypeCorrect`: `Spec => []TypeOK`.  `RefreshedTimeline` says what a refresh leaves
  in the timeline; it rests on `KeepLastIsSuffix` and `EventsOfOneTick`.
* `SherdInvariantHolds`, then `NoEventTwice` (`EventsPersistedOnce`),
  `StartsAreDocumented` (`StartedHasSnapshot`) and `RetentionHolds`
  (`RetentionBound`).  None of the three is inductive, because a tick selects what
  it writes from the timeline by its time alone.  `SherdInvariant` adds
  `EventsAreDated` (what the timeline holds when a tick begins is older than the
  tick, so the selection is the tick's own events), `SnapshotsComeFirst` (the runs
  those events start are listed, and have their snapshot when the events are
  written), `EventsAreNew` (the events are distinct and not in the database yet)
  and `PruneLeavesNothingDue` (what the last complete prune established, between
  its two DELETEs and after them).
* `StoreTellsWhatRuns` (`StoreReconstructsRunning`), as long as no refresh reports more
  than the timeline holds (`TickFits`, which `sherd_timeline_full` shows is needed).  A
  tick changes the process map at once and the database row by row, so between the two
  `StoreFollows` says of each run: either the last of its rows agrees with the map or an
  event of it is due.  At most one is (`DueOncePerRun`), and when it is written it is
  later than the run's other rows (`RowsAreDated`), so it becomes the only last one
  (`WrittenIsKnown`); a prune removes rows from the old end (`PrunedIsKnown`), and a
  crash or restart puts all rows behind `boot_tick`.  `SherdInvariant` holds this part
  when the timeline has room for an event of every run; `EveryTickFits` reduces that to
  `TickFits`.

Assumed: `StoreAssumption`, `SherdAssumption` and, for all but type correctness,
`SecondsAdvance`: each sleep moves the wall clock forward.  The interval is at least
one second, so only a clock that is set back can break it; two ticks that read the
same time would write the first one's events again.

### Signals and the adapter: `SignalControl_proofs`

For any number of pids, reuses and signals, and any answers of the files of a live
process:

* `SignalTypeCorrect`: the types of the two calls and of what was sent.
* `BystandersAreSafe` (`NeverABystander`).  It is not inductive: `Kill` compares what
  was read with what was expected, not with what was confirmed, and hits whoever owns
  the pid.  `SignalInvariant` adds that the read in progress is about the confirmed pid
  and the expected start time is the confirmed one, and that a start time that was read
  never exceeds that of the pid's latest run; the kernel keeps the last because start
  times do not fall (`StartNeverFalls`).
* `LiveSnapshotsAreWhole` (`SnapshotOfTheLiving`).  `AdapterInvariant` says that the
  runs read lie between the start time of `stat` and that of the pid's latest run; if the
  two are the same there is one run only.

Assumed: `ProcessTableAssumption` and `AnswersAssumption`.

### The tree: `ProcessTree_proofs`

For every finite set of pids and any parents, cycles included:

* `EveryFamilyIsCountedOnce`: what `sher tree` prints of a family that has an end is the
  process with its descendants, and as many lines as its roll-up counts.  Distinct levels
  are disjoint (`LevelsAreDisjoint`: were a pid on two levels, the process would be its
  own descendant, and no level would be empty), so no pid gets two lines.
* `EveryListIsAsPromised`: the rows of the GUI's list are the anchored processes that
  are wanted, once each, and each row below its parent's.  `RowsByDepth` and
  `RowsAreWanted` go from each depth to the next.

`Level` and `FlattenNode` are recursive functions.  The induction theorems of the library
take an operator as a parameter, which the provers cannot instantiate; `NatLeast`, from
`WFMin`, gives a least counterexample instead, and `Induction` puts this as a fact about
sets of numbers.

### The clients: `ProcessView_proofs`, `Clients_proofs`

For any finite set of pids, any number of reuses, clicks and writes of sherd, any
finite set of pids in a listing, and any behaviour of the tools:

* `ViewNext` (`ProcessView_proofs`) is what any client can do to the variables it shares
  with the system: let the table move, refresh, take a step of a sample, take a step of
  `SignalControl`.  `ViewStep` shows once that it preserves `ViewInvariant`: the
  invariants of signals and samples, and that what was listed is never younger than the
  owner of the pid.  `ClientsView` shows that every step of either client is one.
* `ClientsInvariantHolds`.  `GuiInvariant` says that what is kept or in progress is
  about the selected pid, that what a prompt confirms is a run the pid had, that the runs
  read below a heading are no older than the heading and none is younger than the
  process that has the pid, and that the window hangs in a cyclic family only.  For
  `sher`, `PlaceInvariant` and `QueryInvariant` say what is known at each point of a
  command: what was found, asked, sent and queried before it.
* From it `ClientsTypeCorrect`, `LivePanesAreTheirOwn`, `ExitStatusTells`,
  `RunsAreShownApart`, `SamplesAreWhole`, `NoFileIsLeft` and `TreesArePrinted`, one for
  each invariant of the run `clients`.  `LivePanesAreTheirOwn` is the squeeze: a live
  heading has the latest start time, so the runs between are the heading itself.
* `ClientsSignalAsSpecified`: `ClientsSpec => SignalSpec`.  A step of a client is a step
  of `SignalControl` or leaves its variables alone; that what is confirmed is a run the
  pid had needs the invariant.  `ClientsHitNoBystander` and `ClientsReadWholeSnapshots`
  then follow from the theorems about `SignalControl`.

Assumed: `ProcessTableAssumption`, `AnswersAssumption`, `ClicksAssumption`,
`CliAssumption`.

### Checked by TLC only

* All liveness (`ExitsAreNoticed`, `SurvivorsAreListed`, `StopsWhenAsked`,
  `DetailCatchesUp`, `CommandEnds`), which is out of the prover's reach.

Every other property of the passing runs is the statement of a theorem.

## 5. Not modelled, and what is left

Not modelled:

* Text formats and parsers: pure functions with fixtures in the repository.  What each
  read answers is modelled, its text is not; `affinity.rs` has no caller.
* `MockTelemetryAdapter`: a test double.
* CPU percentages: nothing but what is displayed depends on them.
* `HistoryStore`'s schema migration, `snapshot_count` and `oldest_sampled_at`: the first
  keeps the rows, the programs do not call the other two.
* Rendering, colours, layout, packaging and CI.

Left out of modelled components: the substring match that looks for a pid in the kernel
log (`crash_analysis` is checked for both outcomes); a wall clock that is set back, for
`sherd` (see `SecondsAdvance`; `CrashesAreOfOneRun` assumes the same); the banner of a
refresh that fails in the GUI, which is otherwise a step that changes nothing.

Modelled, and without a property, because one step of the code decides each and a reader
sees it in the definition:

* `why_network` takes connections that could not be read for none and reports "no open
  network connections" as `Observed` (`WhyNetwork`), although `evidence.rs` reserves
  `Observed` for what was read.
* `inspect --json` and `export` print `[]` for lists that could not be read, those of a
  process that has gone included (`Json`); the text and the GUI say that the read failed.
* A process that is gone when its files are read is documented as `NotFound` and comes
  back as `Io`, since `map_io_error` has only two results (`ErrorOf`).  `NotFound` is
  returned when the process goes between the read and `kill(2)`.
* The frame that handles a click may refresh first, so a prompt can be for, and verify, the
  run that took the pid over since the pane under the mouse was drawn (`RequestSignal`).
* A clock that is set back by more than the sleep makes sherd write the events of earlier
  ticks again, as they are selected by `at >= now`.
* MemoryGrowthThresholdCrossed is reported on every tick for which growth holds.
