------------------------------ MODULE SherCli ------------------------------
(***************************************************************************)
(* sher-pe-cli: one run of `sher`.  A command refreshes once, looks the    *)
(* pid up in the process map and then reads, samples or signals by bare    *)
(* pid, while the process table moves on.                                  *)
(*                                                                         *)
(* Simplifications: the command and its pid are chosen in the beginning,   *)
(* flags where they matter; of what is printed the model keeps a set of    *)
(* records, and of inspect and export one section at a time; JSON and text *)
(* are told apart where they answer differently; output never fails.       *)
(***************************************************************************)
EXTENDS ProcessView, Investigation

CONSTANTS
    TreePid,  \* pids of the listings `sher tree` prints
    MaxTime,  \* bound: rows of the history database are of 0 .. MaxTime
    MaxWrites \* bound: what sherd does to the database while `sher history` runs

ASSUME CliAssumption ==
    /\ TreePid \subseteq Nat \ {0} /\ IsFiniteSet(TreePid)
    /\ MaxTime \in Nat /\ MaxWrites \in Nat

VARIABLES
    cli,              \* the command, how far it is, its exit code and its output
    listing,          \* the process map of `sher tree`: pid -> ppid
    snapshots, timeline_events, last_id,  \* the database of sherd
    writes            \* the number of steps sherd took

store == <<snapshots, timeline_events, last_id>>
cliVars == <<cli, listing, store, writes>>

History == INSTANCE HistoryStore WITH MaxTick <- 2

(* Commands that look up their pid before anything else. *)
AboutPid == {"inspect", "why", "investigate", "timeline", "trace", "profile",
             "deep-trace", "kill", "export"}
Commands == AboutPid \cup {"system", "ps", "tree", "ebpf", "history", "who-has"}

NoCommand == [command |-> "none", pid |-> NoPid, at |-> "none", exit_code |-> 0, printed |-> {}]

CliTypeOK ==
    /\ ViewTypeOK
    /\ DOMAIN cli = DOMAIN NoCommand
    /\ cli = NoCommand \/
         /\ cli.command \in Commands /\ cli.pid \in Pid \cup {NoPid}
         /\ cli.at \in {"start", "dispatch", "prompt", "confirmed", "sample", "query", "hung", "done"}
         /\ cli.exit_code \in {0, 1, 2, 134}
    /\ DOMAIN listing \subseteq TreePid
    /\ History!StoreTypeOK
    /\ writes \in 0 .. MaxWrites

(* A parent may be gone, or have been read before its pid was reused: only *)
(* being one's own parent is impossible.                                   *)
Listings == UNION {{t \in [S -> TreePid \cup {0}] : \A p \in S : t[p] # p} : S \in SUBSET TreePid}

CliIdle ==
    /\ cli = NoCommand
    /\ listing = [p \in {} |-> p]
    /\ History!StoreInit
    /\ writes = 0

(* `sher tree` and `sher history` do not depend on the table, the others   *)
(* not on listings or the database.                                        *)
CliInit ==
    /\ ViewInit
    /\ \E command \in Commands :
         \E p \in IF command \in AboutPid \cup {"history"} THEN Pid ELSE {NoPid} :
           cli = [NoCommand EXCEPT !.command = command, !.pid = p, !.at = "start"]
    /\ IF cli.command = "tree" THEN listing \in Listings ELSE listing = [p \in {} |-> p]
    /\ IF cli.command = "history"
       THEN /\ snapshots \in SUBSET [key : {cli.pid} \X Start, sampled_at : 0 .. MaxTime, tick : {1}]
            /\ timeline_events = {} /\ last_id = 0
       ELSE History!StoreInit
    /\ writes = 0

At(command, place) == cli.command = command /\ cli.at = place
Goes(place) == cli' = [cli EXCEPT !.at = place]
Exits(code, printed) == cli' = [cli EXCEPT !.at = "done", !.exit_code = code, !.printed = printed]
Others == UNCHANGED <<listing, store, writes>>

-----------------------------------------------------------------------------
(* deep-trace without --i-accept-the-overhead. *)
RefuseOverhead ==
    /\ At("deep-trace", "start")
    /\ Exits(2, {})
    /\ Others /\ View

RefreshOnce ==
    /\ cli.at = "start"
    /\ Refreshed
    /\ Goes("dispatch")
    /\ Others /\ UNCHANGED <<table, call, signalling, sent, sample, temp_file>>

RefreshFails ==
    /\ cli.at = "start"
    /\ Exits(1, {})
    /\ Others /\ View

(* not_found_error. *)
NoSuchPid ==
    /\ cli.at = "dispatch" /\ cli.command \in AboutPid
    /\ cli.pid \notin Listed
    /\ Exits(1, {})
    /\ Others /\ View

(* The command has its process in hand. *)
Found(command) == At(command, "dispatch") /\ cli.pid \in Listed

System ==
    /\ At("system", "dispatch")
    /\ \E answer \in SystemOverview : Exits(IF answer = "failed" THEN 1 ELSE 0, {})
    /\ Others /\ View

Ps ==
    /\ At("ps", "dispatch")
    /\ Exits(0, {[pid |-> p, run |-> RunOf(p)] : p \in Listed})
    /\ Others /\ View

(* The whole map, as JSON or from its roots, or the family of one pid;     *)
(* printing a pid that is its own descendant overflows the stack.          *)
TreeCommand ==
    /\ At("tree", "dispatch")
    /\ \/ Exits(0, {})
       \/ Exits(0, UNION {PrintSubtree(listing, root) : root \in Roots(listing)})
       \/ \E p \in TreePid \ DOMAIN listing : Exits(1, {})
       \/ \E p \in DOMAIN listing :
            IF FamilyEnds(listing, p) THEN Exits(0, PrintSubtree(listing, p)) ELSE Exits(134, {})
    /\ Others /\ View

-----------------------------------------------------------------------------
(* A section of `sher inspect` or of the report of `sher export`: what its *)
(* read may answer.                                                        *)
Section(section, p) ==
    CASE section = "threads" -> Threads(p)
      [] section = "open_files" -> OpenFiles(p)
      [] section = "connections" -> Connections(p)
      [] section = "security" -> Security(p)
      [] section = "systemd_unit" -> SystemdUnit(p)
      [] section = "scheduler_stats" -> SchedulerStats(p)
      [] section = "container" -> ContainerInfo(p)
      [] section = "fd_limits" -> FdLimits(p)
      [] section = "environment" -> Environment(p)
      [] section = "mapped_files" -> MappedFiles(p)
      [] section = "cgroup" -> Cgroup(p)
      [] section = "namespaces" -> Namespaces(p)
      [] section = "disk_io" -> DiskIo(p)
      [] section = "journal_entries" -> JournalEntries(p)
      [] section = "kernel_log" -> KernelLogFor(p)
      [] section = "system" -> SystemOverview

Inspected == {"threads", "open_files", "connections", "security", "systemd_unit",
              "scheduler_stats", "container", "fd_limits", "environment", "mapped_files"}
Reported == Inspected \cup {"cgroup", "namespaces", "disk_io", "journal_entries",
                            "kernel_log", "system"}

(* Lines left out of the text when there is nothing to show. *)
Quiet == {"systemd_unit", "container", "scheduler_stats", "fd_limits"}

Text(section, answer) ==
    CASE answer = "rows" -> "rows"
      [] answer = "empty" /\ section \notin Quiet -> "empty"
      [] answer = "failed" /\ section \notin Quiet -> "unavailable"
      [] OTHER -> "left_out"

(* unwrap_or_default for the lists and the system, ok() for the others: a  *)
(* list that failed is an empty one.                                       *)
Json(section, answer) ==
    CASE answer = "rows" -> "rows"
      [] answer # "rows" /\ section \in {"threads", "open_files", "connections", "environment",
           "mapped_files", "journal_entries", "kernel_log", "system"} -> "empty"
      [] OTHER -> "null"

Inspect ==
    /\ Found("inspect")
    /\ \E section \in Inspected : \E answer \in Section(section, cli.pid) :
         \/ Exits(0, {Text(section, answer)})
         \/ Exits(0, {Json(section, answer)})
    /\ Others /\ View

(* A rule of the investigation with what it read.  A process that is gone  *)
(* leaves nothing to read; one refresh leaves a history of one sample.     *)
Read(p) ==
    {r \in Readings :
       /\ r.history = "one"
       /\ p \notin Alive => r.threads = "failed" /\ r.sched = "failed"
       /\ r.connections \in Connections(p) /\ r.io \in DiskIo(p)}

WhyCommand ==
    /\ Found("why")
    /\ \E aspect \in Aspects, r \in Read(cli.pid) : Exits(0, {Why(aspect, r)})
    /\ Others /\ View

Findings(r) == ToSet(Investigate(cli.pid \in Listed, r))

InvestigateCommand ==
    /\ Found("investigate")
    /\ \E r \in Read(cli.pid) : Exits(0, Findings(r))
    /\ Others /\ View

(* diagnostic_report: a section of it, the findings apart. *)
DiagnosticReport ==
    UNION {{Json(section, answer) : answer \in Section(section, cli.pid)} : section \in Reported}

(* The report, once the family was rolled up, is printed, or written to a  *)
(* file or not; OTLP has the findings alone.  The roll-up of an endless    *)
(* family never returns.                                                   *)
ExportCommand ==
    /\ Found("export")
    /\ IF RollupEnds(cli.pid)
       THEN \/ \E shown \in DiagnosticReport : Exits(0, {shown})
            \/ \E r \in Read(cli.pid) : Exits(0, Findings(r))
            \/ Exits(1, {})
       ELSE Goes("hung")
    /\ Others /\ View

(* Events, journal and kernel log; the reads that fail count as empty. *)
Timeline ==
    /\ Found("timeline")
    /\ \E journal \in JournalEntries(cli.pid), log \in KernelLogFor(cli.pid) :
         Exits(0, {IF answer = "rows" THEN "rows" ELSE "nothing_recorded" :
                     answer \in {journal, log}})
    /\ Others /\ View

(* who-has: a path or a port, not both and not neither.  The names printed *)
(* are those of the snapshots.                                             *)
WhoHas ==
    /\ At("who-has", "dispatch")
    /\ \/ Exits(2, {})
       \/ \E owners \in (SUBSET WhoHasFile) \cup (SUBSET WhoHasPort) :
            Exits(0, {[pid |-> p, run |-> RunOf(p)] : p \in owners})
    /\ Others /\ View

(* bpftrace runs by bare pid, without a look at the process map, and its   *)
(* exit code is passed on; a script may be unknown.                        *)
Ebpf ==
    /\ At("ebpf", "dispatch")
    /\ \E code \in {0, 1} : Exits(code, {})
    /\ Others /\ View

-----------------------------------------------------------------------------
ToolOf(command) ==
    CASE command = "trace" -> "strace"
      [] command = "profile" -> "perf"
      [] command = "deep-trace" -> "bpftrace"

TakeSample ==
    /\ \E command \in {"trace", "profile", "deep-trace"} :
         Found(command) /\ Sample(ToolOf(command), cli.pid)
    /\ Goes("sample")
    /\ Others /\ UNCHANGED <<table, call, signalling, sent, current>>

SampleGoesOn ==
    /\ cli.at = "sample"
    /\ SamplingProceeds
    /\ Others /\ UNCHANGED <<cli, table, call, signalling, sent, current>>

SampleEnds ==
    /\ cli.at = "sample"
    /\ Taken
    /\ Exits(IF sample.result = "ok" THEN 0 ELSE 1, {})
    /\ Others /\ UNCHANGED <<table, call, signalling, sent, current>>

-----------------------------------------------------------------------------
(* kill: --yes goes ahead; otherwise the prompt is written, or cannot be.  *)
KillCommand ==
    /\ Found("kill")
    /\ \/ Goes("confirmed")
       \/ Goes("prompt")
       \/ Exits(1, {})
    /\ Others /\ View

(* The answer is yes, anything else, or cannot be read. *)
AnswerPrompt ==
    /\ At("kill", "prompt")
    /\ Goes("confirmed") \/ Exits(1, {})
    /\ Others /\ View

(* The start time is the one of the snapshot that was named in the prompt. *)
SendSignal ==
    /\ At("kill", "confirmed")
    /\ Confirm(<<cli.pid, RunOf(cli.pid)>>, RunOf(cli.pid))
    /\ Others /\ UNCHANGED <<cli, sample, temp_file, current>>

SignalGoesOn ==
    /\ At("kill", "confirmed")
    /\ Deliver
    /\ Others /\ UNCHANGED <<cli, sample, temp_file, current>>

(* A failure exits with -1. *)
ExitCodeSignedFault(outcome) == IF outcome = "ok" THEN 0 ELSE -1

(* A process that is gone counts as killed. *)
ExitCodeFault(outcome) == IF outcome \in {"ok", "NotFound"} THEN 0 ELSE 1

ExitCode(outcome) == IF outcome = "ok" THEN 0 ELSE 1

(* A signal that was refused is sent again until it gets through. *)
SignalEndsFault ==
    /\ At("kill", "confirmed")
    /\ Return
    /\ IF signalling.outcome = "PidReused" THEN UNCHANGED cli
       ELSE Exits(ExitCode(signalling.outcome), {})
    /\ Others /\ UNCHANGED <<sample, temp_file, current>>

SignalEnds ==
    /\ At("kill", "confirmed")
    /\ Return
    /\ Exits(ExitCode(signalling.outcome), {})
    /\ Others /\ UNCHANGED <<sample, temp_file, current>>

-----------------------------------------------------------------------------
(* A negative --since-secs, or a database that cannot be opened. *)
HistoryRefused ==
    /\ At("history", "dispatch")
    /\ Exits(2, {}) \/ Exits(1, {})
    /\ Others /\ View

(* The two queries are not one transaction. *)
QuerySnapshots ==
    /\ At("history", "dispatch")
    /\ \E since \in 0 .. MaxTime :
         cli' = [cli EXCEPT !.at = "query", !.printed =
           {[since |-> since, snapshots |-> History!SnapshotsFor(cli.pid, since)]}]
    /\ Others /\ View

(* The rows of a pid are shown as one run. *)
GenerationsFault(rows, events) ==
    {[start_time |-> r.key[2], snapshots |-> rows, events |-> events] : r \in rows}

(* The rows of a pid, by run. *)
Generations(rows, events) ==
    {[start_time |-> s,
      snapshots |-> {row \in rows : row.key[2] = s},
      events |-> {row \in events : row.event.key[2] = s}] :
        s \in {row.key[2] : row \in rows} \cup {row.event.key[2] : row \in events}}

(* The text is grouped by run, the JSON is two lists, each row with its    *)
(* run.                                                                    *)
QueryEvents ==
    /\ At("history", "query")
    /\ \E q \in cli.printed :
         LET events == History!EventsFor(cli.pid, q.since) IN
         \/ Exits(0, {[since |-> q.since, form |-> "text",
                       generations |-> Generations(q.snapshots, events)]})
         \/ Exits(0, {[since |-> q.since, form |-> "json",
                       snapshots |-> q.snapshots, events |-> events]})
    /\ Others /\ View

QueryFails ==
    /\ At("history", "dispatch") \/ At("history", "query")
    /\ Exits(1, {})
    /\ Others /\ View

(* sherd writes and prunes while the command runs; tick 2 marks its rows.  *)
SherdWrites ==
    /\ cli.command = "history" /\ cli.at # "done"
    /\ writes < MaxWrites
    /\ writes' = writes + 1
    /\ \/ \E k \in Key, at \in 0 .. MaxTime :
            \/ History!RecordSnapshot([key |-> k, sampled_at |-> at, tick |-> 2])
            \/ \E kind \in {"Started", "Exited"} :
                 History!RecordEvent([key |-> k, at |-> at, kind |-> kind, tick |-> 2])
       \/ \E cutoff \in 0 .. MaxTime :
            History!PruneSnapshots(cutoff) \/ History!PruneEvents(cutoff)
    /\ UNCHANGED <<cli, listing>> /\ View

-----------------------------------------------------------------------------
(* What `sher` does by itself. *)
CliProceeds ==
    \/ RefuseOverhead
    \/ RefreshOnce
    \/ RefreshFails
    \/ NoSuchPid
    \/ System
    \/ Ps
    \/ TreeCommand
    \/ Inspect
    \/ WhyCommand
    \/ InvestigateCommand
    \/ ExportCommand
    \/ Timeline
    \/ WhoHas
    \/ Ebpf
    \/ TakeSample
    \/ SampleGoesOn
    \/ SampleEnds
    \/ KillCommand
    \/ SendSignal
    \/ SignalGoesOn
    \/ SignalEnds
    \/ HistoryRefused
    \/ QuerySnapshots
    \/ QueryEvents
    \/ QueryFails

CliNext == CliProceeds \/ AnswerPrompt \/ SherdWrites

-----------------------------------------------------------------------------
(* The exit code of `sher kill` is what scripts go by: it is 0 just when   *)
(* a signal was delivered, and then to a run not older than the one the    *)
(* prompt named; an answer other than yes sends nothing.                   *)
KillExitStatus ==
    At("kill", "done") =>
      /\ (cli.exit_code = 0) <=> (sent # {})
      /\ \A hit \in sent : hit.confirmed = <<cli.pid, RunOf(cli.pid)>>

(* The rows are those of the pid since then, and no row is missing that    *)
(* the database had when the command began or has now.                     *)
WindowOfRows(since, rows, events) ==
    LET inWindow(k, at) == k[1] = cli.pid /\ at >= since
    IN  /\ \A row \in rows : inWindow(row.key, row.sampled_at)
        /\ \A row \in events : inWindow(row.event.key, row.event.at)
        /\ \A row \in snapshots : row.tick = 1 /\ inWindow(row.key, row.sampled_at) => row \in rows
        /\ \A row \in timeline_events : inWindow(row.event.key, row.event.at) => row \in events

WindowByRun(output) ==
    IF output.form = "json" THEN WindowOfRows(output.since, output.snapshots, output.events)
    ELSE /\ WindowOfRows(output.since, UNION {g.snapshots : g \in output.generations},
                         UNION {g.events : g \in output.generations})
         /\ \A g \in output.generations :
              /\ \A row \in g.snapshots : row.key = <<cli.pid, g.start_time>>
              /\ \A row \in g.events : row.event.key = <<cli.pid, g.start_time>>

(* A pid that had several owners is never shown as one run: each           *)
(* generation of the text is a run, nothing is shown from before the       *)
(* window, and what the database holds of the pid since then is there, but *)
(* for snapshots sherd wrote while the command ran.                        *)
HistoryShownByRun ==
    At("history", "done") => \A output \in cli.printed : WindowByRun(output)

(* Each place in a command knows what was found, asked or sent before it:  *)
(* the signal is for the run listed by the one refresh, and it was         *)
(* delivered just when send_signal_verified says so.                       *)
PlaceInvariant ==
    /\ cli.at \notin {"query", "done"} => cli.printed = {}
    /\ cli.at = "query" => cli.command = "history"
    /\ cli.at = "hung" => ~RollupEnds(cli.pid)
    /\ At("tree", "done") /\ cli.exit_code = 134 => \E p \in DOMAIN listing : ~FamilyEnds(listing, p)
    /\ cli.at = "sample" => cli.command \in {"trace", "profile", "deep-trace"}
    /\ cli.at \in {"prompt", "confirmed"} => cli.command = "kill" /\ cli.pid \in Listed
    /\ Signalling => cli.at = "confirmed" /\ signalling.confirmed = <<cli.pid, RunOf(cli.pid)>>
    /\ sent # {} => cli.command = "kill" /\ cli.at \in {"confirmed", "done"}
    /\ cli.at = "confirmed" => (sent # {} <=> Signalling /\ signalling.outcome = "ok")
    /\ \A hit \in sent : hit.confirmed = <<cli.pid, RunOf(cli.pid)>>

(* What was queried is of the window, and all of it that sherd had written *)
(* before and has not pruned.                                              *)
QueryInvariant ==
    At("history", "query") =>
      \A q \in cli.printed :
        /\ q.snapshots \subseteq {row \in History!Snapshot :
                                   row.key[1] = cli.pid /\ row.sampled_at >= q.since}
        /\ \A row \in History!SnapshotsFor(cli.pid, q.since) :
             row.tick = 1 => row \in q.snapshots

CliInvariant ==
    /\ CliTypeOK
    /\ KillExitStatus
    /\ HistoryShownByRun
    /\ PlaceInvariant
    /\ QueryInvariant

(* `sher tree` and the list of the GUI, over the same listing: each member *)
(* of a family that has an end is printed and counted once, and the list   *)
(* shows what was expanded or searched for.                                *)
TreePrinted ==
    At("tree", "done") =>
      /\ \A p \in DOMAIN listing : FamilyCountedOnce(listing, p)
      /\ \A expanded \in SUBSET DOMAIN listing, filter \in Filters(DOMAIN listing) :
           RowsAsPromised(listing, expanded, filter)

Running == cli.at \notin {"none", "prompt", "done"}
CommandEnded == cli.at = "prompt" \/ (cli.at = "done" /\ cli.exit_code # 134)

(* Every command ends by itself with an exit code of its own, or waits for *)
(* the user's answer, unless it is asked for a family that has no end.     *)
CommandEnds ==
    Running ~> \/ CommandEnded
               \/ cli.at = "hung" /\ ~RollupEnds(cli.pid)
               \/ At("tree", "done") /\ \E p \in DOMAIN listing : ~FamilyEnds(listing, p)
=============================================================================
