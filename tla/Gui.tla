-------------------------------- MODULE Gui --------------------------------
(***************************************************************************)
(* sher-pe-gui: SherApp, which redraws itself at least every half second   *)
(* and refreshes every other, and whose one thread is blocked while it     *)
(* samples or signals.  What the buttons produced is kept until another    *)
(* process is selected.                                                    *)
(*                                                                         *)
(* Simplifications: a frame is one action, which refreshes, handles one    *)
(* click or redraws; the tab, the expanded rows and the search are chosen  *)
(* by the user in the frame that uses them; the banner of a failed refresh *)
(* and the system line are left out, and so is which signal is sent and    *)
(* which tab a finding is for.  What the buttons left is kept apart from   *)
(* the pane, which is the rest of the detail pane.                         *)
(***************************************************************************)
EXTENDS ProcessView

CONSTANT MaxClicks  \* bound: the number of clicks but the answers to a prompt

ASSUME ClicksAssumption == MaxClicks \in Nat

VARIABLES
    selected,              \* NoPid when no row was selected yet
    cached_finding,
    cached_hot_functions,
    cached_syscalls,
    pending_signal,        \* the confirmation prompt
    last_signal_result,
    last_export_result,
    pane,                  \* the detail pane as it was drawn last
    observed,              \* the runs a refresh has listed, which have events
    hung,                  \* a call on the one thread never returns
    clicks

results == <<cached_finding, cached_hot_functions, cached_syscalls, pending_signal,
             last_signal_result, last_export_result>>
guiVars == <<selected, results, pane, observed, hung, clicks>>

(* What a button leaves: the pid it is kept under, the run that was        *)
(* listed, traced or confirmed, and the outcome.                           *)
Nothing == [pid |-> NoPid, run |-> 0, outcome |-> "none"]
Kept(p, run, outcome) == [pid |-> p, run |-> run, outcome |-> outcome]

(* header: the run of the snapshot the heading is drawn from; read: the    *)
(* runs that the live reads below it are about; events: those of the       *)
(* events below it.                                                        *)
Blank == [pid |-> NoPid, header |-> 0, read |-> {}, events |-> {}]

Tabs == {"Overview", "Memory", "Cpu", "Threads", "Files", "Network", "Disk", "Security",
         "Environment", "Timeline"}

GuiTypeOK ==
    /\ ViewTypeOK
    /\ selected \in Pid \cup {NoPid}
    /\ \A r \in {cached_finding, cached_hot_functions, cached_syscalls, pending_signal,
                 last_signal_result, last_export_result} :
         /\ r.pid \in Pid \cup {NoPid} /\ r.run \in 0 .. MaxStart
         /\ r.outcome \in Outcomes \cup {"none", "finding", "pending", "failed"}
    /\ pane \in [pid : Pid \cup {NoPid}, header : 0 .. MaxStart,
                read : SUBSET Start, events : SUBSET Start]
    /\ observed \subseteq Key
    /\ hung \in BOOLEAN
    /\ clicks \in 0 .. MaxClicks

GuiIdle ==
    /\ selected = NoPid /\ observed = {} /\ hung = FALSE
    /\ cached_finding = Nothing /\ cached_hot_functions = Nothing /\ cached_syscalls = Nothing
    /\ pending_signal = Nothing /\ last_signal_result = Nothing /\ last_export_result = Nothing
    /\ pane = Blank
    /\ clicks = 0

GuiInit == ViewInit /\ GuiIdle

-----------------------------------------------------------------------------
(* The thread is free to draw and to handle a click. *)
Responsive == Idle /\ ~hung

(* The interval has passed, or "Refresh now": the process map is replaced. *)
(* A refresh that fails leaves it as it was.                               *)
RefreshTick ==
    /\ Responsive
    /\ Refreshed
    /\ observed' = observed \cup {<<p, RunOf(p)>> : p \in Listed}'
    /\ UNCHANGED <<table, call, signalling, sent, sample, temp_file,
                   selected, results, pane, hung, clicks>>

Click == Responsive /\ clicks < MaxClicks /\ clicks' = clicks + 1

(* A button of the detail pane that is on screen.  The frame that handles  *)
(* the click may have refreshed before: the process must still be listed.  *)
OnScreen ==
    /\ selected \in Listed /\ pane.pid = selected /\ pane.header # 0
    /\ UNCHANGED <<selected, pane, observed>>

DetailClick == Click /\ OnScreen

(* The rows that may be on screen: all of them, when every row is expanded *)
(* and nothing is searched for.                                            *)
Rows == Visible(Tree, Listed, {})

(* A click on a row of the list: what was kept is forgotten. *)
SelectRow(p) ==
    /\ Click
    /\ selected' = p
    /\ cached_finding' = Nothing /\ cached_hot_functions' = Nothing /\ cached_syscalls' = Nothing
    /\ pending_signal' = Nothing /\ last_signal_result' = Nothing /\ last_export_result' = Nothing
    /\ UNCHANGED <<pane, observed, hung>> /\ View

(* "Why?": the finding is worked out anew and replaces the one kept. *)
FindingFor ==
    /\ DetailClick
    /\ cached_finding' = Kept(selected, RunOf(selected), "finding")
    /\ UNCHANGED <<cached_hot_functions, cached_syscalls, pending_signal,
                   last_signal_result, last_export_result, hung>> /\ View

(* "Profile" and "Trace syscalls" block the window until the sample ends.  *)
StartSample(tool) ==
    /\ DetailClick
    /\ Sample(tool, selected)
    /\ UNCHANGED <<table, call, signalling, sent, current, results, hung>>

SampleProceeds ==
    /\ SamplingProceeds
    /\ UNCHANGED <<table, call, signalling, sent, current, guiVars>>

SampleReturns ==
    /\ Taken
    /\ LET result == Kept(sample.pid, sample.run, sample.result) IN
       IF sample.tool = "perf"
       THEN cached_hot_functions' = result /\ UNCHANGED cached_syscalls
       ELSE cached_syscalls' = result /\ UNCHANGED cached_hot_functions
    /\ UNCHANGED <<table, call, signalling, sent, current, selected, cached_finding,
                   pending_signal, last_signal_result, last_export_result, pane, observed, hung, clicks>>

(* "Terminate", "Kill" or "Send": nothing is sent yet. *)
RequestSignal ==
    /\ DetailClick
    /\ pending_signal' = Kept(selected, RunOf(selected), "pending")
    /\ UNCHANGED <<cached_finding, cached_hot_functions, cached_syscalls,
                   last_signal_result, last_export_result, hung>> /\ View

(* The prompt is drawn in the pane of the pid it names, and has two        *)
(* buttons.                                                                *)
AnswerClick ==
    /\ pending_signal # Nothing /\ pending_signal.pid = selected
    /\ Responsive /\ OnScreen
    /\ UNCHANGED clicks

(* The start time is taken from the row as it is now, not from the prompt. *)
ConfirmSignalFault ==
    /\ AnswerClick
    /\ Confirm(<<pending_signal.pid, pending_signal.run>>, RunOf(selected))
    /\ UNCHANGED <<sample, temp_file, current, results, hung>>

(* "Confirm": the start time the prompt was opened with is verified. *)
ConfirmSignal ==
    /\ AnswerClick
    /\ Confirm(<<pending_signal.pid, pending_signal.run>>, pending_signal.run)
    /\ UNCHANGED <<sample, temp_file, current, results, hung>>

SignalProceeds ==
    /\ Deliver
    /\ UNCHANGED <<sample, temp_file, current, guiVars>>

SignalReturns ==
    /\ Return
    /\ last_signal_result' = Kept(signalling.confirmed[1], signalling.confirmed[2], signalling.outcome)
    /\ pending_signal' = Nothing
    /\ UNCHANGED <<sample, temp_file, current, selected, cached_finding, cached_hot_functions,
                   cached_syscalls, last_export_result, pane, observed, hung, clicks>>

CancelSignal ==
    /\ AnswerClick
    /\ pending_signal' = Nothing
    /\ UNCHANGED <<cached_finding, cached_hot_functions, cached_syscalls,
                   last_signal_result, last_export_result, hung>> /\ View

(* "Export diagnostic report": the file is written or it is not, once the  *)
(* family was rolled up.                                                   *)
Export ==
    /\ DetailClick
    /\ IF RollupEnds(selected)
       THEN /\ \E outcome \in {"ok", "failed"} :
                 last_export_result' = Kept(selected, RunOf(selected), outcome)
            /\ UNCHANGED hung
       ELSE hung' = TRUE /\ UNCHANGED last_export_result
    /\ UNCHANGED <<cached_finding, cached_hot_functions, cached_syscalls,
                   pending_signal, last_signal_result>> /\ View

-----------------------------------------------------------------------------
(* What each tab draws of its live reads, by the runs it is about; that a  *)
(* read failed is drawn as such.  The other lines of a tab come from the   *)
(* snapshot, and those of the systemd unit, the container, the scheduler   *)
(* and the limits are left out when their read fails.                      *)
Drawn(p, answers) == {IF answer = "failed" THEN {} ELSE {LiveRun(p)} \ {0} : answer \in answers}

DrawOverview(p) == Drawn(p, SystemdUnit(p) \cup ContainerInfo(p))
DrawMemory(p) == Drawn(p, MappedFiles(p))
DrawCpu(p) == Drawn(p, SchedulerStats(p))
DrawThreads(p) == Drawn(p, Threads(p))
DrawFiles(p) == Drawn(p, FdLimits(p) \cup OpenFiles(p))
DrawNetwork(p) == Drawn(p, Connections(p))
DrawDisk(p) == Drawn(p, DiskIo(p))
DrawSecurity(p) == Drawn(p, Security(p))
DrawEnvironment(p) == Drawn(p, Environment(p))

(* The journal and the kernel log; what cannot be read counts as empty.    *)
DrawTimeline(p) == Drawn(p, JournalEntries(p) \cup KernelLogFor(p))

Draw(tab, p) ==
    CASE tab = "Overview" -> DrawOverview(p)
      [] tab = "Memory" -> DrawMemory(p)
      [] tab = "Cpu" -> DrawCpu(p)
      [] tab = "Threads" -> DrawThreads(p)
      [] tab = "Files" -> DrawFiles(p)
      [] tab = "Network" -> DrawNetwork(p)
      [] tab = "Disk" -> DrawDisk(p)
      [] tab = "Security" -> DrawSecurity(p)
      [] tab = "Environment" -> DrawEnvironment(p)
      [] tab = "Timeline" -> DrawTimeline(p)

(* The timeline has the events of the pid that the log still keeps,        *)
(* whichever run they are of.                                              *)
Events(tab, p) ==
    IF tab = "Timeline" THEN SUBSET {k[2] : k \in {seen \in observed : seen[1] = p}} ELSE {{}}

(* The detail pane of a frame. *)
Detail(tab) ==
    IF selected \notin Listed THEN {Blank}
    ELSE [pid : {selected}, header : {RunOf(selected)},
          read : Draw(tab, selected), events : Events(tab, selected)]

(* What was read for the pid is drawn again below a new heading. *)
RepaintFault ==
    /\ Responsive
    /\ \E tab \in Tabs : \E drawn \in Detail(tab) :
         pane' = [drawn EXCEPT !.read = IF pane.pid = drawn.pid THEN pane.read ELSE @]
    /\ UNCHANGED <<selected, results, observed, hung, clicks>> /\ View

(* The pane is drawn for the first time only. *)
RepaintOnceFault ==
    /\ Responsive
    /\ \E tab \in Tabs : pane' \in IF pane.header = 0 THEN Detail(tab) ELSE {pane}
    /\ UNCHANGED <<selected, results, observed, hung, clicks>> /\ View

(* A frame without a click.  The overview of a listed process rolls its    *)
(* family up.                                                              *)
Repaint ==
    /\ Responsive
    /\ \E tab \in Tabs :
         IF tab = "Overview" /\ selected \in Listed /\ ~RollupEnds(selected)
         THEN hung' = TRUE /\ UNCHANGED pane
         ELSE pane' \in Detail(tab) /\ UNCHANGED hung
    /\ UNCHANGED <<selected, results, observed, clicks>> /\ View

(* The calls that block the window. *)
Blocked == SampleProceeds \/ SampleReturns \/ SignalProceeds \/ SignalReturns

GuiNext ==
    \/ RefreshTick
    \/ \E p \in Rows : SelectRow(p)
    \/ FindingFor
    \/ \E tool \in {"perf", "strace"} : StartSample(tool)
    \/ RequestSignal
    \/ ConfirmSignal
    \/ CancelSignal
    \/ Export
    \/ Blocked
    \/ Repaint

-----------------------------------------------------------------------------
(* As long as the process in the heading lives, what is read below the     *)
(* heading is its own, in every tab: the heading is of the last refresh,   *)
(* the reads are by bare pid and later.                                    *)
LivePaneIsItsOwn ==
    pane.header # 0 /\ LiveKey(<<pane.pid, pane.header>>) => pane.read \subseteq {pane.header}

(* Why it holds, and why a signal is for a run the pid had: the runs that  *)
(* are read are no older than the heading and none is younger than the     *)
(* process that has the pid.  Everything that is kept is about the         *)
(* selected pid, and the thread hangs in the roll-up of an endless family  *)
(* alone.                                                                  *)
GuiInvariant ==
    /\ GuiTypeOK
    /\ \A kept \in {cached_finding, cached_hot_functions, cached_syscalls, pending_signal,
                    last_signal_result, last_export_result} :
         kept # Nothing => kept.pid = selected
    /\ pane.header # 0 =>
         /\ pane.pid \in Pid /\ pane.header =< table[pane.pid].start_time
         /\ \A run \in pane.read : pane.header =< run /\ run =< table[pane.pid].start_time
    /\ pending_signal # Nothing =>
         /\ pending_signal.pid \in Pid
         /\ pending_signal.run \in 1 .. table[pending_signal.pid].start_time
    /\ sample # NoSample => sample.pid = selected
    /\ Signalling => signalling.confirmed[1] = selected
    /\ hung => ~RollupEnds(selected)

(* The pane heads a run that is over. *)
Stale == pane.header # 0 /\ ~LiveKey(<<pane.pid, pane.header>>)

(* The pane does not show a run for ever that is over: it says that the    *)
(* process is no longer running, or shows the new owner of the pid, unless *)
(* the window hangs because the listing has the selected process among its *)
(* own descendants.                                                        *)
DetailCatchesUp == Stale ~> ~Stale \/ (hung /\ ~RollupEnds(selected))

-----------------------------------------------------------------------------
(* The GUI says that a finding may be drawn again as long as it is about   *)
(* the selected process, and the timeline that the reuse of a pid cannot   *)
(* merge two processes.  The code compares the pid alone: when a pid is    *)
(* used again under the selection, what is drawn below the heading of the  *)
(* new process, its finding and its events, can be of the earlier one.     *)
PidReuseMergesNothing ==
    [][pane' # pane /\ pane'.header # 0 =>
         /\ pane'.events \subseteq {pane'.header}
         /\ cached_finding.pid = pane'.pid => cached_finding.run = pane'.header]_<<pane, cached_finding>>
=============================================================================
