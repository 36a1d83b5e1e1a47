---------------------------- MODULE Clients_proofs ----------------------------
(***************************************************************************)
(* The GUI and the CLI for every set of pids, number of clicks, database   *)
(* and listing: ClientsInvariant is inductive, and the properties of both  *)
(* follow.  What the clients do to signals, samples and the process map is *)
(* a ViewNext of ProcessView_proofs.                                       *)
(***************************************************************************)
EXTENDS MCClients, ProcessView_proofs, ProcessTree_proofs

(* The process map, and a run it lists: one the pid has or had. *)
LEMMA ListedRuns ==
    ASSUME ViewInvariant
    PROVE  /\ Listed \subseteq Pid /\ IsFiniteSet(Listed)
           /\ \A p \in Pid : table[p].start_time \in 0 .. MaxStart
           /\ \A p \in Alive : p \in Pid /\ table[p].start_time \in Start
           /\ \A p \in Pid : RunOf(p) \in 0 .. MaxStart /\ RunOf(p) =< table[p].start_time
           /\ \A p \in Listed : RunOf(p) \in Start /\ RunOf(p) = current[p].start_time
<1>1. TableTypeOK /\ Listed \subseteq Pid
  BY DEF ViewInvariant, ViewTypeOK, SignalTypeOK, Listed
<1>2. IsFiniteSet(Listed)
  BY <1>1, FS_Subset, ProcessTableAssumption
<1>3. \A p \in Pid : table[p].start_time \in 0 .. MaxStart
  BY <1>1, ProcessTableAssumption DEF TableTypeOK, Slot
<1>4. \A p \in Alive : p \in Pid /\ table[p].start_time \in Start
  BY <1>1, <1>3, ProcessTableAssumption DEF TableTypeOK, Alive, Start
<1>5. \A p \in Listed : /\ RunOf(p) \in Start /\ RunOf(p) = current[p].start_time
                        /\ RunOf(p) =< table[p].start_time
  BY DEF ViewInvariant, ViewTypeOK, Listed, RunOf
<1>6. \A p \in Pid \ Listed : RunOf(p) = 0
  BY DEF RunOf
<1>7. QED
  BY <1>1, <1>2, <1>3, <1>4, <1>5, <1>6, ProcessTableAssumption DEF Start


(* The rows of the list are listed processes. *)
LEMMA RowsAreListed ==
    ASSUME ViewInvariant
    PROVE  Rows \subseteq Listed
<1> DEFINE Row == FlattenNode(Tree, Listed, {})
<1>1. DOMAIN Tree = Listed /\ IsFiniteSet(DOMAIN Tree)
  BY ListedRuns DEF Tree
<1>2. Row \in [0 .. Size(Tree) -> SUBSET Listed]
  BY <1>1, RowsByDepth
<1> DEFINE RowsOf(n) == {[pid |-> p, depth |-> n, has_children |-> Children(Tree, p) # {}] :
                           p \in Row[n]}
<1>a. FlattenTree(Tree, Listed, {}) = UNION {RowsOf(n) : n \in DOMAIN Row}
  BY Zenon DEF FlattenTree
<1> HIDE DEF Row
<1>b. \A n \in DOMAIN Row : Row[n] \subseteq Listed
  BY <1>2
<1>3. \A row \in FlattenTree(Tree, Listed, {}) : row.pid \in Listed
  BY <1>a, <1>b
<1>4. QED
  BY <1>3 DEF Visible, Rows

-----------------------------------------------------------------------------
(* The GUI. *)

(* What is kept is about p. *)
Fits(r, p) ==
    /\ r.pid \in Pid \cup {NoPid} /\ r.run \in 0 .. MaxStart
    /\ r.outcome \in Outcomes \cup {"none", "finding", "pending", "failed"}
    /\ r # Nothing => r.pid = p

LEMMA NothingFits == \A p : Fits(Nothing, p)
BY ProcessTableAssumption DEF Fits, Nothing

(* GuiInvariant, part by part: what was kept, ... *)
ResultsFit ==
    /\ Fits(cached_finding, selected)
    /\ Fits(cached_hot_functions, selected)
    /\ Fits(cached_syscalls, selected)
    /\ Fits(pending_signal, selected)
    /\ Fits(last_signal_result, selected)
    /\ Fits(last_export_result, selected)

(* ... what was drawn, ... *)
PaneRecord == [pid : Pid \cup {NoPid}, header : 0 .. MaxStart,
               read : SUBSET Start, events : SUBSET Start]

PaneFits ==
    /\ pane \in PaneRecord
    /\ pane.header # 0 =>
         /\ pane.pid \in Pid /\ pane.header =< table[pane.pid].start_time
         /\ \A run \in pane.read : pane.header =< run /\ run =< table[pane.pid].start_time

(* ... the selection, ... *)
SelectionFits ==
    /\ selected \in Pid \cup {NoPid}
    /\ observed \subseteq Key
    /\ hung \in BOOLEAN
    /\ hung => ~RollupEnds(selected)

(* ... the prompt and the calls in progress. *)
PromptFits ==
    pending_signal # Nothing =>
      /\ pending_signal.pid \in Pid
      /\ pending_signal.run \in 1 .. table[pending_signal.pid].start_time

CallsFit ==
    /\ sample # NoSample => sample.pid = selected
    /\ Signalling => signalling.confirmed[1] = selected

AllFits ==
    /\ ResultsFit /\ PaneFits /\ SelectionFits /\ PromptFits /\ CallsFit
    /\ clicks \in 0 .. MaxClicks

LEMMA GuiParts == ViewTypeOK => (GuiInvariant <=> AllFits)
<1> DEFINE kept == {cached_finding, cached_hot_functions, cached_syscalls, pending_signal,
                    last_signal_result, last_export_result}
<1>1. ResultsFit <=> \A r \in kept : Fits(r, selected)
  BY DEF ResultsFit
<1>2. (\A r \in kept : Fits(r, selected))
        <=> /\ \A r \in kept :
                 /\ r.pid \in Pid \cup {NoPid} /\ r.run \in 0 .. MaxStart
                 /\ r.outcome \in Outcomes \cup {"none", "finding", "pending", "failed"}
            /\ \A r \in kept : r # Nothing => r.pid = selected
  BY DEF Fits
<1> HIDE DEF kept
<1>3. QED
  BY <1>1, <1>2
     DEF AllFits, GuiInvariant, GuiTypeOK, PaneFits, PaneRecord, SelectionFits, PromptFits,
         CallsFit, kept

(* What a button keeps of the selected row. *)
LEMMA KeptFits ==
    ASSUME ViewInvariant, selected \in Listed,
           NEW outcome \in Outcomes \cup {"finding", "pending", "failed"}
    PROVE  Fits(Kept(selected, RunOf(selected), outcome), selected)
BY ListedRuns DEF Fits, Kept, Start

(* The live reads of a frame are about the run that has the pid now. *)
LEMMA DrawnRuns ==
    ASSUME NEW tab \in Tabs, NEW p, NEW read \in Draw(tab, p)
    PROVE  read \subseteq {LiveRun(p)} \ {0}
<1>1. \A answers : \A runs \in Drawn(p, answers) : runs \subseteq {LiveRun(p)} \ {0}
  BY DEF Drawn
<1>2. QED
  BY <1>1
     DEF Tabs, Draw, DrawOverview, DrawMemory, DrawCpu, DrawThreads, DrawFiles, DrawNetwork,
         DrawDisk, DrawSecurity, DrawEnvironment, DrawTimeline

(* A frame of the detail pane. *)
LEMMA DetailFits ==
    ASSUME ViewInvariant, SelectionFits, NEW tab \in Tabs, NEW drawn \in Detail(tab)
    PROVE  /\ drawn \in PaneRecord
           /\ drawn.header # 0 =>
                /\ drawn.pid \in Pid /\ drawn.header =< table[drawn.pid].start_time
                /\ \A run \in drawn.read :
                     drawn.header =< run /\ run =< table[drawn.pid].start_time
<1>1. CASE selected \notin Listed
  <2>1. drawn = [pid |-> NoPid, header |-> 0, read |-> {}, events |-> {}]
    BY <1>1 DEF Detail, Blank
  <2>2. QED
    BY <2>1, ProcessTableAssumption DEF PaneRecord
<1>2. CASE selected \in Listed
  <2>1. /\ drawn \in [pid : {selected}, header : {RunOf(selected)},
                      read : Draw(tab, selected), events : Events(tab, selected)]
    BY <1>2 DEF Detail
  <2>2. /\ drawn.pid = selected /\ drawn.header = RunOf(selected)
        /\ drawn.read \subseteq {LiveRun(selected)} \ {0}
        /\ drawn.events \in Events(tab, selected)
        /\ drawn = [pid |-> drawn.pid, header |-> drawn.header, read |-> drawn.read,
                    events |-> drawn.events]
    BY <2>1, DrawnRuns
  <2>3. /\ selected \in Pid /\ RunOf(selected) \in Start /\ RunOf(selected) \in 0 .. MaxStart
        /\ RunOf(selected) =< table[selected].start_time
    BY <1>2, ListedRuns
  <2>4. LiveRun(selected) # 0 =>
          /\ LiveRun(selected) = table[selected].start_time
          /\ LiveRun(selected) \in Start
    BY ListedRuns DEF LiveRun
  <2>5. drawn.events \subseteq Start
    BY <2>2 DEF Events, SelectionFits, Key
  <2>6. drawn.read \in SUBSET Start /\ \A run \in drawn.read : run = table[selected].start_time
    BY <2>2, <2>4
  <2>7. drawn \in PaneRecord
    BY <2>2, <2>3, <2>5, <2>6 DEF PaneRecord
  <2>8. table[selected].start_time \in Nat
    BY <2>3, ListedRuns, ProcessTableAssumption
  <2>9. QED
    BY <2>2, <2>3, <2>6, <2>7, <2>8
<1>3. QED
  BY <1>1, <1>2
(* Whatever the GUI does is something a client may do: it samples a listed *)
(* process, and confirms a signal for the run the prompt was opened with.  *)
LEMMA GuiIsAView == ViewInvariant /\ GuiInvariant /\ GuiNext => ViewNext
<1> SUFFICES ASSUME ViewInvariant, GuiInvariant, GuiNext PROVE ViewNext
  OBVIOUS
<1>1. ASSUME NEW tool \in {"perf", "strace"}, StartSample(tool)
      PROVE  ViewNext
  <2>1. selected \in Pid /\ tool \in Tools
    BY <1>1, ListedRuns DEF StartSample, DetailClick, OnScreen, Tools
  <2>2. QED
    BY <1>1, <2>1 DEF StartSample, ViewNext, SampleStepOf
<1>2. CASE ConfirmSignal
  <2> DEFINE k == <<pending_signal.pid, pending_signal.run>>
  <2>1. PromptFits /\ pending_signal # Nothing
    BY <1>2, GuiParts DEF ViewInvariant, AllFits, ConfirmSignal, AnswerClick
  <2>2. k[1] \in Pid /\ k[2] \in 1 .. table[k[1]].start_time
    BY <2>1 DEF PromptFits
  <2>3. k \in Key /\ k[2] =< table[k[1]].start_time
    BY <2>2, ListedRuns, ProcessTableAssumption DEF Key, Start
  <2>4. QED
    BY <1>2, <2>3 DEF ConfirmSignal, ViewNext, SignalStepOf
<1>3. CASE RefreshTick
  BY <1>3 DEF RefreshTick, ViewNext
<1>4. CASE (\E p \in Rows : SelectRow(p)) \/ FindingFor \/ RequestSignal \/ CancelSignal \/ Export \/ Repaint
  BY <1>4 DEF SelectRow, FindingFor, RequestSignal, CancelSignal, Export, Repaint, ViewNext
<1>5. CASE Blocked
  BY <1>5 DEF Blocked, SampleProceeds, SampleReturns, SignalProceeds, SignalReturns, ViewNext,
     SampleStepOf, SignalStepOf
<1>6. QED
  BY <1>1, <1>2, <1>3, <1>4, <1>5 DEF GuiNext

LEMMA GuiInitially == ViewInvariant /\ GuiInit => GuiInvariant
<1> SUFFICES ASSUME ViewInvariant, ViewInit, GuiIdle PROVE GuiInvariant
  BY DEF GuiInit
<1>1. ResultsFit /\ PromptFits
  BY NothingFits DEF GuiIdle, ResultsFit, PromptFits
<1>2. PaneFits
  BY ProcessTableAssumption DEF GuiIdle, Blank, PaneFits, PaneRecord
<1>3. SelectionFits
  BY DEF GuiIdle, SelectionFits
<1>4. CallsFit /\ clicks \in 0 .. MaxClicks
  BY ClicksAssumption
     DEF ViewInit, SignalInit, SamplingInit, GuiIdle, CallsFit, Signalling
<1>5. QED
  BY <1>1, <1>2, <1>3, <1>4, GuiParts DEF ViewInvariant, AllFits

(* A roll-up ends as it did as long as the process map stays. *)
LEMMA RollupKept ==
    ASSUME UNCHANGED current, NEW p, NEW q, p = q
    PROVE  FamilyEnds(Tree, p) <=> FamilyEnds(Tree', q)
BY DEF Tree, Listed

(* A click starts from rest and leaves the process map, the selection and  *)
(* the pane alone; so do signals and samples.                              *)
LEMMA SelectionKept ==
    ASSUME SelectionFits, UNCHANGED <<current, selected, observed, hung>>
    PROVE  SelectionFits'
BY RollupKept DEF SelectionFits, RollupEnds

LEMMA ClickCounts ==
    ASSUME clicks \in 0 .. MaxClicks, Click
    PROVE  clicks' \in 0 .. MaxClicks /\ sample = NoSample /\ ~Signalling /\ ~hung
BY ClicksAssumption DEF Click, Responsive, Idle
(* Each step of the GUI keeps its invariant, given that the view stays as  *)
(* it should.                                                              *)
LEMMA GuiStep ==
    ASSUME ViewInvariant, ViewInvariant', GuiInvariant, GuiNext
    PROVE  GuiInvariant'
<1> DEFINE Counted == clicks \in 0 .. MaxClicks
<1>1. ResultsFit /\ PaneFits /\ SelectionFits /\ PromptFits /\ CallsFit /\ Counted
  BY GuiParts DEF ViewInvariant, AllFits
<1>2. SUFFICES ResultsFit' /\ PaneFits' /\ SelectionFits' /\ PromptFits' /\ CallsFit' /\ Counted'
  <2>1. (ViewTypeOK => (GuiInvariant <=> AllFits))'
    BY GuiParts, PTL
  <2>2. QED
    BY <2>1 DEF ViewInvariant, AllFits
<1>3. selected \in Listed => selected \in Pid
  BY ListedRuns
<1>4. \A outcome \in Outcomes \cup {"finding", "pending", "failed"} :
        selected \in Listed => Fits(Kept(selected, RunOf(selected), outcome), selected)
  BY KeptFits
<1>5. CASE RefreshTick
  <2>1. /\ ~hung /\ UNCHANGED <<selected, results, pane, hung, clicks>>
        /\ UNCHANGED <<table, sample, signalling>>
        /\ observed' = observed \cup {<<p, RunOf(p)>> : p \in Listed}'
    BY <1>5 DEF RefreshTick, Responsive
  <2>2. \A p \in Listed' : p \in Pid /\ RunOf(p)' \in Start
    <3>1. PICK listed \in SUBSET Alive :
            \E parent \in [listed -> Pid \cup {NoPid}] :
              current' = [p \in listed |-> [start_time |-> table[p].start_time, ppid |-> parent[p]]]
      BY <1>5 DEF RefreshTick, Refreshed
    <3>2. PICK parent \in [listed -> Pid \cup {NoPid}] :
            current' = [p \in listed |-> [start_time |-> table[p].start_time, ppid |-> parent[p]]]
      BY <3>1
    <3>3. \A p \in listed : p \in Pid /\ table[p].start_time \in Start
      BY <3>1, ListedRuns
    <3>4. QED
      BY <3>2, <3>3 DEF Listed, RunOf
  <2>3. SelectionFits'
    BY <1>1, <2>1, <2>2 DEF SelectionFits, Key
  <2>4. QED
    BY <1>1, <2>1, <2>3
       DEF results, ResultsFit, PaneFits, PromptFits, CallsFit, Signalling
<1>6. ASSUME NEW p \in Rows, SelectRow(p)
      PROVE  ResultsFit' /\ PaneFits' /\ SelectionFits' /\ PromptFits' /\ CallsFit' /\ Counted'
  <2>1. p \in Listed /\ p \in Pid
    BY RowsAreListed, ListedRuns
  <2>2. /\ selected' = p /\ ~hung
        /\ UNCHANGED <<table, current, sample, signalling, pane, observed, hung>>
    BY <1>1, <1>6, ClickCounts DEF SelectRow, View, viewVars
  <2>3. ResultsFit' /\ PromptFits'
    BY <1>6, NothingFits DEF SelectRow, ResultsFit, PromptFits
  <2>4. PaneFits'
    BY <1>1, <2>2 DEF PaneFits
  <2>5. SelectionFits'
    BY <1>1, <2>1, <2>2 DEF SelectionFits
  <2>6. CallsFit' /\ Counted'
    BY <1>1, <1>6, <2>2, ClickCounts DEF SelectRow, CallsFit, Signalling
  <2>7. QED
    BY <2>3, <2>4, <2>5, <2>6
<1>7. ASSUME DetailClick \/ AnswerClick, UNCHANGED table, UNCHANGED current, ResultsFit',
             SelectionFits', PromptFits', CallsFit'
      PROVE  ResultsFit' /\ PaneFits' /\ SelectionFits' /\ PromptFits' /\ CallsFit' /\ Counted'
  <2>1. UNCHANGED pane
    BY <1>7 DEF DetailClick, AnswerClick, OnScreen
  <2>2. PaneFits'
    BY <1>1, <1>7, <2>1 DEF PaneFits
  <2>3. Counted'
    BY <1>1, <1>7, ClickCounts DEF DetailClick, AnswerClick
  <2>4. QED
    BY <1>7, <2>2, <2>3
<1>8. CASE FindingFor \/ CancelSignal \/ Export \/ RequestSignal
  <2>1. (DetailClick \/ AnswerClick) /\ View /\ OnScreen /\ selected \in Listed
    BY <1>8 DEF FindingFor, CancelSignal, Export, RequestSignal, DetailClick, AnswerClick, OnScreen
  <2>2. UNCHANGED <<table, current, sample, signalling, selected, observed>>
    BY <2>1 DEF View, viewVars, OnScreen
  <2>3. CallsFit'
    BY <1>1, <2>2 DEF CallsFit, Signalling
  <2>4. ResultsFit'
    BY <1>1, <1>4, <1>8, <2>1, <2>2, NothingFits
       DEF FindingFor, CancelSignal, Export, RequestSignal, ResultsFit, Outcomes
  <2>5. PromptFits'
    <3>1. CASE UNCHANGED pending_signal \/ pending_signal' = Nothing
      BY <1>1, <2>2, <3>1 DEF PromptFits
    <3>2. CASE RequestSignal
      <4>1. pending_signal'.pid = selected /\ pending_signal'.run = RunOf(selected)
        BY <3>2 DEF RequestSignal, Kept
      <4>2. RunOf(selected) \in 1 .. table[selected].start_time
        BY <1>3, <2>1, ListedRuns, ProcessTableAssumption DEF Start
      <4>3. QED
        BY <1>3, <2>1, <2>2, <4>1, <4>2 DEF PromptFits
    <3>3. QED
      BY <1>8, <3>1, <3>2 DEF FindingFor, CancelSignal, Export
  <2>6. SelectionFits'
    <3>1. CASE UNCHANGED hung
      BY <1>1, <2>2, <3>1, SelectionKept
    <3>2. CASE hung' = TRUE /\ ~RollupEnds(selected)
      BY <1>1, <2>2, <3>2, RollupKept DEF SelectionFits, RollupEnds
    <3>3. QED
      BY <1>8, <3>1, <3>2 DEF FindingFor, CancelSignal, Export, RequestSignal
  <2>7. QED
    BY <1>7, <2>1, <2>2, <2>3, <2>4, <2>5, <2>6
<1>9. ASSUME NEW tool, StartSample(tool)
      PROVE  ResultsFit' /\ PaneFits' /\ SelectionFits' /\ PromptFits' /\ CallsFit' /\ Counted'
  <2>1. /\ DetailClick /\ UNCHANGED <<table, current, signalling, selected, observed, hung>>
        /\ UNCHANGED results
    BY <1>9 DEF StartSample, DetailClick, OnScreen
  <2>2. sample'.pid = selected
    <3> DEFINE a == [NoSample EXCEPT !.tool = tool]
               b == [a EXCEPT !.pid = selected]
               c == [b EXCEPT !.stage = "spawn"]
    <3>1. DOMAIN a = DOMAIN NoSample /\ {"pid", "stage"} \subseteq DOMAIN a
      BY DEF NoSample
    <3>2. \/ sample' = c
          \/ sample' = [c EXCEPT !.stage = "returned", !.covered = "unwritten", !.result = "Io"]
      BY <1>9, Zenon DEF StartSample, Sample
    <3> HIDE DEF a
    <3>3. DOMAIN c = DOMAIN a /\ c.pid = selected
      BY <3>1
    <3> HIDE DEF c
    <3>4. QED
      BY <3>1, <3>2, <3>3 DEF NoSample
  <2>3. CallsFit' /\ SelectionFits'
    BY <1>1, <2>1, <2>2, SelectionKept DEF CallsFit, Signalling
  <2>4. ResultsFit' /\ PromptFits'
    BY <1>1, <2>1 DEF results, ResultsFit, PromptFits
  <2>5. QED
    BY <1>7, <2>1, <2>3, <2>4
<1>10. CASE ConfirmSignal
  <2>1. /\ AnswerClick /\ UNCHANGED <<table, current, sample, selected, observed, hung>>
        /\ UNCHANGED results
        /\ pending_signal # Nothing /\ pending_signal.pid = selected
    BY <1>10 DEF ConfirmSignal, Confirm, AnswerClick, OnScreen
  <2>2. signalling'.confirmed = <<pending_signal.pid, pending_signal.run>>
    BY <1>10 DEF ConfirmSignal, Confirm
  <2>3. CallsFit' /\ SelectionFits'
    BY <1>1, <2>1, <2>2, SelectionKept DEF CallsFit
  <2>4. ResultsFit' /\ PromptFits'
    BY <1>1, <2>1 DEF results, ResultsFit, PromptFits
  <2>5. QED
    BY <1>7, <2>1, <2>3, <2>4
<1>11. CASE SampleProceeds
  <2>1. UNCHANGED <<table, current, signalling, guiVars>>
    BY <1>11 DEF SampleProceeds
  <2>2. sample # NoSample /\ sample'.pid = sample.pid
    BY <1>11, SampleKeepsTarget DEF SampleProceeds, ViewInvariant
  <2>3. CallsFit'
    BY <1>1, <2>1, <2>2 DEF CallsFit, guiVars, Signalling
  <2>4. QED
    BY <1>1, <2>1, <2>3, SelectionKept DEF guiVars, results, ResultsFit, PaneFits, PromptFits
<1>12. CASE SampleReturns
  <2> DEFINE r == Kept(sample.pid, sample.run, sample.result)
  <2>1. /\ UNCHANGED <<table, current, signalling, selected, observed, hung, clicks, pane,
                       pending_signal, cached_finding, last_signal_result, last_export_result>>
        /\ sample' = NoSample /\ sample.stage = "returned"
        /\ cached_hot_functions' \in {cached_hot_functions, r}
        /\ cached_syscalls' \in {cached_syscalls, r}
    BY <1>12 DEF SampleReturns, Taken, Sampled
  <2>2. /\ sample # NoSample /\ sample.pid \in Pid /\ sample.run \in 0 .. MaxStart
        /\ sample.result \in {"none", "ok", "Io", "Parse"}
    BY <2>1, SampleInProgress DEF ViewInvariant, SamplingInvariant, NoSample, SampleRecord
  <2>3. Fits(r, selected)
    BY <1>1, <2>2 DEF CallsFit, Fits, Kept, Outcomes
  <2> HIDE DEF r
  <2>4. ResultsFit'
    BY <1>1, <2>1, <2>3 DEF ResultsFit
  <2>5. CallsFit'
    BY <1>1, <2>1 DEF CallsFit, Signalling
  <2>6. QED
    BY <1>1, <2>1, <2>4, <2>5, SelectionKept DEF PaneFits, PromptFits
<1>13. CASE SignalProceeds
  <2>1. UNCHANGED <<table, sample, current, guiVars>>
    BY <1>13 DEF SignalProceeds, Deliver, ReadLive, ReadFailed, Refuse, Kill
  <2>2. Signalling /\ signalling'.confirmed = signalling.confirmed
    BY <1>13, DeliverKeepsTarget DEF SignalProceeds, ViewInvariant
  <2>3. CallsFit'
    BY <1>1, <2>1, <2>2 DEF CallsFit, guiVars
  <2>4. QED
    BY <1>1, <2>1, <2>3, SelectionKept DEF guiVars, results, ResultsFit, PaneFits, PromptFits
<1>14. CASE SignalReturns
  <2> DEFINE r == Kept(signalling.confirmed[1], signalling.confirmed[2], signalling.outcome)
  <2>1. /\ UNCHANGED <<table, current, sample, selected, observed, hung, clicks, pane,
                       cached_finding, cached_hot_functions, cached_syscalls, last_export_result>>
        /\ signalling' = NoSignal /\ signalling.outcome # "none"
        /\ last_signal_result' = r /\ pending_signal' = Nothing
    BY <1>14 DEF SignalReturns, Return
  <2>2. Signalling
    BY <2>1 DEF Signalling, NoSignal
  <2>3. /\ signalling.confirmed[1] \in Pid /\ signalling.confirmed[2] \in Start
        /\ signalling.outcome \in Outcomes
    BY <2>1, <2>2, ConfirmedIsARun DEF ViewInvariant, SignalInvariant
  <2>4. Fits(r, selected)
    BY <1>1, <2>2, <2>3 DEF CallsFit, Fits, Kept, Start
  <2> HIDE DEF r
  <2>5. ResultsFit' /\ PromptFits'
    BY <1>1, <2>1, <2>4, NothingFits DEF ResultsFit, PromptFits
  <2>6. CallsFit'
    BY <1>1, <2>1 DEF CallsFit, Signalling
  <2>7. QED
    BY <1>1, <2>1, <2>5, <2>6, SelectionKept DEF PaneFits
<1>15. CASE Repaint
  <2>1. UNCHANGED <<table, current, sample, signalling, selected, observed, clicks, results>>
    BY <1>15 DEF Repaint, View, viewVars
  <2>2. PICK tab \in Tabs :
          \/ hung' = TRUE /\ UNCHANGED pane /\ ~RollupEnds(selected)
          \/ pane' \in Detail(tab) /\ UNCHANGED hung
    BY <1>15 DEF Repaint
  <2>3. PaneFits'
    BY <1>1, <2>1, <2>2, DetailFits DEF PaneFits
  <2>4. SelectionFits'
    BY <1>1, <2>1, <2>2, SelectionKept, RollupKept DEF SelectionFits, RollupEnds
  <2>5. QED
    BY <1>1, <2>1, <2>3, <2>4 DEF results, ResultsFit, PromptFits, CallsFit, Signalling
<1>16. QED
  BY <1>5, <1>6, <1>8, <1>9, <1>10, <1>11, <1>12, <1>13, <1>14, <1>15 DEF GuiNext, Blocked
-----------------------------------------------------------------------------
(* The CLI. *)

(* A step of a command changes of its record what it names. *)
LEMMA ExitsFields ==
    ASSUME DOMAIN cli = DOMAIN NoCommand, NEW code, NEW printed, Exits(code, printed)
    PROVE  /\ cli'.command = cli.command /\ cli'.pid = cli.pid /\ cli'.at = "done"
           /\ cli'.exit_code = code /\ cli'.printed = printed
           /\ DOMAIN cli' = DOMAIN NoCommand
<1> DEFINE a == [cli EXCEPT !.at = "done"]
           b == [a EXCEPT !.exit_code = code]
           c == [b EXCEPT !.printed = printed]
<1>1. DOMAIN cli = {"command", "pid", "at", "exit_code", "printed"}
  BY DEF NoCommand
<1>2. cli' = c
  BY Zenon DEF Exits
<1>3. /\ DOMAIN a = DOMAIN cli /\ a.command = cli.command /\ a.pid = cli.pid /\ a.at = "done"
  BY <1>1
<1> HIDE DEF a
<1>4. /\ DOMAIN b = DOMAIN cli /\ b.command = cli.command /\ b.pid = cli.pid /\ b.at = "done"
      /\ b.exit_code = code
  BY <1>1, <1>3
<1> HIDE DEF b
<1>5. /\ DOMAIN c = DOMAIN cli /\ c.command = cli.command /\ c.pid = cli.pid /\ c.at = "done"
      /\ c.exit_code = code /\ c.printed = printed
  BY <1>1, <1>4
<1>6. QED
  BY <1>2, <1>5

LEMMA GoesFields ==
    ASSUME DOMAIN cli = DOMAIN NoCommand, NEW place, Goes(place)
    PROVE  /\ cli'.command = cli.command /\ cli'.pid = cli.pid /\ cli'.at = place
           /\ cli'.exit_code = cli.exit_code /\ cli'.printed = cli.printed
           /\ DOMAIN cli' = DOMAIN NoCommand
<1>1. DOMAIN cli = {"command", "pid", "at", "exit_code", "printed"}
  BY DEF NoCommand
<1>2. QED
  BY <1>1 DEF Goes

LEMMA CommandRecord ==
    ASSUME CliTypeOK, cli # NoCommand
    PROVE  /\ DOMAIN cli = DOMAIN NoCommand
           /\ cli.command \in Commands /\ cli.pid \in Pid \cup {NoPid}
           /\ cli.at \in {"start", "dispatch", "prompt", "confirmed", "sample", "query",
                         "hung", "done"}
           /\ cli.exit_code \in {0, 1, 2, 134}
BY DEF CliTypeOK

(* A command stays one. *)
LEMMA CommandStays ==
    ASSUME cli'.command \in Commands
    PROVE  cli' # NoCommand
BY DEF Commands, AboutPid, NoCommand

(* Any command that exits before its signal was confirmed, as long as what *)
(* it prints holds and a failed `sher kill` does not exit with 0.          *)
LEMMA CommandExits ==
    ASSUME ViewTypeOK', CliInvariant, cli # NoCommand, cli.at \notin {"confirmed", "done"},
           NEW code \in {0, 1, 2, 134}, NEW printed, Exits(code, printed), Others,
           UNCHANGED <<signalling, sent, current>>,
           cli.command = "kill" => code # 0,
           cli.command = "tree" /\ code = 134 => \E p \in DOMAIN listing : ~FamilyEnds(listing, p),
           cli.command = "history" => \A output \in printed : WindowByRun(output)
    PROVE  CliInvariant' /\ cli' # NoCommand
<1>1. CliTypeOK /\ PlaceInvariant
  BY DEF CliInvariant
<1>2. /\ cli'.command = cli.command /\ cli'.pid = cli.pid /\ cli'.at = "done"
      /\ cli'.exit_code = code /\ cli'.printed = printed
      /\ DOMAIN cli' = DOMAIN NoCommand
  BY <1>1, ExitsFields, CommandRecord
<1>3. sent = {} /\ ~Signalling
  BY <1>1, CommandRecord DEF PlaceInvariant
<1>4. UNCHANGED <<listing, snapshots, timeline_events, last_id, writes>>
  BY DEF Others, store
<1>5. CliTypeOK'
  BY <1>1, <1>2, <1>4, CommandRecord
     DEF CliTypeOK, History!StoreTypeOK, History!Snapshot, History!Event
<1>7. KillExitStatus'
  BY <1>2, <1>3 DEF KillExitStatus, At
<1>8. HistoryShownByRun'
  <2>1. ASSUME cli.command = "history", NEW output \in printed
        PROVE  WindowByRun(output)'
    BY <1>2, <1>4, <2>1 DEF WindowByRun, WindowOfRows
  <2>2. QED
    BY <1>2, <2>1 DEF HistoryShownByRun, At
<1>9. PlaceInvariant'
  BY <1>2, <1>3, <1>4 DEF PlaceInvariant, Signalling, At
<1>10. QueryInvariant'
  BY <1>2 DEF QueryInvariant, At
<1>11. QED
  BY <1>2, <1>5, <1>7, <1>8, <1>9, <1>10, CommandRecord, <1>1, CommandStays DEF CliInvariant

(* The same when nothing is printed. *)
LEMMA CommandExitsSilently ==
    ASSUME ViewTypeOK', CliInvariant, cli # NoCommand, cli.at \notin {"confirmed", "done"},
           NEW code \in {0, 1, 2}, Exits(code, {}), Others,
           UNCHANGED <<signalling, sent, current>>,
           cli.command = "kill" => code # 0
    PROVE  CliInvariant' /\ cli' # NoCommand
BY CommandExits

(* A command that goes on and has neither asked nor printed anything.      *)
LEMMA CommandGoes ==
    ASSUME ViewTypeOK', CliInvariant, cli # NoCommand,
           cli.at \in {"start", "dispatch", "prompt"},
           NEW place \in {"dispatch", "prompt", "confirmed", "sample", "hung"}, Goes(place), Others,
           UNCHANGED <<signalling, sent>>,
           place \in {"prompt", "confirmed"} =>
             cli.command = "kill" /\ cli.pid \in Listed /\ UNCHANGED current,
           place = "sample" => cli.command \in {"trace", "profile", "deep-trace"},
           place = "hung" => ~RollupEnds(cli.pid) /\ UNCHANGED current
    PROVE  CliInvariant' /\ cli' # NoCommand
<1>1. CliTypeOK /\ PlaceInvariant
  BY DEF CliInvariant
<1>2. /\ cli'.command = cli.command /\ cli'.pid = cli.pid /\ cli'.at = place
      /\ cli'.exit_code = cli.exit_code /\ cli'.printed = cli.printed
      /\ DOMAIN cli' = DOMAIN NoCommand
  BY <1>1, GoesFields, CommandRecord
<1>3. sent = {} /\ ~Signalling /\ cli.printed = {}
  BY <1>1, CommandRecord DEF PlaceInvariant
<1>4. UNCHANGED <<listing, snapshots, timeline_events, last_id, writes>>
  BY DEF Others, store
<1>5. CliTypeOK'
  BY <1>1, <1>2, <1>4, CommandRecord
     DEF CliTypeOK, History!StoreTypeOK, History!Snapshot, History!Event
<1>6. KillExitStatus' /\ HistoryShownByRun' /\ QueryInvariant'
  BY <1>2, <1>3 DEF KillExitStatus, HistoryShownByRun, QueryInvariant, At
<1>a. cli'.at = "hung" => ~RollupEnds(cli.pid)'
  BY <1>2, RollupKept DEF RollupEnds
<1>7. PlaceInvariant'
  BY <1>2, <1>3, <1>a DEF PlaceInvariant, Signalling, Listed, At
<1>8. QED
  BY <1>2, <1>5, <1>6, <1>7, CommandRecord, <1>1, CommandStays DEF CliInvariant
(* Whatever `sher` does is something a client may do: it samples the listed *)
(* process, and confirms the signal for the run that was listed.           *)
LEMMA CliIsAView ==
    ASSUME ViewInvariant, CliInvariant, CliNext
    PROVE  ViewNext
<1>1. ASSUME NEW command \in {"trace", "profile", "deep-trace"}, Found(command),
             Sample(ToolOf(command), cli.pid), UNCHANGED <<table, call, signalling, sent, current>>
      PROVE  ViewNext
  <2>1. cli.pid \in Pid
    BY <1>1, ListedRuns DEF Found
  <2>2. ToolOf(command) \in Tools
    BY DEF ToolOf, Tools
  <2>3. QED
    BY <1>1, <2>1, <2>2 DEF ViewNext, SampleStepOf
<1>2. CASE SendSignal
  <2> DEFINE k == <<cli.pid, RunOf(cli.pid)>>
  <2>1. cli.pid \in Listed
    BY <1>2 DEF SendSignal, At, CliInvariant, PlaceInvariant
  <2>2. cli.pid \in Pid /\ RunOf(cli.pid) \in Start /\ RunOf(cli.pid) =< table[cli.pid].start_time
    BY <2>1, ListedRuns
  <2>3. k \in Key /\ k[2] =< table[k[1]].start_time
    BY <2>2 DEF Key
  <2>4. QED
    BY <1>2, <2>3 DEF SendSignal, ViewNext, SignalStepOf
<1>3. CASE RefreshOnce
  BY <1>3 DEF RefreshOnce, ViewNext
<1>4. CASE SampleGoesOn \/ SampleEnds
  BY <1>4 DEF SampleGoesOn, SampleEnds, ViewNext, SampleStepOf
<1>5. CASE SignalGoesOn \/ SignalEnds
  BY <1>5 DEF SignalGoesOn, SignalEnds, ViewNext, SignalStepOf
<1>6. CASE View
  BY <1>6 DEF ViewNext
<1>7. CASE TakeSample
  BY <1>1, <1>7 DEF TakeSample
<1>8. QED
  BY <1>2, <1>3, <1>4, <1>5, <1>6, <1>7
     DEF CliNext, CliProceeds, RefuseOverhead, RefreshFails, NoSuchPid, System, Ps, TreeCommand,
         Inspect, WhyCommand, InvestigateCommand, ExportCommand, Timeline, WhoHas, Ebpf,
         KillCommand, AnswerPrompt, HistoryRefused, QuerySnapshots, QueryEvents, QueryFails,
         SherdWrites

(* The database of sherd holds rows of the types of HistoryStore. *)
LEMMA SherdWritesRows ==
    ASSUME History!StoreTypeOK, writes \in 0 .. MaxWrites, SherdWrites
    PROVE  /\ History!StoreTypeOK'
           /\ writes' \in 0 .. MaxWrites
           /\ \A row \in snapshots' : row \in snapshots \/ row.tick = 2
<1>1. ASSUME NEW k \in Key, NEW at \in 0 .. MaxTime,
             History!RecordSnapshot([key |-> k, sampled_at |-> at, tick |-> 2])
      PROVE  History!StoreTypeOK' /\ \A row \in snapshots' : row \in snapshots \/ row.tick = 2
  BY <1>1 DEF History!StoreTypeOK, History!RecordSnapshot, History!Snapshot, History!Event
<1>2. ASSUME NEW k \in Key, NEW at \in 0 .. MaxTime, NEW kind \in {"Started", "Exited"},
             History!RecordEvent([key |-> k, at |-> at, kind |-> kind, tick |-> 2])
      PROVE  History!StoreTypeOK' /\ snapshots' = snapshots
  <2> DEFINE event == [key |-> k, at |-> at, kind |-> kind, tick |-> 2]
  <2>1. event \in History!Event
    BY DEF History!Event
  <2> HIDE DEF event
  <2>2. /\ last_id' = last_id + 1 /\ snapshots' = snapshots
        /\ timeline_events' = timeline_events \cup {[id |-> last_id + 1, event |-> event]}
    BY <1>2 DEF History!RecordEvent, event
  <2>3. last_id \in Nat /\ timeline_events \subseteq [id : 1 .. last_id, event : History!Event]
    BY DEF History!StoreTypeOK
  <2>4. timeline_events' \subseteq [id : 1 .. last_id', event : History!Event]
    BY <2>1, <2>2, <2>3
  <2>5. QED
    BY <2>2, <2>3, <2>4 DEF History!StoreTypeOK, History!Snapshot, History!Event
<1>3. ASSUME NEW cutoff, History!PruneSnapshots(cutoff) \/ History!PruneEvents(cutoff)
      PROVE  History!StoreTypeOK' /\ snapshots' \subseteq snapshots
  BY <1>3 DEF History!StoreTypeOK, History!PruneSnapshots, History!PruneEvents, History!Snapshot,
     History!Event
<1>4. writes' \in 0 .. MaxWrites
  BY CliAssumption DEF SherdWrites
<1>5. QED
  BY <1>1, <1>2, <1>3, <1>4 DEF SherdWrites

LEMMA SherdWritesStep ==
    ASSUME ViewTypeOK', CliInvariant, cli # NoCommand, SherdWrites
    PROVE  CliInvariant' /\ cli' # NoCommand
<1>1. CliTypeOK /\ PlaceInvariant /\ QueryInvariant
  BY DEF CliInvariant
<1>2. /\ UNCHANGED <<cli, listing, signalling, sent, current>>
      /\ cli.command = "history" /\ cli.at # "done"
  BY DEF SherdWrites, View, viewVars
<1>3. History!StoreTypeOK /\ writes \in 0 .. MaxWrites
  BY <1>1 DEF CliTypeOK
<1>4. /\ History!StoreTypeOK' /\ writes' \in 0 .. MaxWrites
      /\ \A row \in snapshots' : row \in snapshots \/ row.tick = 2
  BY <1>3, SherdWritesRows
<1>5. CliTypeOK'
  BY <1>1, <1>2, <1>4 DEF CliTypeOK, NoCommand
<1>6. KillExitStatus' /\ HistoryShownByRun'
  BY <1>2 DEF CliInvariant, KillExitStatus, HistoryShownByRun, At
<1>a. RollupEnds(cli.pid)' <=> RollupEnds(cli.pid)
  BY <1>2, RollupKept DEF RollupEnds
<1>7. PlaceInvariant'
  BY <1>1, <1>2, <1>a DEF PlaceInvariant, Signalling, Listed, RunOf, At
<1>8. QueryInvariant'
  <2>1. ASSUME NEW q, NEW row \in History!SnapshotsFor(cli.pid, q.since)', row.tick = 1
        PROVE  row \in History!SnapshotsFor(cli.pid, q.since)
    BY <1>2, <1>4, <2>1 DEF History!SnapshotsFor
  <2>2. UNCHANGED History!Snapshot
    BY DEF History!Snapshot
  <2>3. QED
    BY <1>1, <1>2, <2>1, <2>2 DEF QueryInvariant, At
<1>9. QED
  BY <1>2, <1>5, <1>6, <1>7, <1>8 DEF CliInvariant

(* What was queried is the window, whatever sherd wrote in between. *)
LEMMA WindowQueried ==
    ASSUME CliInvariant, At("history", "query"), NEW q \in cli.printed
    PROVE  WindowOfRows(q.since, q.snapshots, History!EventsFor(cli.pid, q.since))
<1>1. /\ q.snapshots \subseteq {row \in History!Snapshot :
                                  row.key[1] = cli.pid /\ row.sampled_at >= q.since}
      /\ \A row \in History!SnapshotsFor(cli.pid, q.since) : row.tick = 1 => row \in q.snapshots
  BY DEF CliInvariant, QueryInvariant
<1>2. QED
  BY <1>1 DEF WindowOfRows, History!SnapshotsFor, History!EventsFor

(* The text puts every row in the generation of its run, and none besides. *)
LEMMA GenerationsByRun ==
    ASSUME CliInvariant, At("history", "query"), NEW q \in cli.printed
    PROVE  WindowByRun([since |-> q.since, form |-> "text", generations |->
             Generations(q.snapshots, History!EventsFor(cli.pid, q.since))])
<1> DEFINE events == History!EventsFor(cli.pid, q.since)
           gens == Generations(q.snapshots, events)
           output == [since |-> q.since, form |-> "text", generations |-> gens]
           window == WindowOfRows(q.since, q.snapshots, events)
<1>1. window
  BY WindowQueried
<1>2. \A row \in q.snapshots : row.key[1] = cli.pid /\ row.key = <<row.key[1], row.key[2]>>
  BY DEF CliInvariant, QueryInvariant, History!Snapshot, Key
<1>3. \A row \in events : /\ row.event.key[1] = cli.pid
                          /\ row.event.key = <<row.event.key[1], row.event.key[2]>>
  BY DEF CliInvariant, CliTypeOK, History!StoreTypeOK, History!Event, History!EventsFor, Key
<1> HIDE DEF events, window
<1>4. \A g \in gens : /\ \A row \in g.snapshots : row \in q.snapshots /\ row.key[2] = g.start_time
                      /\ \A row \in g.events : row \in events /\ row.event.key[2] = g.start_time
  BY DEF Generations
<1> DEFINE gen(s) == [start_time |-> s,
                      snapshots |-> {row \in q.snapshots : row.key[2] = s},
                      events |-> {row \in events : row.event.key[2] = s}]
<1>5. ASSUME NEW row \in q.snapshots
      PROVE  \E g \in gens : row \in g.snapshots
  <2>1. gen(row.key[2]) \in gens
    BY DEF Generations
  <2>2. row \in gen(row.key[2]).snapshots
    OBVIOUS
  <2>3. QED
    BY <2>1, <2>2
<1>6. ASSUME NEW row \in events
      PROVE  \E g \in gens : row \in g.events
  <2>1. gen(row.event.key[2]) \in gens
    BY DEF Generations
  <2>2. row \in gen(row.event.key[2]).events
    OBVIOUS
  <2>3. QED
    BY <2>1, <2>2
<1> HIDE DEF gens
<1>7. UNION {g.snapshots : g \in gens} = q.snapshots /\ UNION {g.events : g \in gens} = events
  BY <1>4, <1>5, <1>6
<1>8. output.since = q.since /\ output.form = "text" /\ output.generations = gens
  OBVIOUS
<1> HIDE DEF output
<1>9. WindowOfRows(output.since, UNION {g.snapshots : g \in output.generations},
                   UNION {g.events : g \in output.generations})
  BY <1>1, <1>7, <1>8 DEF window
<1>10. \A g \in output.generations :
         /\ \A row \in g.snapshots : row.key = <<cli.pid, g.start_time>>
         /\ \A row \in g.events : row.event.key = <<cli.pid, g.start_time>>
  BY <1>2, <1>3, <1>4, <1>8
<1>11. WindowByRun(output)
  BY <1>8, <1>9, <1>10 DEF WindowByRun
<1>12. QED
  BY <1>11 DEF output, gens, events

(* A signal of `sher kill`: from the confirmation to its outcome something *)
(* was delivered just when the outcome is "ok".                            *)
LEMMA KillStep ==
    ASSUME ViewInvariant, ViewTypeOK', CliInvariant, cli # NoCommand,
           SendSignal \/ SignalGoesOn \/ SignalEnds
    PROVE  CliInvariant' /\ cli' # NoCommand
<1>1. /\ CliTypeOK /\ PlaceInvariant /\ SignalInvariant
      /\ cli.command = "kill" /\ cli.at = "confirmed" /\ cli.pid \in Listed /\ cli.printed = {}
      /\ UNCHANGED <<listing, snapshots, timeline_events, last_id, writes, current>>
  BY DEF ViewInvariant, CliInvariant, PlaceInvariant, SendSignal, SignalGoesOn, SignalEnds, At,
         Others, store
<1>2. ASSUME UNCHANGED cli, PlaceInvariant'
      PROVE  CliInvariant' /\ cli' # NoCommand
  <2>1. CliTypeOK'
    BY <1>1, <1>2 DEF CliTypeOK, NoCommand, History!StoreTypeOK, History!Snapshot, History!Event
  <2>2. QED
    BY <1>1, <1>2, <2>1
       DEF CliInvariant, KillExitStatus, HistoryShownByRun, QueryInvariant, At
<1>3. CASE SendSignal
  <2>1. UNCHANGED <<cli, sent>> /\ ~Signalling
    BY <1>3 DEF SendSignal, Confirm
  <2>2. /\ signalling'.confirmed = <<cli.pid, RunOf(cli.pid)>> /\ signalling'.outcome = "none"
    BY <1>3 DEF SendSignal, Confirm
  <2>3. sent = {}
    BY <1>1, <2>1 DEF PlaceInvariant
  <2>4. PlaceInvariant'
    BY <1>1, <2>1, <2>2, <2>3 DEF PlaceInvariant, Listed, RunOf, At
  <2>5. QED
    BY <1>2, <2>1, <2>4
<1>4. CASE SignalGoesOn
  <2>1. UNCHANGED cli
    BY <1>4 DEF SignalGoesOn
  <2>2. /\ Signalling /\ Signalling'
        /\ signalling'.confirmed = signalling.confirmed
        /\ \/ UNCHANGED <<signalling, sent>>
           \/ /\ signalling.outcome = "none"
              /\ signalling'.outcome # "ok" /\ UNCHANGED sent
           \/ /\ signalling.outcome = "none"
              /\ signalling'.outcome = "ok"
              /\ \E hit : sent' = sent \cup {hit} /\ hit.confirmed = signalling.confirmed
    BY <1>1, <1>4, DeliverKeepsTarget DEF SignalGoesOn
  <2>3. /\ signalling.confirmed = <<cli.pid, RunOf(cli.pid)>>
        /\ sent # {} <=> signalling.outcome = "ok"
        /\ \A hit \in sent : hit.confirmed = <<cli.pid, RunOf(cli.pid)>>
    BY <1>1, <2>2 DEF PlaceInvariant
  <2>4. RunOf(cli.pid)' = RunOf(cli.pid) /\ Listed' = Listed
    BY <1>1, <2>1 DEF RunOf, Listed
  <2>5. /\ \A hit \in sent' : hit.confirmed = <<cli.pid, RunOf(cli.pid)>>
        /\ sent' # {} <=> signalling'.outcome = "ok"
    BY <2>2, <2>3
  <2>6. PlaceInvariant'
    BY <1>1, <2>1, <2>2, <2>3, <2>4, <2>5 DEF PlaceInvariant, At
  <2>7. QED
    BY <1>2, <2>1, <2>6
<1>5. CASE SignalEnds
  <2>1. /\ signalling.outcome # "none" /\ signalling' = NoSignal /\ UNCHANGED sent
        /\ Exits(ExitCode(signalling.outcome), {})
    BY <1>5 DEF SignalEnds, Return
  <2>2. Signalling /\ ~Signalling'
    BY <2>1 DEF Signalling, NoSignal
  <2>3. sent # {} <=> signalling.outcome = "ok"
    BY <1>1, <2>2 DEF PlaceInvariant
  <2>4. /\ cli'.command = cli.command /\ cli'.pid = cli.pid /\ cli'.at = "done"
        /\ cli'.exit_code = ExitCode(signalling.outcome) /\ cli'.printed = {}
        /\ DOMAIN cli' = DOMAIN NoCommand
    BY <1>1, <2>1, ExitsFields, CommandRecord
  <2>5. RunOf(cli.pid)' = RunOf(cli.pid) /\ Listed' = Listed
    BY <1>1, <2>4 DEF RunOf, Listed
  <2>6. /\ ExitCode(signalling.outcome) \in {0, 1}
        /\ ExitCode(signalling.outcome) = 0 <=> signalling.outcome = "ok"
    BY DEF ExitCode
  <2>7. CliTypeOK' /\ cli' # NoCommand
    BY <1>1, <2>4, <2>6, CommandRecord, CommandStays
       DEF CliTypeOK, History!StoreTypeOK, History!Snapshot, History!Event
  <2>8. PlaceInvariant'
    BY <1>1, <2>1, <2>2, <2>4, <2>5, <2>6 DEF PlaceInvariant, At
  <2>9. KillExitStatus'
    BY <1>1, <2>1, <2>3, <2>4, <2>5, <2>6 DEF KillExitStatus, At, PlaceInvariant
  <2>10. QED
    BY <1>1, <2>4, <2>7, <2>8, <2>9
       DEF CliInvariant, HistoryShownByRun, QueryInvariant, At
<1>6. QED
  BY <1>3, <1>4, <1>5
(* The first query holds the whole window of what is stored at that moment. *)
LEMMA QueryStep ==
    ASSUME ViewTypeOK', CliInvariant, cli # NoCommand, QuerySnapshots
    PROVE  CliInvariant' /\ cli' # NoCommand
<1>1. CliTypeOK /\ PlaceInvariant
  BY DEF CliInvariant
<1>2. /\ cli.command = "history" /\ cli.at = "dispatch"
      /\ UNCHANGED <<listing, snapshots, timeline_events, last_id, writes, signalling, sent, current>>
  BY DEF QuerySnapshots, At, Others, store, View, viewVars
<1>3. PICK since_ \in 0 .. MaxTime :
        cli' = [cli EXCEPT !.at = "query", !.printed =
                 {[since |-> since_, snapshots |-> History!SnapshotsFor(cli.pid, since_)]}]
  BY DEF QuerySnapshots
<1> DEFINE rows == History!SnapshotsFor(cli.pid, since_)
           q == [since |-> since_, snapshots |-> rows]
<1>4. q.since = since_ /\ q.snapshots = rows
  OBVIOUS
<1> HIDE DEF q
<1>5. /\ cli'.command = cli.command /\ cli'.pid = cli.pid /\ cli'.at = "query"
      /\ cli'.exit_code = cli.exit_code /\ cli'.printed = {q}
      /\ DOMAIN cli' = DOMAIN NoCommand
  <2> DEFINE a == [cli EXCEPT !.at = "query"]
             b == [a EXCEPT !.printed = {q}]
  <2>1. DOMAIN cli = {"command", "pid", "at", "exit_code", "printed"}
    BY <1>1, CommandRecord DEF NoCommand
  <2>2. cli' = b
    BY <1>3, Zenon DEF q
  <2>3. /\ DOMAIN a = DOMAIN cli /\ a.command = cli.command /\ a.pid = cli.pid /\ a.at = "query"
        /\ a.exit_code = cli.exit_code
    BY <2>1
  <2> HIDE DEF a
  <2>4. /\ DOMAIN b = DOMAIN cli /\ b.command = cli.command /\ b.pid = cli.pid /\ b.at = "query"
        /\ b.exit_code = cli.exit_code /\ b.printed = {q}
    BY <2>1, <2>3
  <2>5. QED
    BY <1>1, <2>2, <2>4, CommandRecord
<1>6. CliTypeOK' /\ cli' # NoCommand
  BY <1>1, <1>2, <1>5, CommandRecord, CommandStays
     DEF CliTypeOK, History!StoreTypeOK, History!Snapshot, History!Event
<1>7. sent = {} /\ ~Signalling
  BY <1>1, <1>2 DEF PlaceInvariant
<1>8. PlaceInvariant' /\ KillExitStatus' /\ HistoryShownByRun'
  BY <1>2, <1>5, <1>7 DEF PlaceInvariant, KillExitStatus, HistoryShownByRun, At, Signalling
<1>9. QueryInvariant'
  <2>1. rows \subseteq {row \in History!Snapshot : row.key[1] = cli.pid /\ row.sampled_at >= since_}
    BY <1>1 DEF CliTypeOK, History!StoreTypeOK, History!SnapshotsFor
  <2>2. History!SnapshotsFor(cli.pid, since_)' = rows /\ History!Snapshot' = History!Snapshot
    BY <1>2, <1>5 DEF History!SnapshotsFor, History!Snapshot
  <2> HIDE DEF rows
  <2>3. QED
    BY <1>4, <1>5, <2>1, <2>2 DEF QueryInvariant
<1>10. QED
  BY <1>6, <1>8, <1>9 DEF CliInvariant
(* A sample of `sher trace`, `profile` or `deep-trace`. *)
LEMMA SampleCommandStep ==
    ASSUME ViewTypeOK', CliInvariant, cli # NoCommand,
           TakeSample \/ SampleGoesOn \/ SampleEnds
    PROVE  CliInvariant' /\ cli' # NoCommand
<1>1. CliTypeOK /\ PlaceInvariant
  BY DEF CliInvariant
<1>2. CASE TakeSample
  <2>1. /\ cli.at = "dispatch" /\ cli.command \in {"trace", "profile", "deep-trace"}
        /\ Goes("sample") /\ Others /\ UNCHANGED <<signalling, sent>>
    BY <1>2 DEF TakeSample, Found, At
  <2>2. QED
    BY <2>1, CommandGoes
<1>3. CASE SampleGoesOn
  <2>1. UNCHANGED <<cli, listing, snapshots, timeline_events, last_id, writes, signalling, sent,
                    current>>
    BY <1>3 DEF SampleGoesOn, Others, store
  <2>2. CliTypeOK'
    BY <1>1, <2>1 DEF CliTypeOK, NoCommand, History!StoreTypeOK, History!Snapshot, History!Event
  <2>3. cli.at = "sample"
    BY <1>3 DEF SampleGoesOn
  <2>4. PlaceInvariant'
    BY <1>1, <2>1, <2>3 DEF PlaceInvariant, Signalling, Listed, RunOf, At
  <2>5. QED
    BY <2>1, <2>2, <2>3, <2>4
       DEF CliInvariant, PlaceInvariant, KillExitStatus, HistoryShownByRun, QueryInvariant, At
<1>4. CASE SampleEnds
  <2> DEFINE code == IF sample.result = "ok" THEN 0 ELSE 1
  <2>1. /\ cli.at = "sample" /\ Exits(code, {}) /\ Others
        /\ UNCHANGED <<signalling, sent, current>>
    BY <1>4 DEF SampleEnds
  <2>2. code \in {0, 1, 2}
    OBVIOUS
  <2> HIDE DEF code
  <2>3. cli.command # "kill"
    BY <1>1, <2>1 DEF PlaceInvariant
  <2>4. QED
    BY <2>1, <2>2, <2>3, CommandExitsSilently
<1>5. QED
  BY <1>2, <1>3, <1>4

LEMMA CliStep ==
    ASSUME ViewInvariant, ViewInvariant', CliInvariant, cli # NoCommand, CliNext
    PROVE  CliInvariant' /\ cli' # NoCommand
<1>1. CliTypeOK /\ PlaceInvariant /\ ViewTypeOK'
  BY DEF CliInvariant, ViewInvariant
<1>2. View => UNCHANGED <<signalling, sent, current>>
  BY DEF View, viewVars
<1>3. CASE RefuseOverhead
  BY <1>1, <1>2, <1>3, CommandExitsSilently DEF RefuseOverhead, At
<1>4. CASE RefreshOnce
  BY <1>1, <1>4, CommandGoes DEF RefreshOnce
<1>5. CASE RefreshFails
  BY <1>1, <1>2, <1>5, CommandExitsSilently DEF RefreshFails
<1>6. CASE NoSuchPid
  BY <1>1, <1>2, <1>6, CommandExitsSilently DEF NoSuchPid
<1>7. CASE System
  <2>1. PICK code \in {0, 1} : Exits(code, {})
    BY <1>7 DEF System, SystemOverview
  <2>2. QED
    BY <1>1, <1>2, <1>7, <2>1, CommandExitsSilently DEF System, At
<1>8. CASE Ps
  <2>1. cli.command = "ps" /\ cli.at = "dispatch" /\ Others /\ View
    BY <1>8 DEF Ps, At
  <2>2. \E printed : Exits(0, printed)
    BY <1>8 DEF Ps
  <2>3. QED
    BY <1>1, <1>2, <2>1, <2>2, CommandExits
<1>9. CASE TreeCommand
  <2>1. cli.command = "tree" /\ cli.at = "dispatch" /\ Others /\ View
    BY <1>9 DEF TreeCommand, At
  <2>2. PICK code \in {0, 1, 134} :
          /\ \E printed : Exits(code, printed)
          /\ code = 134 => \E p \in DOMAIN listing : ~FamilyEnds(listing, p)
    BY <1>9 DEF TreeCommand
  <2>3. QED
    BY <1>1, <1>2, <2>1, <2>2, CommandExits
<1>10. CASE Inspect
  <2>1. cli.command = "inspect" /\ cli.at = "dispatch" /\ Others /\ View
    BY <1>10 DEF Inspect, Found, At
  <2>2. \E printed : Exits(0, printed)
    BY <1>10 DEF Inspect
  <2>3. QED
    BY <1>1, <1>2, <2>1, <2>2, CommandExits
<1>11. CASE WhyCommand \/ InvestigateCommand
  <2>1. /\ cli.command \in {"why", "investigate"} /\ cli.at = "dispatch" /\ Others /\ View
        /\ \E printed : Exits(0, printed)
    BY <1>11 DEF WhyCommand, InvestigateCommand, Found, At
  <2>2. QED
    BY <1>1, <1>2, <2>1, CommandExits
<1>13. CASE ExportCommand
  <2>1. cli.command = "export" /\ cli.at = "dispatch" /\ Others /\ View
    BY <1>13 DEF ExportCommand, Found, At
  <2>2. CASE RollupEnds(cli.pid)
    <3>1. PICK code \in {0, 1} : \E printed : Exits(code, printed)
      BY <1>13, <2>2 DEF ExportCommand
    <3>2. QED
      BY <1>1, <1>2, <2>1, <3>1, CommandExits
  <2>3. CASE ~RollupEnds(cli.pid)
    <3>1. Goes("hung")
      BY <1>13, <2>3 DEF ExportCommand
    <3>2. QED
      BY <1>1, <1>2, <2>1, <2>3, <3>1, CommandGoes
  <2>4. QED
    BY <2>2, <2>3
<1>14. CASE Timeline
  <2>1. cli.command = "timeline" /\ cli.at = "dispatch" /\ Others /\ View
    BY <1>14 DEF Timeline, Found, At
  <2>2. \E printed : Exits(0, printed)
    BY <1>14 DEF Timeline
  <2>3. QED
    BY <1>1, <1>2, <2>1, <2>2, CommandExits
<1>15. CASE WhoHas
  <2>1. cli.command = "who-has" /\ cli.at = "dispatch" /\ Others /\ View
    BY <1>15 DEF WhoHas, At
  <2>2. PICK code \in {0, 2} : \E printed : Exits(code, printed)
    BY <1>15 DEF WhoHas
  <2>3. QED
    BY <1>1, <1>2, <2>1, <2>2, CommandExits
<1>16. CASE Ebpf
  <2>1. PICK code \in {0, 1} : Exits(code, {})
    BY <1>16 DEF Ebpf
  <2>2. QED
    BY <1>1, <1>2, <1>16, <2>1, CommandExitsSilently DEF Ebpf, At
<1>17. CASE TakeSample \/ SampleGoesOn \/ SampleEnds
  BY <1>1, <1>17, SampleCommandStep
<1>18. CASE KillCommand \/ AnswerPrompt
  <2>1. /\ cli.command = "kill" /\ cli.at \in {"dispatch", "prompt"} /\ cli.pid \in Listed
        /\ Others /\ View
    BY <1>1, <1>18 DEF KillCommand, AnswerPrompt, Found, At, PlaceInvariant
  <2>2. Goes("confirmed") \/ Goes("prompt") \/ Exits(1, {})
    BY <1>18 DEF KillCommand, AnswerPrompt
  <2>3. CASE Exits(1, {})
    BY <1>1, <1>2, <2>1, <2>3, CommandExitsSilently
  <2>4. ASSUME NEW place \in {"prompt", "confirmed"}, Goes(place)
        PROVE  CliInvariant' /\ cli' # NoCommand
    BY <1>1, <1>2, <2>1, <2>4, CommandGoes
  <2>5. QED
    BY <2>2, <2>3, <2>4
<1>19. CASE SendSignal \/ SignalGoesOn \/ SignalEnds
  BY <1>1, <1>19, KillStep
<1>20. CASE HistoryRefused \/ QueryFails
  <2>1. cli.command = "history" /\ cli.at \in {"dispatch", "query"} /\ Others /\ View
    BY <1>20 DEF HistoryRefused, QueryFails, At
  <2>2. Exits(2, {}) \/ Exits(1, {})
    BY <1>20 DEF HistoryRefused, QueryFails
  <2>3. QED
    BY <1>1, <1>2, <2>1, <2>2, CommandExitsSilently
<1>21. CASE QuerySnapshots
  BY <1>1, <1>21, QueryStep
<1>22. CASE QueryEvents
  <2>1. At("history", "query") /\ Others /\ View
    BY <1>22 DEF QueryEvents
  <2>2. PICK q \in cli.printed :
          LET events == History!EventsFor(cli.pid, q.since) IN
          \/ Exits(0, {[since |-> q.since, form |-> "text",
                        generations |-> Generations(q.snapshots, events)]})
          \/ Exits(0, {[since |-> q.since, form |-> "json",
                        snapshots |-> q.snapshots, events |-> events]})
    BY <1>22 DEF QueryEvents
  <2> DEFINE events == History!EventsFor(cli.pid, q.since)
             text == [since |-> q.since, form |-> "text",
                      generations |-> Generations(q.snapshots, events)]
             json == [since |-> q.since, form |-> "json",
                      snapshots |-> q.snapshots, events |-> events]
  <2>3. WindowByRun(text)
    BY <2>1, <2>2, GenerationsByRun
  <2>4. WindowByRun(json)
    <3>1. WindowOfRows(q.since, q.snapshots, events)
      BY <2>1, <2>2, WindowQueried
    <3> HIDE DEF events
    <3>2. QED
      BY <3>1 DEF WindowByRun
  <2>5. Exits(0, {text}) \/ Exits(0, {json})
    BY <2>2
  <2> HIDE DEF text, json
  <2>6. ASSUME NEW output, WindowByRun(output), Exits(0, {output})
        PROVE  CliInvariant' /\ cli' # NoCommand
    BY <1>1, <1>2, <2>1, <2>6, CommandExits DEF At
  <2>7. QED
    BY <2>3, <2>4, <2>5, <2>6
<1>23. CASE SherdWrites
  BY <1>1, <1>23, SherdWritesStep
<1>24. QED
  BY <1>3, <1>4, <1>5, <1>6, <1>7, <1>8, <1>9, <1>10, <1>11, <1>13, <1>14, <1>15, <1>16,
     <1>17, <1>18, <1>19, <1>20, <1>21, <1>22, <1>23 DEF CliNext, CliProceeds
-----------------------------------------------------------------------------
(* Both clients. *)

(* The table moves on, or nothing does. *)
LEMMA MovesAreTableSteps ==
    ASSUME [Moves]_all
    PROVE  /\ [TableNext]_table
           /\ UNCHANGED <<call, signalling, sent, sample, temp_file, current, guiVars, cliVars>>
BY DEF Moves, TableNext, all, viewVars

LEMMA GuiMoves ==
    ASSUME ViewInvariant, ViewInvariant', GuiInvariant, [Moves]_all
    PROVE  GuiInvariant'
<1>1. AllFits
  BY GuiParts DEF ViewInvariant
<1>2. SUFFICES AllFits'
  <2>1. (ViewTypeOK => (GuiInvariant <=> AllFits))'
    BY GuiParts, PTL
  <2>2. QED
    BY <2>1 DEF ViewInvariant
<1>3. [TableNext]_table /\ UNCHANGED <<signalling, sample, current, guiVars>>
  BY MovesAreTableSteps
<1>4. UNCHANGED <<selected, results, pane, observed, hung, clicks>>
  BY <1>3 DEF guiVars
<1>5. ASSUME NEW p \in Pid
      PROVE  /\ table[p].start_time \in Nat /\ table'[p].start_time \in Nat
             /\ table'[p].start_time >= table[p].start_time
  BY <1>3, TableType, StartNeverFalls, ProcessTableAssumption
     DEF ViewInvariant, ViewTypeOK, SignalTypeOK, TableTypeOK, Slot
<1>6. SelectionFits'
  BY <1>1, <1>3, <1>4, SelectionKept DEF AllFits
<1>7. PromptFits'
  BY <1>1, <1>4, <1>5 DEF AllFits, results, PromptFits
<1>8. PaneFits'
  BY <1>1, <1>4, <1>5, ProcessTableAssumption DEF AllFits, PaneFits, PaneRecord, Start
<1>9. QED
  BY <1>1, <1>3, <1>4, <1>6, <1>7, <1>8 DEF AllFits, results, ResultsFit, CallsFit, Signalling

LEMMA CliMoves ==
    ASSUME ViewInvariant', CliInvariant, cli # NoCommand, [Moves]_all
    PROVE  CliInvariant' /\ cli' # NoCommand
<1>1. UNCHANGED <<signalling, sent, current, cli, listing, snapshots, timeline_events, last_id, writes>>
  BY MovesAreTableSteps DEF cliVars, store
<1>2. CliTypeOK'
  BY <1>1
     DEF CliInvariant, CliTypeOK, ViewInvariant, NoCommand, History!StoreTypeOK,
         History!Snapshot, History!Event
<1>3. KillExitStatus' /\ HistoryShownByRun'
  <2>1. RunOf(cli.pid)' = RunOf(cli.pid)
    BY <1>1 DEF RunOf, Listed
  <2>2. ASSUME NEW output
        PROVE  WindowByRun(output)' <=> WindowByRun(output)
    BY <1>1 DEF WindowByRun, WindowOfRows
  <2>3. QED
    BY <1>1, <2>1, <2>2 DEF CliInvariant, KillExitStatus, HistoryShownByRun, At
<1>a. RollupEnds(cli.pid)' <=> RollupEnds(cli.pid)
  BY <1>1, RollupKept DEF RollupEnds
<1>4. PlaceInvariant'
  BY <1>1, <1>a DEF CliInvariant, PlaceInvariant, Signalling, Listed, RunOf, At
<1>5. QueryInvariant'
  BY <1>1 DEF CliInvariant, QueryInvariant, At, History!Snapshot, History!SnapshotsFor
<1>6. QED
  BY <1>1, <1>2, <1>3, <1>4, <1>5 DEF CliInvariant, NoCommand

LEMMA IdleStays == CliIdle /\ UNCHANGED cliVars => CliIdle'
BY DEF CliIdle, cliVars, store, History!StoreInit

LEMMA GuiIdleStays == GuiIdle /\ UNCHANGED guiVars => GuiIdle'
BY DEF GuiIdle, guiVars, results

(* A command does nothing before it was given. *)
LEMMA NoCommandNoStep == ~(cli = NoCommand /\ CliNext)
<1> SUFFICES ASSUME cli = NoCommand, CliNext PROVE FALSE
  OBVIOUS
<1>1. cli.at = "none" /\ cli.command = "none"
  BY DEF NoCommand
<1>2. /\ cli.at \notin {"start", "dispatch", "query", "sample"}
      /\ \A command : ~At(command, "dispatch") /\ ~At(command, "start") /\ ~At(command, "prompt")
                      /\ ~At(command, "confirmed") /\ ~At(command, "query")
      /\ \A command : ~Found(command)
      /\ cli.command # "history"
  BY <1>1 DEF At, Found
<1>3. ~(RefuseOverhead \/ RefreshOnce \/ RefreshFails \/ NoSuchPid \/ System \/ Ps \/ TreeCommand)
  BY <1>2 DEF RefuseOverhead, RefreshOnce, RefreshFails, NoSuchPid, System, Ps, TreeCommand
<1>4. ~(Inspect \/ WhyCommand \/ InvestigateCommand \/ ExportCommand \/ Timeline \/ WhoHas \/ Ebpf)
  BY <1>2 DEF Inspect, WhyCommand, InvestigateCommand, ExportCommand, Timeline, WhoHas, Ebpf
<1>5. ~(TakeSample \/ SampleGoesOn \/ SampleEnds \/ KillCommand \/ AnswerPrompt \/ SendSignal
        \/ SignalGoesOn \/ SignalEnds)
  BY <1>2 DEF TakeSample, SampleGoesOn, SampleEnds, KillCommand, AnswerPrompt, SendSignal,
              SignalGoesOn, SignalEnds
<1>6. ~(HistoryRefused \/ QuerySnapshots \/ QueryEvents \/ QueryFails \/ SherdWrites)
  BY <1>2 DEF HistoryRefused, QuerySnapshots, QueryEvents, QueryFails, SherdWrites
<1>7. QED
  BY <1>3, <1>4, <1>5, <1>6 DEF CliNext, CliProceeds

LEMMA ClientsView == ClientsInvariant /\ [ClientsNext]_all => ViewNext
<1> SUFFICES ASSUME ClientsInvariant, [ClientsNext]_all PROVE ViewNext
  OBVIOUS
<1>1. CASE Moves
  <2>1. TableNext /\ UNCHANGED <<call, signalling, sent, sample, temp_file, current>>
    BY <1>1 DEF Moves, TableNext
  <2>2. QED
    BY <2>1 DEF ViewNext
<1>2. CASE GuiNext /\ InGui
  BY <1>2, GuiIsAView DEF ClientsInvariant, InGui
<1>3. CASE CliNext
  BY <1>3, CliIsAView, NoCommandNoStep DEF ClientsInvariant
<1>4. CASE UNCHANGED all
  BY <1>4 DEF all, ViewNext, View
<1>5. QED
  BY <1>1, <1>2, <1>3, <1>4 DEF ClientsNext

LEMMA ClientsStep == ClientsInvariant /\ [ClientsNext]_all => ClientsInvariant'
<1> SUFFICES ASSUME ClientsInvariant, [ClientsNext]_all PROVE ClientsInvariant'
  OBVIOUS
<1>1. ViewInvariant /\ ViewInvariant'
  BY ClientsView, ViewStep DEF ClientsInvariant
<1>2. cli = NoCommand => CliIdle /\ GuiInvariant
  BY DEF ClientsInvariant
<1>3. cli # NoCommand => GuiIdle /\ CliInvariant
  BY DEF ClientsInvariant
<1>4. CASE [Moves]_all
  <2>1. UNCHANGED guiVars /\ UNCHANGED cliVars /\ UNCHANGED cli
    BY <1>4, MovesAreTableSteps DEF cliVars
  <2>2. QED
    BY <1>1, <1>2, <1>3, <1>4, <2>1, GuiMoves, CliMoves, IdleStays, GuiIdleStays
       DEF ClientsInvariant
<1>5. CASE GuiNext /\ InGui
  BY <1>1, <1>2, <1>5, GuiStep, IdleStays DEF InGui, ClientsInvariant, CliIdle
<1>6. CASE CliNext /\ UNCHANGED guiVars
  BY <1>1, <1>3, <1>6, CliStep, GuiIdleStays, NoCommandNoStep DEF ClientsInvariant
<1>7. QED
  BY <1>4, <1>5, <1>6 DEF ClientsNext

(* A command that was just given has nothing asked, sent or printed. *)
LEMMA CliInitially == ViewInvariant /\ CliInit => CliInvariant /\ cli # NoCommand
<1> SUFFICES ASSUME ViewInvariant, CliInit PROVE CliInvariant /\ cli # NoCommand
  OBVIOUS
<1>1. PICK command \in Commands, p \in Pid \cup {NoPid} :
        /\ cli = [NoCommand EXCEPT !.command = command, !.pid = p, !.at = "start"]
        /\ command = "history" => p \in Pid
  BY DEF CliInit
<1>2. cli = [command |-> command, pid |-> p, at |-> "start", exit_code |-> 0, printed |-> {}]
  <2> DEFINE a == [NoCommand EXCEPT !.command = command]
             b == [a EXCEPT !.pid = p]
             c == [b EXCEPT !.at = "start"]
  <2>1. cli = c
    BY <1>1, Zenon
  <2>2. a = [command |-> command, pid |-> NoPid, at |-> "none", exit_code |-> 0, printed |-> {}]
    BY DEF NoCommand
  <2> HIDE DEF a
  <2>3. b = [command |-> command, pid |-> p, at |-> "none", exit_code |-> 0, printed |-> {}]
    BY <2>2
  <2> HIDE DEF b
  <2>4. c = [command |-> command, pid |-> p, at |-> "start", exit_code |-> 0, printed |-> {}]
    BY <2>3
  <2>5. QED
    BY <2>1, <2>4
<1>3. /\ cli.command = command /\ cli.pid = p /\ cli.at = "start" /\ cli.exit_code = 0
      /\ cli.printed = {} /\ DOMAIN cli = DOMAIN NoCommand
  BY <1>2 DEF NoCommand
<1>4. cli # NoCommand
  BY <1>3 DEF NoCommand
<1>5. DOMAIN listing \subseteq TreePid
  <2>1. CASE listing \in Listings
    BY <2>1 DEF Listings
  <2>2. CASE listing = [q \in {} |-> q]
    BY <2>2
  <2>3. QED
    BY <2>1, <2>2 DEF CliInit
<1>6. History!StoreTypeOK
  <2>1. CASE command = "history"
    <3>1. p \in Pid
      BY <1>1, <2>1
    <3>2. /\ snapshots \in SUBSET [key : {p} \X Start, sampled_at : 0 .. MaxTime, tick : {1}]
          /\ timeline_events = {} /\ last_id = 0
      BY <1>3, <2>1 DEF CliInit
    <3>3. [key : {p} \X Start, sampled_at : 0 .. MaxTime, tick : {1}] \subseteq History!Snapshot
      BY <3>1 DEF History!Snapshot, Key
    <3>4. QED
      BY <3>2, <3>3 DEF History!StoreTypeOK
  <2>2. CASE command # "history"
    BY <1>3, <2>2 DEF CliInit, History!StoreInit, History!StoreTypeOK
  <2>3. QED
    BY <2>1, <2>2
<1>7. CliTypeOK
  BY <1>3, <1>5, <1>6, CliAssumption DEF CliInit, CliTypeOK, ViewInvariant
<1>8. sent = {} /\ ~Signalling
  BY DEF CliInit, ViewInit, SignalInit, Signalling
<1>9. PlaceInvariant /\ KillExitStatus /\ HistoryShownByRun /\ QueryInvariant
  BY <1>3, <1>8 DEF PlaceInvariant, KillExitStatus, HistoryShownByRun, QueryInvariant, At
<1>10. QED
  BY <1>4, <1>7, <1>9 DEF CliInvariant

LEMMA ClientsInitially == ClientsInit => ClientsInvariant
<1>1. GuiInit \/ CliInit => ViewInvariant
  BY ViewInitially DEF GuiInit, CliInit
<1>2. GuiInit /\ CliIdle => ClientsInvariant
  BY <1>1, GuiInitially DEF ClientsInvariant, CliIdle
<1>3. CliInit /\ GuiIdle => ClientsInvariant
  BY <1>1, CliInitially DEF ClientsInvariant
<1>4. QED
  BY <1>2, <1>3 DEF ClientsInit

-----------------------------------------------------------------------------
(* The inductive invariant, for every set of pids and every bound: what a  *)
(* session of the GUI or a run of `sher` relies on while the processes it  *)
(* is about come and go.                                                   *)
THEOREM ClientsInvariantHolds == ClientsSpec => []ClientsInvariant
<1>1. QED
  BY ClientsInitially, ClientsStep, PTL DEF ClientsSpec
-----------------------------------------------------------------------------
(* What the invariant holds of the GUI while it idles, and of the CLI.     *)
LEMMA GuiIdles ==
    ASSUME ViewTypeOK, GuiIdle
    PROVE  GuiTypeOK /\ LivePaneIsItsOwn
<1>1. /\ Nothing.pid = NoPid /\ Nothing.run = 0 /\ Nothing.outcome = "none"
      /\ Blank.header = 0
      /\ Blank = [pid |-> NoPid, header |-> 0, read |-> {}, events |-> {}]
  BY DEF Nothing, Blank
<1>2. 0 \in 0 .. MaxStart /\ 0 \in 0 .. MaxClicks
  BY ProcessTableAssumption, ClicksAssumption
<1>3. GuiTypeOK
  BY <1>1, <1>2 DEF GuiIdle, GuiTypeOK
<1>4. LivePaneIsItsOwn
  BY <1>1 DEF GuiIdle, LivePaneIsItsOwn
<1>5. QED
  BY <1>3, <1>4

(* No run is read that is older than the heading or younger than the       *)
(* process that has the pid: while the heading lives, these are the same.  *)
LEMMA PanesOfTheLiving ==
    ASSUME ViewInvariant, GuiInvariant
    PROVE  LivePaneIsItsOwn
<1>1. SUFFICES ASSUME pane.header # 0, LiveKey(<<pane.pid, pane.header>>), NEW run \in pane.read
               PROVE  run = pane.header
  BY DEF LivePaneIsItsOwn
<1>2. PaneFits
  BY GuiParts DEF ViewInvariant, AllFits
<1>3. /\ pane.header =< run /\ run =< table[pane.pid].start_time
      /\ pane.header \in Nat /\ run \in Nat
  BY <1>1, <1>2, ProcessTableAssumption DEF PaneFits, PaneRecord, Start
<1>4. table[pane.pid].start_time = pane.header
  BY <1>1 DEF LiveKey
<1>5. QED
  BY <1>3, <1>4

LEMMA CliIdles ==
    ASSUME ViewTypeOK, CliIdle
    PROVE  CliTypeOK /\ KillExitStatus /\ HistoryShownByRun
<1>1. cli = NoCommand /\ cli.at = "none" /\ cli.printed = {}
  BY DEF CliIdle, NoCommand
<1>2. DOMAIN listing \subseteq TreePid
  BY DEF CliIdle
<1>3. History!StoreTypeOK /\ writes \in 0 .. MaxWrites
  BY CliAssumption DEF CliIdle, History!StoreInit, History!StoreTypeOK
<1>4. CliTypeOK
  BY <1>1, <1>2, <1>3 DEF CliTypeOK
<1>5. QED
  BY <1>1, <1>4 DEF KillExitStatus, HistoryShownByRun, At

LEMMA GuiPromises == ClientsInvariant => GuiTypeOK /\ LivePaneIsItsOwn
BY GuiIdles, PanesOfTheLiving DEF ClientsInvariant, ViewInvariant, GuiInvariant

LEMMA CliPromises == ClientsInvariant => CliTypeOK /\ KillExitStatus /\ HistoryShownByRun
BY CliIdles DEF ClientsInvariant, ViewInvariant, CliInvariant

(* What the GUI keeps, selects and draws, and the command, its exit code   *)
(* and the rows of the database keep their types.                          *)
THEOREM ClientsTypeCorrect == ClientsSpec => []ClientsTypeOK
<1>1. ClientsInvariant => ClientsTypeOK
  BY GuiPromises, CliPromises DEF ClientsTypeOK
<1>2. QED
  BY <1>1, ClientsInvariantHolds, PTL

(* Whatever runs a pid has while a pane is drawn, in any tab: as long as   *)
(* the process in the heading lives, what was read below it by bare pid    *)
(* is its own.                                                             *)
THEOREM LivePanesAreTheirOwn == ClientsSpec => []LivePaneIsItsOwn
BY GuiPromises, ClientsInvariantHolds, PTL

(* `sher kill` exits with 0 just when a signal was delivered, and then for *)
(* the run its prompt named.                                               *)
THEOREM ExitStatusTells == ClientsSpec => []KillExitStatus
BY CliPromises, ClientsInvariantHolds, PTL

(* `sher history` shows each run of a pid apart, whatever sherd writes and *)
(* prunes between its two queries.                                         *)
THEOREM RunsAreShownApart == ClientsSpec => []HistoryShownByRun
BY CliPromises, ClientsInvariantHolds, PTL

(* strace and perf return a whole sample or an error.                      *)
THEOREM SamplesAreWhole == ClientsSpec => []SampleIsComplete
<1>1. ClientsInvariant => SampleIsComplete
  BY SamplesAreComplete DEF ClientsInvariant, ViewInvariant
<1>2. QED
  BY <1>1, ClientsInvariantHolds, PTL

(* perf and bpftrace leave no file in the temporary directory once they    *)
(* have returned, but for a script that could not be written.              *)
THEOREM NoFileIsLeft == ClientsSpec => []TempFilesRemoved
<1>1. ClientsInvariant => TempFilesRemoved
  BY SamplesAreComplete DEF ClientsInvariant, ViewInvariant
<1>2. QED
  BY <1>1, ClientsInvariantHolds, PTL

(* `sher tree` prints, and a roll-up counts, each member of a family that  *)
(* has an end once, and the list of the GUI shows what was expanded or     *)
(* searched for, for every listing.                                        *)
THEOREM TreesArePrinted == ClientsSpec => []TreePrinted
<1>1. ASSUME CliTypeOK PROVE TreePrinted
  <2>1. IsFiniteSet(DOMAIN listing)
    BY <1>1, FS_Subset, CliAssumption DEF CliTypeOK
  <2>2. QED
    BY <2>1, EveryFamilyIsCountedOnce, EveryListIsAsPromised DEF TreePrinted
<1>2. QED
  BY <1>1, CliPromises, ClientsInvariantHolds, PTL

-----------------------------------------------------------------------------
(* The refinement: whatever a user does with the GUI or with `sher`, a     *)
(* signal is sent by the steps of send_signal_verified and with the start  *)
(* time of the run that was confirmed, which is that of a run the pid had. *)
THEOREM ClientsSignalAsSpecified == ClientsSpec => SignalSpec
<1>1. ClientsInit => SignalInit
  BY DEF ClientsInit, GuiInit, CliInit, ViewInit
<1>2. ClientsInvariant /\ [ClientsNext]_all => [SignalNext]_signalVars
  BY ClientsView, ViewIsASignalStep
<1>3. QED
  BY <1>1, <1>2, ClientsInvariantHolds, PTL DEF ClientsSpec, SignalSpec

(* With either client no signal reaches a run older than the one the user  *)
(* confirmed, nor one whose start time was not checked.                    *)
THEOREM ClientsHitNoBystander == ClientsSpec => []NeverABystander
BY BystandersAreSafe, ClientsSignalAsSpecified, PTL

(* The snapshot that send_signal_verified compares start times with, under *)
(* either client: one that bears the start time of the living process was  *)
(* read from that process alone, whatever happened between its files.      *)
THEOREM ClientsReadWholeSnapshots == ClientsSpec => []SnapshotOfTheLiving
BY LiveSnapshotsAreWhole, ClientsSignalAsSpecified, PTL
=============================================================================
