----------------------------- MODULE MCClients -----------------------------
(***************************************************************************)
(* The GUI and the CLI on small instances: a behaviour is one session of   *)
(* the GUI or one run of `sher`, over the same process table.              *)
(***************************************************************************)
EXTENDS Gui, SherCli

CONSTANT Recycled  \* the pids whose process ends and that are used again

all == <<viewVars, guiVars, cliVars>>

(* The table stands still for the commands that do not depend on it. *)
Moves ==
    /\ \E p \in Pid :
         \/ /\ p \in Recycled \cup {q \in Pid : table[q].start_time = 0}
            /\ \E parent \in Pid \cup {NoPid} : Fork(p, parent)
         \/ p \in Recycled /\ Exit(p)
    /\ cli.command \notin {"tree", "history", "system", "ebpf"}
    /\ cli.at # "done"
    /\ UNCHANGED <<call, signalling, sent, sample, temp_file, current, guiVars, cliVars>>

InGui == cli = NoCommand /\ UNCHANGED cliVars

ClientsInit ==
    \/ GuiInit /\ CliIdle
    \/ CliInit /\ GuiIdle

ClientsNext ==
    \/ Moves
    \/ GuiNext /\ InGui
    \/ CliNext /\ UNCHANGED guiVars

(* The window is redrawn and refreshed again and again, a refresh does not *)
(* fail for ever, and the calls that block it return; `sher` goes on unless *)
(* it waits for the user.  The files of /proc answer, and a sample is      *)
(* bounded by timeout or by sleep.                                         *)
ClientsSpec ==
    /\ ClientsInit /\ [][ClientsNext]_all
    /\ WF_all(InGui /\ RefreshTick)
    /\ WF_all(InGui /\ Repaint)
    /\ WF_all(InGui /\ Blocked)
    /\ WF_all(UNCHANGED guiVars /\ CliProceeds)

ClientsTypeOK == GuiTypeOK /\ CliTypeOK

(* A session is one of the GUI or one of the CLI, and the other is idle. *)
ClientsInvariant ==
    /\ ViewInvariant
    /\ IF cli = NoCommand THEN CliIdle /\ GuiInvariant ELSE GuiIdle /\ CliInvariant
=============================================================================
