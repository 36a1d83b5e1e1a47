------------------------------- MODULE MCSherd -------------------------------
(***************************************************************************)
(* Sherd on small instances.                                               *)
(***************************************************************************)
EXTENDS Sherd

(* interval_secs is at least one second, so the seconds always advance. *)
Forward == {1}
=============================================================================
