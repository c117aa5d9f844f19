---------------------------- MODULE MCScheduler ---------------------------
EXTENDS Scheduler

(* Boot goes on without services when the manifest cannot be read or the   *)
(* service cannot be spawned.                                              *)
MCInitOnly == <<Normal>>

(* The boot of the embedded manifest: init, Normal, then ui_shell, High.   *)
MCBootPriorities == <<Normal, High>>
===========================================================================
