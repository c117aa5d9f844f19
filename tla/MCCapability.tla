--------------------------- MODULE MCCapability ---------------------------
(* Small sets of masks and resources.  GRANT and WRITE are the permissions *)
(* the kernel tests on these paths; a Thread capability lets its holder    *)
(* create threads, an Irq capability does not.                             *)
EXTENDS CapabilityRefines

MCMask == {{"GRANT", "WRITE"}, {"GRANT"}, {"WRITE"}}
MCThreadOnly == {[type |-> "Thread", id |-> 1]}
MCTwoResources == MCThreadOnly \cup {[type |-> "Irq", id |-> 12]}
===========================================================================
