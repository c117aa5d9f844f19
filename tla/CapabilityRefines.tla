------------------------ MODULE CapabilityRefines -------------------------
(***************************************************************************)
(* The registry of module Capability implements the forest of module       *)
(* CapabilityTree.  A handle is live from the step that registers it to    *)
(* the sys_cap_revoke that dooms it: the steps in which revoke works its   *)
(* way down the tree change nothing a caller may rely on.                  *)
(***************************************************************************)
EXTENDS Capability

(* Registered, and neither it nor a registered ancestor waits for revoke.  *)
LiveHandles ==
  LET live[h \in 1..(next_handle - 1)] ==
        /\ h \in DOMAIN global_caps
        /\ h \notin Range(revoke_stack)
        /\ global_caps[h].parent # None => live[global_caps[h].parent]
  IN  {h \in DOMAIN global_caps : live[h]}

LiveView(cap) == [resource |-> cap.resource, permissions |-> cap.permissions,
                  owner |-> cap.owner, parent |-> cap.parent]

Tree == INSTANCE CapabilityTree WITH
          Owner <- Thread,
          live <- [h \in LiveHandles |-> LiveView(global_caps[h])],
          issued <- next_handle - 1

(* Every behaviour of the capability subsystem is one of the abstract      *)
(* forest: in particular a revoke, with its recursion over stale lists of  *)
(* children, takes exactly the subtree, and nothing else ever disappears.  *)
ImplementsTree == Tree!Spec
===========================================================================
