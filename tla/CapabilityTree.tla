-------------------------- MODULE CapabilityTree --------------------------
(***************************************************************************)
(* What kernel/src/cap.rs promises to the rest of the kernel: a forest of  *)
(* live capabilities in which a child never has more than its parent, and  *)
(* in which revoking a capability takes all its descendants in one step.   *)
(* Tables, lists of children, the audit log and the recursion of revoke    *)
(* are the implementation's business (module Capability).                  *)
(***************************************************************************)
EXTENDS Naturals

CONSTANTS Resource, Mask, Owner

VARIABLES
  live,    \* handle -> what the capability is about, its owner and parent
  issued   \* number of handles given out so far

treeVars == <<live, issued>>

Root == 0

(* The live capabilities at or below handle.                               *)
AtOrBelow(handle) ==
  LET below[h \in 0..issued] ==
        h = handle \/ (h \in DOMAIN live /\ live[h].parent < h /\ below[live[h].parent])
  IN  {h \in DOMAIN live : below[h]}

Issue(cap) ==
  /\ issued' = issued + 1
  /\ live' = [h \in DOMAIN live \cup {issued + 1} |->
                IF h = issued + 1 THEN cap ELSE live[h]]

CreateRoot(owner, resource, permissions) ==
  Issue([resource |-> resource, permissions |-> permissions,
         owner |-> owner, parent |-> Root])

Derive(parent, owner, permissions) ==
  /\ "GRANT" \in live[parent].permissions
  /\ permissions \subseteq live[parent].permissions
  /\ Issue([resource |-> live[parent].resource, permissions |-> permissions,
            owner |-> owner, parent |-> parent])

Transfer(handle, owner) ==
  /\ "GRANT" \in live[handle].permissions
  /\ live' = [live EXCEPT ![handle].owner = owner]
  /\ UNCHANGED issued

Revoke(handle) ==
  /\ live' = [h \in DOMAIN live \ AtOrBelow(handle) |-> live[h]]
  /\ UNCHANGED issued

Init == issued = 0 /\ live = [h \in {} |-> Root]

Next ==
  \/ \E owner \in Owner, resource \in Resource, permissions \in Mask :
       CreateRoot(owner, resource, permissions)
  \/ \E handle \in DOMAIN live :
       \/ \E owner \in Owner, permissions \in Mask : Derive(handle, owner, permissions)
       \/ \E owner \in Owner : Transfer(handle, owner)
       \/ Revoke(handle)

Spec == Init /\ [][Next]_treeVars
===========================================================================
