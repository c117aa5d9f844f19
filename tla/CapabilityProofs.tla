------------------------- MODULE CapabilityProofs -------------------------
(***************************************************************************)
(* Proofs about module Capability, for any number of threads, handles,     *)
(* resources and permission masks and any length of the audit log.         *)
(***************************************************************************)
EXTENDS CapabilityRefines, SeqLemmas, TLAPS

(* log_audit keeps a log of entries within MAX_AUDIT_LOG_ENTRIES.          *)
LEMMA LogAuditType ==
  ASSUME NEW log \in Seq(AuditLogEntry), Len(log) <= MAX_AUDIT_LOG_ENTRIES,
         NEW entry \in AuditLogEntry
  PROVE  /\ log_audit(log, entry) \in Seq(AuditLogEntry)
         /\ Len(log_audit(log, entry)) <= MAX_AUDIT_LOG_ENTRIES
  BY ConstantsAssumption DEF log_audit

---------------------------------------------------------------------------
(* Tables stay tables.                                                     *)
LEMMA IsTableInsert ==
  ASSUME NEW map, IsTable(map), NEW key \in Nat, NEW cap \in Capability
  PROVE  IsTable(Insert(map, key, cap))
  BY DEF IsTable, Insert

(* Removing a handle from a capability table leaves a table.               *)
LEMMA IsTableRemove ==
  ASSUME NEW map, IsTable(map), NEW key
  PROVE  IsTable(Remove(map, key))
  BY DEF IsTable, Remove

(* The table create_capability_table makes is a table, and empty.          *)
LEMMA IsTableEmpty == IsTable(EmptyMap) /\ DOMAIN EmptyMap = {}
  BY DEF IsTable, EmptyMap

---------------------------------------------------------------------------
(* The inductive invariant.  RevocationTransitive is not inductive: while  *)
(* a revoke is under way it says nothing.  NoOrphanMissed says what holds  *)
(* then; it needs Forest, to know that the children a visit pushes on the  *)
(* stack are all the capabilities that name the visited one as parent.     *)
Inv ==
  /\ TypeOK
  /\ TablesAgree
  /\ Attenuation
  /\ Forest
  /\ NoOrphanMissed
  /\ RevocationExact

(* The boot state satisfies the inductive invariant.                       *)
LEMMA InitInv == Init => Inv
  BY ConstantsAssumption, IsTableEmpty
  DEF Init, Inv, TypeOK, TablesAgree, Attenuation, Forest, NoOrphanMissed,
      RevocationExact, Threads, None

(* Handles are numbered in the order they are issued, from 1; None is 0.   *)
LEMMA HandleFacts ==
  ASSUME TypeOK, Forest
  PROVE  /\ next_handle \in Nat /\ 0 < next_handle
         /\ \A h \in DOMAIN global_caps :
              /\ h \in Nat /\ 0 < h /\ h < next_handle
              /\ global_caps[h] \in Capability
              /\ global_caps[h].parent \in Nat /\ global_caps[h].parent < h
              /\ global_caps[h].children \in Seq(Nat)
  BY DEF TypeOK, Forest, WellLinked, IsTable, Capability

---------------------------------------------------------------------------
(* One lemma per action.                                                   *)
LEMMA ThreadCreateInv ==
  ASSUME Inv, NEW caller \in Threads, sys_thread_create(caller)
  PROVE  Inv'
  <1> USE DEF Inv, sys_thread_create, revokeVars, Threads
  <1>1. /\ DOMAIN tables' = DOMAIN tables \cup {next_tid}
        /\ tables' = [t \in DOMAIN tables' |-> tables'[t]]
        /\ \A t \in DOMAIN tables : tables'[t] = tables[t]
        /\ tables'[next_tid] = EmptyMap
    BY DEF TypeOK, Insert
  <1>2. TypeOK'
    BY <1>1, IsTableEmpty, SMTT(60) DEF TypeOK, IsTable
  <1>3. TablesAgree'
    BY <1>1, IsTableEmpty DEF TablesAgree, EntryAgrees
  <1> QED
    BY <1>2, <1>3 DEF Attenuation, Forest, WellLinked, NoOrphanMissed, RevocationExact

(* cap_create: register, then add_thread_capability, keeps the invariant.  *)
LEMMA CapCreateInv ==
  ASSUME Inv, NEW caller \in Threads, NEW resource \in Resource,
         NEW permissions \in Mask, sys_cap_create(caller, resource, permissions)
  PROVE  Inv'
  <1> DEFINE cap == NewCapability(next_handle, resource, permissions, caller, None)
  <1> USE DEF Inv, Threads
  <1>0. /\ cap \in Capability /\ cap.handle = next_handle /\ cap.owner = caller
        /\ cap.parent = None /\ cap.children = <<>> /\ cap.resource = resource
        /\ cap.permissions = permissions
    BY ConstantsAssumption DEF NewCapability, Capability, TypeOK, None
  <1>1. /\ global_caps' = Insert(global_caps, next_handle, cap)
        /\ DOMAIN global_caps' = DOMAIN global_caps \cup {next_handle}
        /\ global_caps'[next_handle] = cap
        /\ \A h \in DOMAIN global_caps : global_caps'[h] = global_caps[h]
        /\ next_handle \notin DOMAIN global_caps
    BY DEF sys_cap_create, TypeOK, Insert
  <1>2. /\ DOMAIN tables' = DOMAIN tables
        /\ tables' = [t \in DOMAIN tables' |-> tables'[t]]
        /\ \A t \in DOMAIN tables : t # caller => tables'[t] = tables[t]
        /\ tables'[caller] = Insert(tables[caller], next_handle, cap)
           \/ tables'[caller] = tables[caller]
    BY <1>0, Zenon DEF sys_cap_create, TypeOK, add_capability
  <1>3. /\ audit_log' \in Seq(AuditLogEntry)
        /\ Len(audit_log') <= MAX_AUDIT_LOG_ENTRIES
    <2>1. Entry("Create", caller, next_handle, None, None) \in AuditLogEntry
      BY DEF Entry, AuditLogEntry, AuditEvent, None, TypeOK
    <2> QED BY <2>1, LogAuditType DEF sys_cap_create, TypeOK
  <1> HIDE DEF cap
  <1>4. UNCHANGED <<next_tid, revokeVars>> /\ next_handle' = next_handle + 1 /\ Idle
    BY DEF sys_cap_create
  <1>5. TypeOK'
    <2>1. IsTable(global_caps')
      BY <1>0, <1>1, IsTableInsert DEF TypeOK
    <2>2. \A t \in Threads' : IsTable(tables'[t])
      <3>1. IsTable(Insert(tables[caller], next_handle, cap))
        BY <1>0, IsTableInsert DEF TypeOK
      <3> QED BY <3>1, <1>2, Zenon DEF TypeOK
    <2> QED
      BY <1>1, <1>2, <1>3, <1>4, <2>1, <2>2, SMTT(60) DEF TypeOK, revokeVars
  <1>6. TablesAgree'
    <2> SUFFICES ASSUME NEW t \in DOMAIN tables, NEW h \in DOMAIN tables'[t]
                 PROVE  EntryAgrees(t, h)'
      BY <1>2 DEF TablesAgree
    <2>1. CASE h \in DOMAIN tables[t] /\ tables'[t][h] = tables[t][h]
      BY <2>1, <1>1 DEF TablesAgree, EntryAgrees
    <2>2. CASE t = caller /\ h = next_handle /\ tables'[t][h] = cap
      BY <2>2, <1>0, <1>1 DEF EntryAgrees
    <2>3. CASE tables'[t] = tables[t]
      BY <2>1, <2>3
    <2>4. CASE t = caller /\ tables'[t] = Insert(tables[t], next_handle, cap)
      BY <2>1, <2>2, <2>4 DEF Insert
    <2> QED BY <2>3, <2>4, <1>2
  <1>7. Forest'
    <2>1. ASSUME NEW p \in DOMAIN global_caps, NEW h \in DOMAIN global_caps'
          PROVE  /\ global_caps'[p] = global_caps[p]
                 /\ global_caps'[h].parent = p <=> h \in Range(global_caps[p].children)
      <3>1. CASE h \in DOMAIN global_caps
        BY <3>1, <1>1 DEF Forest, WellLinked
      <3>2. CASE h = next_handle
        BY <3>2, <1>0, <1>1, HandleFacts DEF Forest, WellLinked, None, Range
      <3> QED BY <3>1, <3>2, <1>1
    <2>2. ASSUME NEW h \in DOMAIN global_caps'
          PROVE  ~(global_caps'[h].parent = next_handle)
      BY <1>0, <1>1, HandleFacts DEF None
    <2>3. Range(global_caps'[next_handle].children) = {}
      BY <1>0, <1>1 DEF Range
    <2>4. ASSUME NEW p \in DOMAIN global_caps' PROVE WellLinked(p)'
      <3>1. CASE p \in DOMAIN global_caps
        <4>1. WellLinked(p) /\ global_caps'[p] = global_caps[p]
          BY <3>1, <1>1 DEF Forest
        <4> QED BY <3>1, <4>1, <2>1, <1>4, HandleFacts DEF WellLinked
      <3>2. CASE p = next_handle
        BY <3>2, <1>0, <1>1, <2>2, <2>3, HandleFacts DEF WellLinked, None
      <3> QED BY <3>1, <3>2, <1>1
    <2> QED BY <2>4 DEF Forest
  <1>8. Attenuation'
    BY <1>0, <1>1, HandleFacts DEF Attenuation, None
  <1>9. NoOrphanMissed' /\ RevocationExact'
    BY <1>0, <1>1, <1>4 DEF NoOrphanMissed, RevocationExact, Idle, revokeVars
  <1> QED BY <1>5, <1>6, <1>7, <1>8, <1>9

(* cap_derive: the child joins the tree and a table, keeping the invariant. *)
LEMMA CapDeriveInv ==
  ASSUME Inv, NEW caller \in Threads, NEW parent \in DOMAIN tables[caller],
         NEW new_owner \in Thread, NEW permissions \in Mask,
         sys_cap_derive(caller, parent, new_owner, permissions)
  PROVE  Inv'
  <1> DEFINE child == NewCapability(next_handle, global_caps[parent].resource,
                                    permissions, new_owner, parent)
  <1> USE DEF Inv, Threads
  <1>a. parent \in DOMAIN global_caps
    BY DEF sys_cap_derive
  <1>b. Append(global_caps[parent].children, next_handle) \in Seq(Nat)
    BY <1>a, HandleFacts
  <1>0. /\ child \in Capability /\ child.handle = next_handle
        /\ child.owner = new_owner /\ child.parent = parent
        /\ child.children = <<>> /\ child.permissions = permissions
        /\ child.resource = global_caps[parent].resource
    BY <1>a, ConstantsAssumption, HandleFacts DEF NewCapability, Capability, Thread
  <1>1. /\ global_caps' = Insert(link_child(global_caps, parent, next_handle),
                                 next_handle, child)
        /\ tables' = add_capability(tables, new_owner, child)
    BY DEF sys_cap_derive
  <1>c. /\ permissions \subseteq global_caps[parent].permissions
        /\ Idle /\ next_handle' = next_handle + 1
        /\ UNCHANGED <<next_tid, revoke_stack, revoked, revoker>>
    BY DEF sys_cap_derive, can_derive, revokeVars
  <1> HIDE DEF child
  <1>2. /\ DOMAIN global_caps' = DOMAIN global_caps \cup {next_handle}
        /\ global_caps' = [h \in DOMAIN global_caps' |-> global_caps'[h]]
        /\ next_handle \notin DOMAIN global_caps
        /\ global_caps'[next_handle] = child
        /\ global_caps'[parent] =
             [global_caps[parent] EXCEPT !.children =
                Append(global_caps[parent].children, next_handle)]
        /\ \A h \in DOMAIN global_caps : h # parent => global_caps'[h] = global_caps[h]
    BY <1>a, <1>1, HandleFacts DEF Insert, link_child
  <1>3. \A h \in DOMAIN global_caps :
          /\ global_caps'[h] \in Capability
          /\ global_caps'[h].resource = global_caps[h].resource
          /\ global_caps'[h].permissions = global_caps[h].permissions
          /\ global_caps'[h].owner = global_caps[h].owner
          /\ global_caps'[h].parent = global_caps[h].parent
    <2>0. /\ global_caps[parent] \in Capability
          /\ global_caps'[parent] =
               [global_caps[parent] EXCEPT !.children =
                  Append(global_caps[parent].children, next_handle)]
      BY <1>a, <1>2, HandleFacts
    <2>1. /\ global_caps'[parent] \in Capability
          /\ global_caps'[parent].resource = global_caps[parent].resource
          /\ global_caps'[parent].permissions = global_caps[parent].permissions
          /\ global_caps'[parent].owner = global_caps[parent].owner
          /\ global_caps'[parent].parent = global_caps[parent].parent
      BY <1>b, <2>0, Zenon DEF Capability
    <2> QED BY <2>1, <1>2, HandleFacts, Zenon
  <1>4. global_caps'[parent].children = Append(global_caps[parent].children, next_handle)
    BY <1>a, <1>b, <1>2, HandleFacts DEF Capability
  <1>5. /\ DOMAIN tables' = DOMAIN tables
        /\ tables' = [t \in DOMAIN tables' |-> tables'[t]]
        /\ \A t \in DOMAIN tables : \/ tables'[t] = tables[t]
                                    \/ /\ t = new_owner
                                       /\ tables'[t] = Insert(tables[t], next_handle, child)
    BY <1>0, <1>1, Zenon DEF TypeOK, add_capability
  <1>6. TypeOK'
    <2>1. /\ audit_log' \in Seq(AuditLogEntry)
          /\ Len(audit_log') <= MAX_AUDIT_LOG_ENTRIES
      <3>1. Entry("Derive", caller, next_handle, parent, None) \in AuditLogEntry
        BY <1>a, HandleFacts DEF Entry, AuditLogEntry, AuditEvent, None, TypeOK
      <3> QED BY <3>1, LogAuditType DEF sys_cap_derive, TypeOK
    <2>2. IsTable(global_caps')
      <3>1. ASSUME NEW h \in DOMAIN global_caps'
            PROVE  h \in Nat /\ global_caps'[h] \in Capability
        BY <1>0, <1>2, <1>3, HandleFacts
      <3> QED BY <3>1, <1>2 DEF IsTable
    <2>4. \A h \in DOMAIN global_caps' : h \in 1..(next_handle' - 1)
      BY <1>c, <1>2, HandleFacts
    <2>3. ASSUME NEW t \in DOMAIN tables PROVE IsTable(tables'[t])
      <3>1. IsTable(Insert(tables[t], next_handle, child))
        BY <1>0, IsTableInsert DEF TypeOK
      <3> QED BY <3>1, <1>5, Zenon DEF TypeOK
    <2>5. \A t \in Threads' : IsTable(tables'[t])
      BY <1>5, <2>3
    <2>6. /\ tables' = [t \in Threads' |-> tables'[t]]
          /\ Threads' = 1..(next_tid' - 1)
      BY <1>c, <1>5 DEF TypeOK
    <2> QED BY <1>c, <2>1, <2>2, <2>4, <2>5, <2>6 DEF TypeOK
  <1>7. TablesAgree'
    <2> SUFFICES ASSUME NEW t \in DOMAIN tables, NEW h \in DOMAIN tables'[t]
                 PROVE  EntryAgrees(t, h)'
      BY <1>5 DEF TablesAgree
    <2>1. CASE h \in DOMAIN tables[t] /\ tables'[t][h] = tables[t][h]
      BY <2>1, <1>2, <1>3 DEF TablesAgree, EntryAgrees
    <2>2. CASE t = new_owner /\ h = next_handle /\ tables'[t][h] = child
      BY <2>2, <1>0, <1>2 DEF EntryAgrees
    <2>3. CASE tables'[t] = tables[t]
      BY <2>1, <2>3
    <2>4. CASE t = new_owner /\ tables'[t] = Insert(tables[t], next_handle, child)
      BY <2>1, <2>2, <2>4 DEF Insert
    <2> QED BY <2>3, <2>4, <1>5
  <1>8. Forest'
    <2> SUFFICES ASSUME NEW p \in DOMAIN global_caps' PROVE WellLinked(p)'
      BY DEF Forest
    <2>1. CASE p \in DOMAIN global_caps /\ p # parent
      <3>1. WellLinked(p) /\ global_caps'[p] = global_caps[p]
        BY <2>1, <1>2 DEF Forest
      <3>2. next_handle \notin Range(global_caps[p].children)
        BY <2>1, <3>1, HandleFacts DEF WellLinked, Range
      <3>3. ASSUME NEW h \in DOMAIN global_caps'
            PROVE  global_caps'[h].parent = p <=> h \in Range(global_caps'[p].children)
        BY <2>1, <3>1, <3>2, <1>0, <1>2, <1>3 DEF WellLinked
      <3> QED BY <2>1, <3>1, <3>3, <1>c, HandleFacts DEF WellLinked
    <2>2. CASE p = parent
      <3>1. WellLinked(p) /\ global_caps'[p].parent = global_caps[p].parent
        BY <2>2, <1>a, <1>3 DEF Forest
      <3>2. Range(global_caps'[p].children) = Range(global_caps[p].children) \cup {next_handle}
        BY <2>2, <1>a, <1>4, RangeAppend, HandleFacts
      <3>3. ASSUME NEW h \in DOMAIN global_caps'
            PROVE  global_caps'[h].parent = p <=> h \in Range(global_caps'[p].children)
        BY <2>2, <3>1, <3>2, <1>0, <1>2, <1>3 DEF WellLinked
      <3>4. /\ \A i \in DOMAIN global_caps'[p].children :
                 /\ p < global_caps'[p].children[i]
                 /\ global_caps'[p].children[i] < next_handle'
            /\ \A i, j \in DOMAIN global_caps'[p].children :
                 global_caps'[p].children[i] = global_caps'[p].children[j] => i = j
        <4> DEFINE list == global_caps[p].children
        <4>1. /\ list \in Seq(Nat) /\ p \in Nat /\ next_handle \in Nat /\ p < next_handle
              /\ \A i \in DOMAIN list : p < list[i] /\ list[i] < next_handle
              /\ \A i, j \in DOMAIN list : list[i] = list[j] => i = j
          BY <2>2, <3>1, <1>a, HandleFacts DEF WellLinked
        <4>2. global_caps'[p].children = Append(list, next_handle)
          BY <2>2, <1>4
        <4> HIDE DEF list
        <4>3. DOMAIN Append(list, next_handle) = DOMAIN list \cup {Len(list) + 1}
          BY <4>1
        <4>4. /\ Append(list, next_handle)[Len(list) + 1] = next_handle
              /\ \A i \in DOMAIN list :
                   Append(list, next_handle)[i] = list[i] /\ list[i] \in Nat
          BY <4>1
        <4> QED BY <4>1, <4>2, <4>3, <4>4, <1>c, SMTT(60)
      <3> QED BY <3>1, <3>3, <3>4 DEF WellLinked
    <2>3. CASE p = next_handle
      <3>1. ASSUME NEW h \in DOMAIN global_caps'
            PROVE  ~(global_caps'[h].parent = next_handle)
        BY <1>a, <1>0, <1>2, <1>3, HandleFacts
      <3>2. Range(global_caps'[next_handle].children) = {}
        BY <1>0, <1>2 DEF Range
      <3> QED BY <2>3, <3>1, <3>2, <1>a, <1>0, <1>2, HandleFacts DEF WellLinked
    <2> QED BY <2>1, <2>2, <2>3, <1>2
  <1>9. Attenuation'
    <2> SUFFICES ASSUME NEW h \in DOMAIN global_caps',
                        global_caps'[h].parent \in DOMAIN global_caps'
                 PROVE  LET p == global_caps'[h].parent IN
                        /\ global_caps'[h].permissions \subseteq global_caps'[p].permissions
                        /\ global_caps'[h].resource = global_caps'[p].resource
      BY DEF Attenuation
    <2>1. CASE h \in DOMAIN global_caps
      BY <2>1, <1>2, <1>3, HandleFacts, SMTT(90) DEF Attenuation
    <2>2. CASE h = next_handle
      BY <2>2, <1>a, <1>c, <1>0, <1>2, <1>3
    <2> QED BY <2>1, <2>2, <1>2
  <1>10. NoOrphanMissed'
    BY <1>a, <1>0, <1>c, <1>2, <1>3 DEF NoOrphanMissed
  <1>11. RevocationExact'
    BY <1>c DEF RevocationExact, Idle
  <1> QED BY <1>6, <1>7, <1>8, <1>9, <1>10, <1>11

(* cap_transfer: both copies get the new owner, keeping the invariant.     *)
LEMMA CapTransferInv ==
  ASSUME Inv, NEW caller \in Threads, NEW handle \in DOMAIN tables[caller],
         NEW target \in Thread, sys_cap_transfer(caller, handle, target)
  PROVE  Inv'
  <1> DEFINE cap == [tables[caller][handle] EXCEPT !.owner = target]
             without == remove_capability(tables, caller, handle)
  <1> USE DEF Inv, Threads
  <1>a. EntryAgrees(caller, handle) /\ target \in DOMAIN tables /\ target \in Nat
    BY DEF TablesAgree, sys_cap_transfer, TypeOK
  <1>0. /\ cap \in Capability /\ cap.handle = handle /\ cap.owner = target
        /\ cap.parent = global_caps[handle].parent
        /\ cap.permissions = global_caps[handle].permissions
        /\ cap.resource = global_caps[handle].resource
    <2>1. tables[caller][handle] \in Capability
      BY DEF TypeOK, IsTable
    <2> QED BY <1>a, <2>1, Zenon DEF EntryAgrees, Capability
  <1>1. /\ DOMAIN without = DOMAIN tables
        /\ without = [t \in DOMAIN without |-> without[t]]
        /\ without[caller] = Remove(tables[caller], handle)
        /\ \A t \in DOMAIN tables : t # caller => without[t] = tables[t]
    BY Zenon DEF TypeOK, remove_capability
  <1>b. \A t \in DOMAIN tables :
          /\ DOMAIN without[t] \subseteq DOMAIN tables[t]
          /\ \A h \in DOMAIN without[t] : without[t][h] = tables[t][h] /\ h # handle
    BY <1>1, <1>a DEF Remove, TablesAgree, EntryAgrees
  <1>2. CanAddCapability(without, target, cap)
    BY <1>a, <1>b, <1>0, <1>1 DEF CanAddCapability
  <1>3. /\ tables' = [without EXCEPT ![target] = Insert(@, handle, cap)]
        /\ global_caps' = [global_caps EXCEPT ![handle].owner = target]
        /\ audit_log' = log_audit(audit_log, Entry("Transfer", caller, handle, None, target))
        /\ UNCHANGED <<next_handle, next_tid, revoke_stack, revoked, revoker>>
    BY <1>a, <1>0, <1>2, Zenon DEF sys_cap_transfer, set_owner, add_capability, revokeVars, EntryAgrees
  <1> HIDE DEF cap, without
  <1>4. /\ DOMAIN tables' = DOMAIN tables
        /\ tables' = [t \in DOMAIN tables' |-> tables'[t]]
        /\ tables'[target] = Insert(without[target], handle, cap)
        /\ \A t \in DOMAIN tables : t # target => tables'[t] = without[t]
    BY <1>a, <1>1, <1>3, Zenon
  <1>5. /\ DOMAIN global_caps' = DOMAIN global_caps
        /\ global_caps' = [h \in DOMAIN global_caps' |-> global_caps'[h]]
        /\ \A h \in DOMAIN global_caps : h # handle => global_caps'[h] = global_caps[h]
    BY <1>3, Zenon DEF TypeOK, IsTable
  <1>6. /\ global_caps'[handle] \in Capability
        /\ global_caps'[handle].resource = global_caps[handle].resource
        /\ global_caps'[handle].permissions = global_caps[handle].permissions
        /\ global_caps'[handle].parent = global_caps[handle].parent
        /\ global_caps'[handle].children = global_caps[handle].children
        /\ global_caps'[handle].owner = target
    <2>1. /\ global_caps[handle] \in Capability
          /\ global_caps'[handle] = [global_caps[handle] EXCEPT !.owner = target]
      BY <1>a, <1>3, HandleFacts DEF EntryAgrees
    <2> QED BY <1>a, <2>1, Zenon DEF Capability
  <1>7. \A h \in DOMAIN global_caps :
          /\ global_caps'[h] \in Capability
          /\ global_caps'[h].resource = global_caps[h].resource
          /\ global_caps'[h].permissions = global_caps[h].permissions
          /\ global_caps'[h].parent = global_caps[h].parent
          /\ global_caps'[h].children = global_caps[h].children
    BY <1>5, <1>6, HandleFacts, Zenon
  <1>8. TypeOK'
    <2>1. /\ audit_log' \in Seq(AuditLogEntry)
          /\ Len(audit_log') <= MAX_AUDIT_LOG_ENTRIES
      <3>1. Entry("Transfer", caller, handle, None, target) \in AuditLogEntry
        BY <1>a, HandleFacts DEF Entry, AuditLogEntry, AuditEvent, None, TypeOK, EntryAgrees
      <3> QED BY <3>1, <1>3, LogAuditType DEF TypeOK
    <2>2. IsTable(global_caps')
      BY <1>5, <1>7, HandleFacts DEF IsTable
    <2>5. \A h \in DOMAIN global_caps' : h \in 1..(next_handle' - 1)
      BY <1>3, <1>5, HandleFacts
    <2>3. ASSUME NEW t \in DOMAIN tables PROVE IsTable(tables'[t])
      <3>1. IsTable(without[t])
        <4>1. IsTable(Remove(tables[caller], handle))
          BY IsTableRemove DEF TypeOK
        <4> QED BY <4>1, <1>1, Zenon DEF TypeOK
      <3>2. handle \in Nat
        BY <1>a, HandleFacts DEF EntryAgrees
      <3>3. IsTable(Insert(without[t], handle, cap))
        BY <3>1, <3>2, <1>0, IsTableInsert
      <3> QED BY <3>1, <3>3, <1>4
    <2>4. /\ tables' = [t \in Threads' |-> tables'[t]]
          /\ Threads' = 1..(next_tid' - 1)
          /\ \A t \in Threads' : IsTable(tables'[t])
      BY <1>3, <1>4, <2>3 DEF TypeOK
    <2> QED BY <1>3, <2>1, <2>2, <2>4, <2>5 DEF TypeOK
  <1>9. TablesAgree'
    <2> SUFFICES ASSUME NEW t \in DOMAIN tables, NEW h \in DOMAIN tables'[t]
                 PROVE  EntryAgrees(t, h)'
      BY <1>4 DEF TablesAgree
    <2>1. CASE h \in DOMAIN without[t] /\ tables'[t][h] = without[t][h]
      BY <2>1, <1>b, <1>5, <1>7 DEF TablesAgree, EntryAgrees
    <2>2. CASE t = target /\ h = handle /\ tables'[t][h] = cap
      BY <2>2, <1>a, <1>0, <1>5, <1>6 DEF EntryAgrees
    <2>3. CASE t # target
      BY <2>1, <2>3, <1>4
    <2>4. CASE t = target
      BY <2>1, <2>2, <2>4, <1>4 DEF Insert
    <2> QED BY <2>3, <2>4
  <1>10. Forest'
    <2> SUFFICES ASSUME NEW p \in DOMAIN global_caps PROVE WellLinked(p)'
      BY <1>5 DEF Forest
    <2> QED BY <1>3, <1>5, <1>7 DEF Forest, WellLinked
  <1>11. Attenuation' /\ NoOrphanMissed' /\ RevocationExact'
    BY <1>3, <1>5, <1>7 DEF Attenuation, NoOrphanMissed, RevocationExact
  <1> QED BY <1>8, <1>9, <1>10, <1>11

(* cap_revoke starts the recursion of revoke and keeps the invariant.      *)
LEMMA CapRevokeInv ==
  ASSUME Inv, NEW caller \in Threads, NEW handle \in DOMAIN global_caps,
         sys_cap_revoke(caller, handle)
  PROVE  Inv'
  <1>1. handle \in Nat /\ caller \in Nat
    BY HandleFacts DEF Inv, TypeOK, Threads
  <1>2. TypeOK'
    BY <1>1 DEF Inv, TypeOK, sys_cap_revoke, Threads
  <1>3. TablesAgree' /\ Attenuation' /\ Forest'
    BY DEF Inv, TablesAgree, EntryAgrees, Attenuation, Forest, WellLinked,
           sys_cap_revoke, Threads
  <1>4. NoOrphanMissed'
    BY DEF Inv, NoOrphanMissed, sys_cap_revoke, Idle, Range
  <1>5. RevocationExact'
    BY DEF RevocationExact, sys_cap_revoke
  <1> QED BY <1>2, <1>3, <1>4, <1>5 DEF Inv

(* One call of revoke on a registered handle keeps the invariant.          *)
LEMMA RevokeRegisteredInv ==
  ASSUME Inv, RevokeRegistered
  PROVE  Inv'
  <1> DEFINE handle == Head(revoke_stack)
             list == global_caps[handle].children
  <1> USE DEF Inv, Threads
  <1>1. /\ revoke_stack # <<>> /\ revoke_stack \in Seq(Nat)
        /\ handle \in DOMAIN global_caps
    BY DEF RevokeRegistered, Idle, TypeOK
  <1>2. handle \in Nat /\ list \in Seq(Nat) /\ Tail(revoke_stack) \in Seq(Nat)
    BY <1>1, HandleFacts
  <1>3. /\ global_caps' = Remove(global_caps, handle)
        /\ tables' = remove_capability(tables, global_caps[handle].owner, handle)
        /\ audit_log' = log_audit(audit_log, Entry("Revoke", revoker, handle, None, None))
        /\ revoke_stack' = list \o Tail(revoke_stack)
        /\ \/ revoked' = <<>> /\ revoke_stack' = <<>>
           \/ revoked' = Append(revoked, handle)
        /\ revoker' = None \/ revoker' = revoker
        /\ UNCHANGED <<next_handle, next_tid>>
    BY DEF RevokeRegistered, revokeReturns, children_to_visit
  <1> HIDE DEF handle, list
  <1>4. /\ DOMAIN global_caps' = DOMAIN global_caps \ {handle}
        /\ \A h \in DOMAIN global_caps' : global_caps'[h] = global_caps[h]
    BY <1>3 DEF Remove
  <1>5. /\ DOMAIN tables' = DOMAIN tables
        /\ tables' = [t \in DOMAIN tables' |-> tables'[t]]
        /\ \A t \in DOMAIN tables :
             \/ tables'[t] = tables[t] /\ t # global_caps[handle].owner
             \/ tables'[t] = Remove(tables[t], handle)
    BY <1>3, Zenon DEF TypeOK, remove_capability
  <1>6. Range(revoke_stack') = Range(list) \cup Range(Tail(revoke_stack))
    BY <1>2, <1>3, RangeConcat, Zenon
  <1>7. Range(revoke_stack) = {handle} \cup Range(Tail(revoke_stack))
    BY <1>1, RangeTail DEF handle
  <1>8. TypeOK'
    <2>1. /\ audit_log' \in Seq(AuditLogEntry)
          /\ Len(audit_log') <= MAX_AUDIT_LOG_ENTRIES
      <3>1. Entry("Revoke", revoker, handle, None, None) \in AuditLogEntry
        BY <1>2 DEF Entry, AuditLogEntry, AuditEvent, None, TypeOK
      <3> QED BY <3>1, <1>3, LogAuditType DEF TypeOK
    <2>2. IsTable(global_caps')
      BY <1>3, IsTableRemove DEF TypeOK
    <2>3. ASSUME NEW t \in DOMAIN tables PROVE IsTable(tables'[t])
      <3>1. IsTable(Remove(tables[t], handle))
        BY IsTableRemove DEF TypeOK
      <3> QED BY <3>1, <1>5, Zenon DEF TypeOK
    <2>4. /\ tables' = [t \in Threads' |-> tables'[t]]
          /\ Threads' = 1..(next_tid' - 1)
          /\ \A t \in Threads' : IsTable(tables'[t])
      BY <1>3, <1>5, <2>3 DEF TypeOK
    <2>5. revoke_stack' \in Seq(Nat) /\ revoked' \in Seq(Nat) /\ revoker' \in Nat
      <3>1. revoke_stack' \in Seq(Nat)
        BY <1>2, <1>3
      <3>2. Append(revoked, handle) \in Seq(Nat) /\ <<>> \in Seq(Nat)
        BY <1>2 DEF TypeOK
      <3>3. revoked' \in Seq(Nat)
        BY <3>2, <1>3, Zenon
      <3>4. revoker \in Nat /\ None \in Nat
        BY DEF TypeOK, None
      <3> QED BY <3>1, <3>3, <3>4, <1>3, Zenon
    <2>6. \A h \in DOMAIN global_caps' : h \in 1..(next_handle' - 1)
      BY <1>3, <1>4 DEF TypeOK
    <2> QED BY <1>3, <2>1, <2>2, <2>4, <2>5, <2>6 DEF TypeOK
  <1>9. TablesAgree'
    <2> SUFFICES ASSUME NEW t \in DOMAIN tables, NEW h \in DOMAIN tables'[t]
                 PROVE  EntryAgrees(t, h)'
      BY <1>5 DEF TablesAgree
    <2>1. h \in DOMAIN tables[t] /\ tables'[t][h] = tables[t][h]
      <3>1. CASE tables'[t] = tables[t]
        BY <3>1
      <3>2. CASE tables'[t] = Remove(tables[t], handle)
        BY <3>2 DEF Remove
      <3> QED BY <3>1, <3>2, <1>5
    <2>2. EntryAgrees(t, h)
      BY <2>1 DEF TablesAgree
    <2>3. h # handle
      <3>1. CASE tables'[t] = tables[t] /\ t # global_caps[handle].owner
        BY <3>1, <2>2 DEF EntryAgrees
      <3>2. CASE tables'[t] = Remove(tables[t], handle)
        BY <3>2 DEF Remove
      <3> QED BY <3>1, <3>2, <1>5
    <2> QED BY <2>1, <2>2, <2>3, <1>4 DEF EntryAgrees
  <1>10. Forest'
    <2> SUFFICES ASSUME NEW p \in DOMAIN global_caps' PROVE WellLinked(p)'
      BY DEF Forest
    <2>1. WellLinked(p)
      BY <1>4 DEF Forest
    <2> QED BY <2>1, <1>3, <1>4, SMTT(60) DEF WellLinked
  <1>11. Attenuation'
    BY <1>4 DEF Attenuation
  <1>12. NoOrphanMissed'
    <2> SUFFICES ASSUME NEW h \in DOMAIN global_caps'
                 PROVE  \/ global_caps'[h].parent = None
                        \/ global_caps'[h].parent \in DOMAIN global_caps'
                        \/ h \in Range(revoke_stack')
      BY DEF NoOrphanMissed
    <2>1. CASE global_caps[h].parent = handle
      BY <2>1, <1>1, <1>4, <1>6 DEF Forest, WellLinked, list, handle
    <2>2. CASE global_caps[h].parent # handle
      BY <2>2, <1>4, <1>6, <1>7 DEF NoOrphanMissed
    <2> QED BY <2>1, <2>2
  <1>13. RevocationExact'
    <2> SUFFICES ASSUME NEW i \in DOMAIN revoke_stack',
                        revoke_stack'[i] \in DOMAIN global_caps'
                 PROVE  global_caps'[revoke_stack'[i]].parent \in Range(revoked')
      BY DEF RevocationExact
    <2> DEFINE h == revoke_stack'[i]
    <2>1. Range(revoked') = Range(revoked) \cup {handle}
      <3>1. revoke_stack' # <<>>
        OBVIOUS
      <3>2. revoked' = Append(revoked, handle) /\ revoked \in Seq(Nat)
        BY <3>1, <1>3, Zenon DEF TypeOK
      <3> QED BY <3>2, <1>2, RangeAppend
    <2>2. CASE h \in Range(list)
      <3>1. WellLinked(handle)
        BY <1>1 DEF Forest
      <3>2. global_caps[h].parent = handle
        BY <2>2, <3>1, <1>4 DEF WellLinked, list
      <3> QED BY <3>2, <2>1, <1>4
    <2>3. CASE h \notin Range(list)
      <3>1. PICK j \in DOMAIN revoke_stack : j # 1 /\ revoke_stack[j] = h
        <4>1. i \in 1..(Len(list) + Len(Tail(revoke_stack)))
          BY <1>2, <1>3
        <4>2. CASE i <= Len(list)
          <5>1. h = list[i] /\ i \in DOMAIN list
            BY <4>1, <4>2, <1>2, <1>3
          <5> QED BY <5>1, <2>3 DEF Range
        <4>3. CASE ~(i <= Len(list))
          <5>1. /\ i - Len(list) \in 1..Len(Tail(revoke_stack))
                /\ h = Tail(revoke_stack)[i - Len(list)]
            BY <4>1, <4>3, <1>2, <1>3, SMTT(90)
          <5>2. /\ i - Len(list) + 1 \in DOMAIN revoke_stack
                /\ i - Len(list) + 1 # 1
                /\ revoke_stack[i - Len(list) + 1] = h
            BY <5>1, <1>1
          <5> QED BY <5>2
        <4> QED BY <4>2, <4>3
      <3>2. global_caps[h].parent \in Range(revoked)
        BY <3>1, <1>4 DEF RevocationExact
      <3> QED BY <3>2, <2>1, <1>4
    <2> QED BY <2>2, <2>3
  <1> QED BY <1>8, <1>9, <1>10, <1>11, <1>12, <1>13

(* One call of revoke on a handle already gone keeps the invariant.        *)
LEMMA RevokeMissingInv ==
  ASSUME Inv, RevokeMissing
  PROVE  Inv'
  <1> USE DEF Inv
  <1>1. /\ revoke_stack # <<>> /\ revoke_stack \in Seq(Nat)
        /\ Head(revoke_stack) \notin DOMAIN global_caps
        /\ revoke_stack' = Tail(revoke_stack)
        /\ \/ revoked' = <<>> /\ revoke_stack' = <<>>
           \/ revoked' = revoked
        /\ revoker' = None \/ revoker' = revoker
        /\ UNCHANGED <<next_handle, global_caps, audit_log, next_tid, tables>>
    BY Zenon DEF RevokeMissing, revokeReturns, Idle, TypeOK
  <1>2. TypeOK'
    <2>1. revoke_stack' \in Seq(Nat) /\ revoked' \in Seq(Nat) /\ revoker' \in Nat
      <3>1. Tail(revoke_stack) \in Seq(Nat) /\ <<>> \in Seq(Nat)
        BY <1>1
      <3>2. revoked \in Seq(Nat) /\ revoker \in Nat
        BY DEF TypeOK
      <3>3. None \in Nat
        BY DEF None
      <3> QED BY <1>1, <3>1, <3>2, <3>3, Zenon
    <2> QED BY <1>1, <2>1 DEF TypeOK, Threads
  <1>3. TablesAgree' /\ Attenuation' /\ Forest'
    BY <1>1, SMTT(90) DEF TablesAgree, EntryAgrees, Attenuation, Forest, WellLinked, Threads
  <1>4. NoOrphanMissed'
    BY <1>1, RangeTail DEF NoOrphanMissed
  <1>5. RevocationExact'
    <2> SUFFICES ASSUME NEW i \in DOMAIN revoke_stack',
                        revoke_stack'[i] \in DOMAIN global_caps
                 PROVE  global_caps[revoke_stack'[i]].parent \in Range(revoked')
      BY <1>1 DEF RevocationExact
    <2>1. /\ i + 1 \in DOMAIN revoke_stack /\ i + 1 # 1
          /\ revoke_stack[i + 1] = revoke_stack'[i]
      BY <1>1
    <2>2. revoked' = revoked
      <3>1. revoke_stack' # <<>>
        OBVIOUS
      <3> QED BY <3>1, <1>1
    <2> QED BY <2>1, <2>2 DEF RevocationExact
  <1> QED BY <1>2, <1>3, <1>4, <1>5

(* Every step keeps the invariant.                                         *)
LEMMA NextInv == Inv /\ [Next]_vars => Inv'
  <1> SUFFICES ASSUME Inv, [Next]_vars PROVE Inv'
    OBVIOUS
  <1>1. CASE RevokeStep
    BY <1>1, RevokeRegisteredInv, RevokeMissingInv DEF RevokeStep
  <1>2. CASE UNCHANGED vars
    <2>1. TypeOK'
      BY <1>2, SMTT(60) DEF vars, Inv, TypeOK, Threads
    <2>2. TablesAgree'
      BY <1>2, SMTT(60) DEF vars, Inv, TablesAgree, EntryAgrees, Threads
    <2>3. Attenuation'
      BY <1>2, SMTT(60) DEF vars, Inv, Attenuation
    <2>4. Forest'
      BY <1>2, SMTT(60) DEF vars, Inv, Forest, WellLinked
    <2>5. NoOrphanMissed' /\ RevocationExact'
      BY <1>2, SMTT(60) DEF vars, Inv, NoOrphanMissed, RevocationExact
    <2> QED BY <2>1, <2>2, <2>3, <2>4, <2>5, Zenon DEF Inv
  <1> QED
    BY <1>1, <1>2, ThreadCreateInv, CapCreateInv, CapDeriveInv, CapTransferInv,
       CapRevokeInv DEF Next

---------------------------------------------------------------------------
(* The invariant holds in every reachable state.                           *)
LEMMA SpecInv == Spec => []Inv
  BY InitInv, NextInv, PTL DEF Spec

(* The variables of the capability subsystem keep their types, and the     *)
(* audit log its bound, through every sequence of syscalls.                *)
THEOREM TypeCorrect == Spec => []TypeOK
  <1>1. Inv => TypeOK
    BY DEF Inv
  <1> QED BY SpecInv, <1>1, PTL

(* The thread tables and the registry agree after every call of            *)
(* cap_create, cap_derive, cap_transfer and at every point of a revoke.    *)
THEOREM TablesConsistent == Spec => []TablesAgree
  <1>1. Inv => TablesAgree
    BY DEF Inv
  <1> QED BY SpecInv, <1>1, PTL

(* derive_capability attenuates, and no later call undoes it.              *)
THEOREM AttenuationHolds == Spec => []Attenuation
  <1>1. Inv => Attenuation
    BY DEF Inv
  <1> QED BY SpecInv, <1>1, PTL

(* Parents and children, as register and revoke keep them, form a forest.  *)
THEOREM ForestHolds == Spec => []Forest
  <1>1. Inv => Forest
    BY DEF Inv
  <1> QED BY SpecInv, <1>1, PTL

(* CapabilityManager::revoke, once it has returned, has left no descendant *)
(* of what it removed.                                                     *)
THEOREM RevocationIsTransitive == Spec => []RevocationTransitive
  <1>1. Inv => RevocationTransitive
    BY DEF Inv, RevocationTransitive, NoOrphanMissed, Idle, Range
  <1> QED BY SpecInv, <1>1, PTL

(* At every point of a revoke, a capability whose parent is gone is still  *)
(* to be visited by it.                                                    *)
THEOREM OrphansAreVisited == Spec => []NoOrphanMissed
  <1>1. Inv => NoOrphanMissed
    BY DEF Inv
  <1> QED BY SpecInv, <1>1, PTL

(* CapabilityManager::revoke visits only the subtree it was asked for.     *)
THEOREM RevocationIsExact == Spec => []RevocationExact
  <1>1. Inv => RevocationExact
    BY DEF Inv
  <1> QED BY SpecInv, <1>1, PTL

(* A handle is registered by the call that issues it or never.             *)
LEMMA RegistryGrowth ==
  ASSUME Inv, [Next]_vars
  PROVE  DOMAIN global_caps' \subseteq DOMAIN global_caps \cup {next_handle}
  <1>1. ASSUME NEW caller \in Threads, sys_thread_create(caller)
        PROVE  global_caps' = global_caps
    BY <1>1 DEF sys_thread_create
  <1>2. ASSUME NEW caller, NEW resource, NEW permissions,
               sys_cap_create(caller, resource, permissions)
        PROVE  DOMAIN global_caps' = DOMAIN global_caps \cup {next_handle}
    BY <1>2 DEF sys_cap_create, Insert
  <1>3. ASSUME NEW caller, NEW parent, NEW new_owner, NEW permissions,
               sys_cap_derive(caller, parent, new_owner, permissions)
        PROVE  DOMAIN global_caps' = DOMAIN global_caps \cup {next_handle}
    BY <1>3 DEF sys_cap_derive, Insert, link_child
  <1>4. ASSUME NEW caller, NEW handle, NEW target,
               sys_cap_transfer(caller, handle, target)
        PROVE  DOMAIN global_caps' = DOMAIN global_caps
    BY <1>4 DEF sys_cap_transfer, set_owner
  <1>5. ASSUME NEW caller, NEW handle, sys_cap_revoke(caller, handle)
        PROVE  global_caps' = global_caps
    BY <1>5 DEF sys_cap_revoke
  <1>6. RevokeStep => DOMAIN global_caps' \subseteq DOMAIN global_caps
    BY Zenon DEF RevokeStep, RevokeRegistered, RevokeMissing, Remove
  <1> QED
    BY <1>1, <1>2, <1>3, <1>4, <1>5, <1>6 DEF Next, vars

(* No call brings a revoked handle back, in the registry or in a table.    *)
THEOREM RevokedHandlesStayDead == Spec => RevokedStaysRevoked
  <1> DEFINE Dead == \A h \in 1..(next_handle - 1) :
                       h \notin DOMAIN global_caps =>
                         /\ h \notin DOMAIN global_caps'
                         /\ \A t \in DOMAIN tables' : h \notin DOMAIN tables'[t]
  <1>1. ASSUME Inv, Inv', [Next]_vars PROVE Dead
    <2> SUFFICES ASSUME NEW h \in 1..(next_handle - 1), h \notin DOMAIN global_caps
                 PROVE  /\ h \notin DOMAIN global_caps'
                        /\ \A t \in DOMAIN tables' : h \notin DOMAIN tables'[t]
      OBVIOUS
    <2>1. h \notin DOMAIN global_caps'
      BY <1>1, RegistryGrowth, SMTT(60) DEF Inv, TypeOK
    <2>2. \A t \in DOMAIN tables' : h \notin DOMAIN tables'[t]
      BY <1>1, <2>1 DEF Inv, TablesAgree, EntryAgrees, Threads
    <2> QED BY <2>1, <2>2
  <1> QED BY <1>1, SpecInv, PTL DEF Spec, RevokedStaysRevoked

---------------------------------------------------------------------------
(* What each syscall does to the registry, for the audit log and for the   *)
(* refinement: the four fields a caller sees, of every handle.             *)
SameView(c, d) ==
  /\ c.resource = d.resource /\ c.permissions = d.permissions
  /\ c.owner = d.owner /\ c.parent = d.parent

(* cap_create registers a root and touches nothing else.                   *)
LEMMA CreateEffect ==
  ASSUME Inv, NEW caller, NEW resource, NEW permissions,
         sys_cap_create(caller, resource, permissions)
  PROVE  /\ Idle /\ UNCHANGED <<revoke_stack, next_tid>> /\ next_handle' = next_handle + 1
         /\ DOMAIN global_caps' = DOMAIN global_caps \cup {next_handle}
         /\ next_handle \notin DOMAIN global_caps
         /\ global_caps'[next_handle] =
              NewCapability(next_handle, resource, permissions, caller, None)
         /\ \A h \in DOMAIN global_caps : global_caps'[h] = global_caps[h]
         /\ audit_log' = log_audit(audit_log, Entry("Create", caller, next_handle, None, None))
  BY DEF sys_cap_create, revokeVars, Insert, Inv, TypeOK

(* cap_derive registers a child; its parent changes only in its list of    *)
(* children.                                                               *)
LEMMA DeriveEffect ==
  ASSUME Inv, NEW caller, NEW parent, NEW new_owner, NEW permissions,
         sys_cap_derive(caller, parent, new_owner, permissions)
  PROVE  /\ Idle /\ UNCHANGED <<revoke_stack, next_tid>> /\ next_handle' = next_handle + 1
         /\ parent \in DOMAIN global_caps /\ can_derive(caller, parent, permissions)
         /\ DOMAIN global_caps' = DOMAIN global_caps \cup {next_handle}
         /\ next_handle \notin DOMAIN global_caps
         /\ global_caps'[next_handle] =
              NewCapability(next_handle, global_caps[parent].resource, permissions, new_owner, parent)
         /\ \A h \in DOMAIN global_caps : SameView(global_caps'[h], global_caps[h])
         /\ \/ audit_log' = log_audit(audit_log,
                                      Entry("Derive", caller, next_handle, parent, None))
            \/ audit_log' = audit_log
  <1> DEFINE child == NewCapability(next_handle, global_caps[parent].resource,
                                    permissions, new_owner, parent)
             longer == Append(global_caps[parent].children, next_handle)
  <1>1. /\ Idle /\ UNCHANGED <<revoke_stack, next_tid>> /\ next_handle' = next_handle + 1
        /\ parent \in DOMAIN global_caps /\ can_derive(caller, parent, permissions)
        /\ \/ audit_log' = log_audit(audit_log,
                                     Entry("Derive", caller, next_handle, parent, None))
           \/ audit_log' = audit_log
        /\ global_caps' = Insert(link_child(global_caps, parent, next_handle), next_handle, child)
    BY Zenon DEF sys_cap_derive, revokeVars
  <1> HIDE DEF child
  <1>2. /\ next_handle \notin DOMAIN global_caps
        /\ DOMAIN global_caps' = DOMAIN global_caps \cup {next_handle}
        /\ global_caps'[next_handle] = child
        /\ global_caps'[parent] = [global_caps[parent] EXCEPT !.children = longer]
        /\ \A h \in DOMAIN global_caps : h # parent => global_caps'[h] = global_caps[h]
    BY <1>1, HandleFacts DEF Insert, link_child, Inv
  <1> HIDE DEF longer
  <1>3. global_caps[parent] \in Capability
    BY <1>1, HandleFacts, Zenon DEF Inv
  <1>4. SameView(global_caps'[parent], global_caps[parent])
    BY <1>2, <1>3 DEF SameView, Capability
  <1>5. \A h \in DOMAIN global_caps : SameView(global_caps'[h], global_caps[h])
    BY <1>2, <1>4, Zenon DEF SameView
  <1> QED BY <1>1, <1>2, <1>5 DEF child

(* cap_transfer changes the owner of the handle, and nothing else.         *)
LEMMA TransferEffect ==
  ASSUME Inv, NEW caller \in Threads, NEW handle \in DOMAIN tables[caller], NEW target,
         sys_cap_transfer(caller, handle, target)
  PROVE  /\ Idle /\ UNCHANGED <<revoke_stack, next_handle, next_tid>>
         /\ target \in Threads
         /\ handle \in DOMAIN global_caps /\ "GRANT" \in global_caps[handle].permissions
         /\ DOMAIN global_caps' = DOMAIN global_caps
         /\ \A h \in DOMAIN global_caps : h # handle => global_caps'[h] = global_caps[h]
         /\ global_caps'[handle].resource = global_caps[handle].resource
         /\ global_caps'[handle].permissions = global_caps[handle].permissions
         /\ global_caps'[handle].parent = global_caps[handle].parent
         /\ global_caps'[handle].owner = target
         /\ audit_log' = log_audit(audit_log, Entry("Transfer", caller, handle, None, target))
  <1> DEFINE cap == [tables[caller][handle] EXCEPT !.owner = target]
             without == remove_capability(tables, caller, handle)
  <1>1. /\ EntryAgrees(caller, handle) /\ target \in Threads /\ Idle
        /\ UNCHANGED <<revoke_stack, next_handle, next_tid>>
        /\ "GRANT" \in tables[caller][handle].permissions
    BY DEF Inv, TablesAgree, sys_cap_transfer, revokeVars
  <1>2. cap.handle = handle
    <2>1. tables[caller][handle] \in Capability
      BY DEF Inv, TypeOK, IsTable
    <2> QED BY <1>1, <2>1 DEF EntryAgrees, Capability
  <1>3. target \in DOMAIN without /\ handle \notin DOMAIN without[target]
    <2>1. \A t \in Threads : t # caller => handle \notin DOMAIN tables[t]
      BY <1>1, SMTT(60) DEF Inv, TablesAgree, EntryAgrees
    <2> QED BY <1>1, <2>1 DEF remove_capability, Remove, Inv, TypeOK, Threads
  <1>4. CanAddCapability(without, target, cap)
    BY <1>2, <1>3 DEF CanAddCapability
  <1>5. /\ global_caps' = [global_caps EXCEPT ![handle].owner = target]
        /\ audit_log' = log_audit(audit_log, Entry("Transfer", caller, handle, None, target))
    BY <1>1, <1>4 DEF sys_cap_transfer, set_owner, EntryAgrees
  <1> HIDE DEF cap, without
  <1>6. /\ handle \in DOMAIN global_caps /\ global_caps[handle] \in Capability
        /\ global_caps'[handle] = [global_caps[handle] EXCEPT !.owner = target]
        /\ DOMAIN global_caps' = DOMAIN global_caps
        /\ \A h \in DOMAIN global_caps : h # handle => global_caps'[h] = global_caps[h]
    BY <1>1, <1>5 DEF EntryAgrees, Inv, TypeOK, IsTable
  <1>7. /\ global_caps'[handle].resource = global_caps[handle].resource
        /\ global_caps'[handle].permissions = global_caps[handle].permissions
        /\ global_caps'[handle].parent = global_caps[handle].parent
        /\ global_caps'[handle].owner = target
    BY <1>6 DEF Capability
  <1> QED BY <1>1, <1>5, <1>6, <1>7 DEF EntryAgrees

(* One call of revoke unregisters the handle on top of the stack.          *)
LEMMA RevokeEffect ==
  ASSUME Inv, RevokeRegistered
  PROVE  /\ revoke_stack # <<>> /\ revoke_stack \in Seq(Nat)
         /\ Head(revoke_stack) \in DOMAIN global_caps
         /\ UNCHANGED <<next_handle, next_tid>>
         /\ DOMAIN global_caps' = DOMAIN global_caps \ {Head(revoke_stack)}
         /\ \A h \in DOMAIN global_caps' : global_caps'[h] = global_caps[h]
         /\ revoke_stack' = global_caps[Head(revoke_stack)].children \o Tail(revoke_stack)
         /\ audit_log' = log_audit(audit_log,
                                   Entry("Revoke", revoker, Head(revoke_stack), None, None))
  BY DEF RevokeRegistered, Idle, Remove, children_to_visit, Inv, TypeOK


---------------------------------------------------------------------------
(* The audit log.                                                          *)
IsLast(log, i) ==
  \A j \in DOMAIN log : log[j].cap_handle = log[i].cap_handle => j <= i

Describes(e, caps) ==
  LET h == e.cap_handle IN
  /\ e.event_type = "Revoke" <=> h \notin DOMAIN caps
  /\ e.event_type = "Create" => caps[h].owner = e.thread_id /\ caps[h].parent = None
  /\ e.event_type = "Derive" => caps[h].parent = e.parent_handle
  /\ e.event_type = "Transfer" => caps[h].owner = e.target_thread

(* Inductive: an entry is also about a handle that has been issued, so a   *)
(* handle that is registered without an entry is not described at all.     *)
AuditInv ==
  /\ \A i \in DOMAIN audit_log :
       IsLast(audit_log, i) => Describes(audit_log[i], global_caps)
  /\ \A i \in DOMAIN audit_log : audit_log[i].cap_handle \in 1..(next_handle - 1)

LEMMA AuditInvSuffices == AuditInv => AuditTailFaithful
  BY DEF AuditInv, AuditTailFaithful, IsLast, Describes

(* A last entry of the longer log is the new one, or was a last entry about *)
(* another handle before; the entry dropped at the limit plays no part.    *)
LEMMA LogTail ==
  ASSUME NEW log \in Seq(AuditLogEntry), NEW e \in AuditLogEntry,
         NEW i \in DOMAIN log_audit(log, e)
  PROVE  \/ log_audit(log, e)[i] = e
         \/ \E k \in DOMAIN log :
              /\ log_audit(log, e)[i] = log[k]
              /\ IsLast(log_audit(log, e), i) =>
                   log[k].cap_handle # e.cap_handle /\ IsLast(log, k)
  <1> DEFINE full == Len(log) >= MAX_AUDIT_LOG_ENTRIES
             kept == IF full THEN Tail(log) ELSE log
             d == IF full THEN 1 ELSE 0
             new == log_audit(log, e)
  <1>1. /\ kept \in Seq(AuditLogEntry) /\ Len(kept) = Len(log) - d /\ d \in {0, 1}
        /\ \A j \in 1..Len(kept) : kept[j] = log[j + d]
    BY ConstantsAssumption
  <1>2. new = Append(kept, e)
    BY DEF log_audit
  <1> HIDE DEF full, kept, d, new
  <1>3. /\ Len(new) = Len(kept) + 1 /\ DOMAIN new = 1..(Len(kept) + 1)
        /\ new[Len(kept) + 1] = e
        /\ \A j \in 1..Len(kept) : new[j] = log[j + d] /\ j + d \in DOMAIN log
    BY <1>1, <1>2
  <1>4. i \in 1..(Len(kept) + 1) /\ Len(kept) \in Nat
    BY <1>1, <1>3 DEF new
  <1>5. CASE i = Len(kept) + 1
    BY <1>3, <1>5 DEF new
  <1>6. CASE i \in 1..Len(kept)
    <2> DEFINE k == i + d
    <2>1. k \in DOMAIN log /\ new[i] = log[k] /\ k \in 1..Len(log)
      BY <1>1, <1>3, <1>6, SMTT(60)
    <2>2. ASSUME IsLast(new, i)
          PROVE  log[k].cap_handle # e.cap_handle /\ IsLast(log, k)
      <3>1. \A j \in DOMAIN new : new[j].cap_handle = log[k].cap_handle => j <= i
        BY <2>1, <2>2 DEF IsLast
      <3>2. log[k].cap_handle # e.cap_handle
        BY <3>1, <1>3, <1>4, <1>6
      <3>3. ASSUME NEW j \in DOMAIN log, log[j].cap_handle = log[k].cap_handle
            PROVE  j <= k
        <4>1. j \in 1..Len(log)
          OBVIOUS
        <4>2. CASE j > d
          <5>1. j - d \in 1..Len(kept) /\ (j - d) + d = j
            BY <4>1, <4>2, <1>1
          <5>2. new[j - d] = log[j] /\ j - d \in DOMAIN new
            BY <5>1, <1>3, <1>4
          <5>3. j - d <= i
            BY <5>2, <3>1, <3>3
          <5> QED BY <5>3, <4>1, <1>1, <1>4
        <4>3. CASE j <= d
          BY <4>1, <4>3, <1>1, <1>4
        <4> QED BY <4>1, <4>2, <4>3, <1>1
      <3> QED BY <3>2, <3>3 DEF IsLast
    <2> QED BY <2>1, <2>2 DEF new
  <1> QED BY <1>4, <1>5, <1>6

(* An entry that describes its handle keeps the log faithful, as long as   *)
(* the call leaves the other handles' owners and parents alone.            *)
LEMMA AuditStep ==
  ASSUME Inv, AuditInv, NEW e \in AuditLogEntry,
         audit_log' = log_audit(audit_log, e),
         next_handle <= next_handle', next_handle' \in Nat,
         e.cap_handle \in 1..(next_handle' - 1), Describes(e, global_caps'),
         \A h \in 1..(next_handle - 1) : h # e.cap_handle =>
           /\ h \in DOMAIN global_caps' <=> h \in DOMAIN global_caps
           /\ h \in DOMAIN global_caps =>
                /\ global_caps'[h].owner = global_caps[h].owner
                /\ global_caps'[h].parent = global_caps[h].parent
  PROVE  AuditInv'
  <1>1. audit_log \in Seq(AuditLogEntry) /\ next_handle \in Nat
    BY DEF Inv, TypeOK
  <1>2. ASSUME NEW i \in DOMAIN audit_log'
        PROVE  /\ audit_log'[i].cap_handle \in 1..(next_handle' - 1)
               /\ IsLast(audit_log', i) => Describes(audit_log'[i], global_caps')
    <2>1. CASE audit_log'[i] = e
      BY <2>1
    <2>2. CASE \E k \in DOMAIN audit_log :
                 /\ audit_log'[i] = audit_log[k]
                 /\ IsLast(audit_log', i) =>
                      audit_log[k].cap_handle # e.cap_handle /\ IsLast(audit_log, k)
      <3>1. PICK k \in DOMAIN audit_log :
                 /\ audit_log'[i] = audit_log[k]
                 /\ IsLast(audit_log', i) =>
                      audit_log[k].cap_handle # e.cap_handle /\ IsLast(audit_log, k)
        BY <2>2, SMTT(30)
      <3>2. audit_log[k].cap_handle \in 1..(next_handle - 1)
        BY DEF AuditInv
      <3>3. ASSUME IsLast(audit_log', i)
            PROVE  Describes(audit_log[k], global_caps')
        <4> DEFINE h == audit_log[k].cap_handle
        <4>1. Describes(audit_log[k], global_caps) /\ h # e.cap_handle
          BY <3>1, <3>3 DEF AuditInv
        <4>2. CASE h \in DOMAIN global_caps
          <5>1. h \in 1..(next_handle - 1)
            BY <4>2, Zenon DEF Inv, TypeOK
          <5> QED BY <4>1, <4>2, <5>1, Zenon DEF Describes
        <4>3. CASE h \notin DOMAIN global_caps
          <5>1. audit_log[k].event_type = "Revoke"
            BY <4>1, <4>3, SMTT(60) DEF Describes
          <5>2. h \notin DOMAIN global_caps'
            BY <3>2, <4>1, <4>3, SMTT(60)
          <5> QED BY <5>1, <5>2, Zenon DEF Describes
        <4> QED BY <4>2, <4>3
      <3> QED BY <3>1, <3>2, <3>3, <1>1
    <2> QED BY <2>1, <2>2, <1>1, LogTail, SMTT(30)
  <1> QED BY <1>2 DEF AuditInv


LEMMA AuditCreate ==
  ASSUME Inv, AuditInv, NEW caller \in Threads, NEW resource, NEW permissions,
         sys_cap_create(caller, resource, permissions)
  PROVE  AuditInv'
  <1> DEFINE e == Entry("Create", caller, next_handle, None, None)
  <1>1. next_handle \in Nat \ {0} /\ caller \in Nat
    BY DEF Inv, TypeOK
  <1>2. e \in AuditLogEntry /\ e.cap_handle = next_handle
    BY <1>1 DEF Entry, AuditLogEntry, AuditEvent, None
  <1>3. Describes(e, global_caps')
    <2>1. e.event_type = "Create" /\ e.thread_id = caller
      BY DEF Entry
    <2>2. /\ next_handle \in DOMAIN global_caps'
          /\ global_caps'[next_handle].owner = caller /\ global_caps'[next_handle].parent = None
      <3>1. /\ next_handle \in DOMAIN global_caps'
            /\ global_caps'[next_handle] =
                 NewCapability(next_handle, resource, permissions, caller, None)
        BY CreateEffect, Zenon
      <3> QED BY <3>1 DEF NewCapability
    <2> HIDE DEF e
    <2> QED BY <1>2, <2>1, <2>2, SMTT(30) DEF Describes
  <1> HIDE DEF e
  <1>4. \A h \in 1..(next_handle - 1) :
           /\ h \in DOMAIN global_caps' <=> h \in DOMAIN global_caps
           /\ h \in DOMAIN global_caps =>
                /\ global_caps'[h].owner = global_caps[h].owner
                /\ global_caps'[h].parent = global_caps[h].parent
    BY <1>1, CreateEffect, SMTT(60)
  <1>5. audit_log' = log_audit(audit_log, e) /\ next_handle' = next_handle + 1
    BY CreateEffect DEF e
  <1> QED BY <1>1, <1>2, <1>3, <1>4, <1>5, AuditStep

LEMMA AuditDerive ==
  ASSUME Inv, AuditInv, NEW caller \in Threads, NEW parent, NEW new_owner, NEW permissions,
         sys_cap_derive(caller, parent, new_owner, permissions)
  PROVE  AuditInv'
  <1> DEFINE e == Entry("Derive", caller, next_handle, parent, None)
  <1>1. next_handle \in Nat \ {0} /\ caller \in Nat
    BY DEF Inv, TypeOK
  <1>2. e \in AuditLogEntry /\ e.cap_handle = next_handle
    <2>1. parent \in Nat
      BY DeriveEffect, SMTT(90) DEF Inv, TypeOK
    <2> QED BY <1>1, <2>1 DEF Entry, AuditLogEntry, AuditEvent, None
  <1>3. Describes(e, global_caps')
    <2>1. e.event_type = "Derive" /\ e.parent_handle = parent
      BY DEF Entry
    <2>2. next_handle \in DOMAIN global_caps' /\ global_caps'[next_handle].parent = parent
      <3>1. /\ next_handle \in DOMAIN global_caps'
            /\ global_caps'[next_handle] =
                 NewCapability(next_handle, global_caps[parent].resource, permissions, new_owner, parent)
        BY DeriveEffect
      <3> QED BY <3>1 DEF NewCapability
    <2> HIDE DEF e
    <2> QED BY <1>2, <2>1, <2>2 DEF Describes
  <1> HIDE DEF e
  <1>4. \A h \in 1..(next_handle - 1) :
           /\ h \in DOMAIN global_caps' <=> h \in DOMAIN global_caps
           /\ h \in DOMAIN global_caps =>
                /\ global_caps'[h].owner = global_caps[h].owner
                /\ global_caps'[h].parent = global_caps[h].parent
    BY <1>1, DeriveEffect, SMTT(90) DEF SameView
  <1>5. next_handle' = next_handle + 1
    BY DeriveEffect
  <1>6. CASE audit_log' = log_audit(audit_log, e)
    BY ONLY Inv, AuditInv, <1>1, <1>2, <1>3, <1>4, <1>5, <1>6, AuditStep, SMTT(90)
  <1>7. CASE audit_log' = audit_log
    <2>1. ASSUME NEW i \in DOMAIN audit_log
          PROVE  /\ audit_log[i].cap_handle \in 1..(next_handle' - 1)
                 /\ IsLast(audit_log, i) => Describes(audit_log[i], global_caps')
      <3>1. audit_log[i].cap_handle \in 1..(next_handle - 1)
        BY DEF AuditInv
      <3>2. CASE audit_log[i].cap_handle \in DOMAIN global_caps
        <4>1. IsLast(audit_log, i) => Describes(audit_log[i], global_caps)
          BY Zenon DEF AuditInv
        <4>2. Describes(audit_log[i], global_caps) => Describes(audit_log[i], global_caps')
          BY <3>1, <3>2, <1>4, Zenon DEF Describes
        <4>3. audit_log[i].cap_handle \in 1..(next_handle' - 1)
          BY ONLY <3>1, <1>1, <1>5, SMTT(60)
        <4> QED BY <4>1, <4>2, <4>3, Zenon
      <3>3. CASE audit_log[i].cap_handle \notin DOMAIN global_caps
        <4>1. audit_log[i].cap_handle \notin DOMAIN global_caps'
          BY <3>1, <3>3, <1>4
        <4>2. IsLast(audit_log, i) => audit_log[i].event_type = "Revoke"
          BY <3>3, Zenon DEF AuditInv, Describes
        <4> QED BY <4>1, <4>2, <3>1, <1>1, <1>5 DEF Describes
      <3> QED BY <3>2, <3>3, SMTT(60)
    <2> QED BY <2>1, <1>7, Zenon DEF AuditInv
  <1> QED BY <1>6, <1>7, DeriveEffect DEF e

LEMMA AuditTransfer ==
  ASSUME Inv, AuditInv, NEW caller \in Threads, NEW handle \in DOMAIN tables[caller],
         NEW target, sys_cap_transfer(caller, handle, target)
  PROVE  AuditInv'
  <1> DEFINE e == Entry("Transfer", caller, handle, None, target)
  <1>1. /\ next_handle \in Nat \ {0} /\ caller \in Nat /\ target \in Nat
        /\ handle \in 1..(next_handle - 1)
    BY TransferEffect, SMTT(60) DEF Inv, TypeOK
  <1>2. e \in AuditLogEntry /\ e.cap_handle = handle
    BY <1>1, SMTT(60) DEF Entry, AuditLogEntry, AuditEvent, None
  <1>3. Describes(e, global_caps')
    <2>1. e.event_type = "Transfer" /\ e.target_thread = target
      BY DEF Entry
    <2>2. handle \in DOMAIN global_caps' /\ global_caps'[handle].owner = target
      BY TransferEffect, Zenon
    <2> HIDE DEF e
    <2> QED BY ONLY <1>2, <2>1, <2>2, SMTT(90) DEF Describes
  <1> HIDE DEF e
  <1>4. \A h \in 1..(next_handle - 1) : h # handle =>
           /\ h \in DOMAIN global_caps' <=> h \in DOMAIN global_caps
           /\ h \in DOMAIN global_caps =>
                /\ global_caps'[h].owner = global_caps[h].owner
                /\ global_caps'[h].parent = global_caps[h].parent
    BY TransferEffect, Zenon
  <1>5. audit_log' = log_audit(audit_log, e) /\ next_handle' = next_handle
    BY TransferEffect, ZenonT(60) DEF e
  <1> QED BY <1>1, <1>2, <1>3, <1>4, <1>5, AuditStep

LEMMA AuditRevoke ==
  ASSUME Inv, AuditInv, RevokeRegistered
  PROVE  AuditInv'
  <1> DEFINE handle == Head(revoke_stack)
             e == Entry("Revoke", revoker, handle, None, None)
  <1>1. /\ next_handle \in Nat \ {0} /\ revoker \in Nat
        /\ handle \in 1..(next_handle - 1)
    BY RevokeEffect, Zenon DEF Inv, TypeOK
  <1>2. e \in AuditLogEntry /\ e.cap_handle = handle
    BY <1>1 DEF Entry, AuditLogEntry, AuditEvent, None
  <1>3. Describes(e, global_caps')
    BY RevokeEffect, Zenon DEF Describes, Entry
  <1>4. \A h \in 1..(next_handle - 1) : h # handle =>
           /\ h \in DOMAIN global_caps' <=> h \in DOMAIN global_caps
           /\ h \in DOMAIN global_caps =>
                /\ global_caps'[h].owner = global_caps[h].owner
                /\ global_caps'[h].parent = global_caps[h].parent
    BY RevokeEffect
  <1>5. audit_log' = log_audit(audit_log, e) /\ next_handle' = next_handle
    BY RevokeEffect
  <1> HIDE DEF e, handle
  <1> QED BY ONLY Inv, AuditInv, <1>1, <1>2, <1>3, <1>4, <1>5, AuditStep, SMTT(60)

LEMMA AuditNext == Inv /\ AuditInv /\ [Next]_vars => AuditInv'
  <1> SUFFICES ASSUME Inv, AuditInv, [Next]_vars PROVE AuditInv'
    OBVIOUS
  <1>1. CASE UNCHANGED <<audit_log, global_caps, next_handle>>
    BY <1>1 DEF AuditInv
  <1>2. ASSUME NEW caller \in Threads, sys_thread_create(caller) PROVE AuditInv'
    BY <1>1, <1>2 DEF sys_thread_create
  <1>3. ASSUME NEW caller \in Threads, NEW handle, sys_cap_revoke(caller, handle)
        PROVE  AuditInv'
    BY <1>1, <1>3 DEF sys_cap_revoke
  <1>4. CASE RevokeMissing
    BY <1>1, <1>4 DEF RevokeMissing
  <1>5. CASE UNCHANGED vars
    BY <1>1, <1>5 DEF vars
  <1> QED BY <1>2, <1>3, <1>4, <1>5, AuditCreate, AuditDerive, AuditTransfer, AuditRevoke
          DEF Next, RevokeStep

(* log_audit: whatever is dropped at MAX_AUDIT_LOG_ENTRIES, and although a *)
(* derive for an unlisted thread registers a child without logging it, the *)
(* last entry about a handle tells what the registry holds.                *)
THEOREM AuditLogIsFaithful == Spec => []AuditTailFaithful
  <1>1. Init => AuditInv
    BY DEF Init, AuditInv
  <1> QED BY <1>1, AuditNext, AuditInvSuffices, SpecInv, PTL DEF Spec


---------------------------------------------------------------------------
(* The refinement of CapabilityTree.  Membership is inherited along a      *)
(* forest: a number belongs if it is in base, or if it is in step and what *)
(* it points to, a smaller number, belongs.                                *)
Inherits(L, n, base, step, par) ==
  /\ L \subseteq 0..n
  /\ \A h \in 0..n : h \in L <=> (h \in base \/ (h \in step /\ par[h] \in L))

(* There is such a set: by induction on n.                                 *)
LEMMA InheritedExists ==
  ASSUME NEW n \in Nat, NEW base, NEW step, NEW par,
         \A h \in step : par[h] \in Nat /\ par[h] < h
  PROVE  \E L : Inherits(L, n, base, step, par)
  <1> DEFINE Bad == {k \in Nat : ~\E L : Inherits(L, k, base, step, par)}
  <1>1. SUFFICES ASSUME Bad # {} PROVE FALSE
    OBVIOUS
  <1>2. PICK k \in Bad : \A j \in Bad : k <= j
    <2> HIDE DEF Bad
    <2>1. Bad \subseteq Nat
      BY DEF Bad
    <2> QED BY <1>1, <2>1, LeastNumber
  <1>3. k \in Nat /\ ~\E L : Inherits(L, k, base, step, par)
    OBVIOUS
  <1>4. CASE k = 0
    <2>1. Inherits(base \cap {0}, 0, base, step, par)
      BY DEF Inherits
    <2> QED BY <1>3, <1>4, <2>1
  <1>5. CASE k # 0
    <2>1. k - 1 \in Nat /\ k - 1 \notin Bad
      BY <1>2, <1>3, <1>5
    <2>2. PICK L : Inherits(L, k - 1, base, step, par)
      BY <2>1
    <2> HIDE DEF Bad
    <2> DEFINE new == IF k \in base \/ (k \in step /\ par[k] \in L) THEN {k} ELSE {}
               M == L \cup new
    <2>3. L \subseteq 0..(k - 1) /\ k \notin L /\ new \subseteq {k}
      BY <2>2, <1>3, <1>5 DEF Inherits
    <2>4. M \subseteq 0..k /\ \A j \in 0..(k - 1) : j \in M <=> j \in L
      BY <2>3, <1>3, <1>5
    <2>5. k \in M <=> (k \in base \/ (k \in step /\ par[k] \in L))
      BY <2>3
    <2> HIDE DEF M, new
    <2>6. \A h \in 0..k : h \in step => (par[h] \in M <=> par[h] \in L)
      BY <2>4, <1>3
    <2>7. ASSUME NEW h \in 0..k
          PROVE  h \in M <=> (h \in base \/ (h \in step /\ par[h] \in M))
      <3>1. CASE h = k
        BY <3>1, <2>5, <2>6
      <3>2. CASE h \in 0..(k - 1)
        BY <3>2, <2>2, <2>4, <2>6 DEF Inherits
      <3> QED BY <3>1, <3>2, <1>3
    <2>8. Inherits(M, k, base, step, par)
      BY <2>4, <2>7 DEF Inherits
    <2> QED BY <2>8, <1>3
  <1> QED BY <1>4, <1>5

(* Two such sets agree: they could first differ nowhere.                   *)
LEMMA InheritedUnique ==
  ASSUME NEW n \in Nat, NEW base, NEW step, NEW par,
         \A h \in step : par[h] \in Nat /\ par[h] < h,
         NEW L, Inherits(L, n, base, step, par),
         NEW M, Inherits(M, n, base, step, par)
  PROVE  L = M
  <1> DEFINE Bad == {h \in 0..n : ~(h \in L <=> h \in M)}
  <1>1. SUFFICES ASSUME Bad # {} PROVE FALSE
    BY Zenon DEF Inherits
  <1>2. PICK k \in Bad : \A j \in Bad : k <= j
    <2> HIDE DEF Bad
    <2>1. Bad \subseteq Nat
      BY DEF Bad
    <2> QED BY <1>1, <2>1, LeastNumber
  <1>3. k \in 0..n /\ ~(k \in L <=> k \in M)
    OBVIOUS
  <1>4. k \in step => (par[k] \in L <=> par[k] \in M)
    BY <1>2, <1>3
  <1> QED BY <1>3, <1>4 DEF Inherits


(* What LiveHandles computes: the registered handles that are not waiting  *)
(* for revoke, and whose parent, if they have one, is live.                *)
IsLive(L, caps, stack) ==
  /\ L \subseteq DOMAIN caps
  /\ \A h \in DOMAIN caps :
       h \in L <=> /\ h \notin Range(stack)
                   /\ caps[h].parent # None => caps[h].parent \in L

OlderParents(caps, n) ==
  \A h \in DOMAIN caps : h \in 1..n /\ caps[h].parent \in Nat /\ caps[h].parent < h

LEMMA ParentsAreOlder == Inv => OlderParents(global_caps, next_handle - 1) /\ next_handle - 1 \in Nat
  BY SMTT(60) DEF Inv, TypeOK, IsTable, Capability, Forest, WellLinked, OlderParents

(* IsLive as inheritance along the forest.                                 *)
Rooted(caps, stack) == {h \in DOMAIN caps : h \notin Range(stack) /\ caps[h].parent = None}
Hanging(caps, stack) == {h \in DOMAIN caps : h \notin Range(stack) /\ caps[h].parent # None}
ParentOf(caps) == [h \in DOMAIN caps |-> caps[h].parent]

LEMMA LiveInherits ==
  ASSUME NEW caps, NEW stack, NEW n \in Nat, OlderParents(caps, n), NEW L
  PROVE  /\ IsLive(L, caps, stack) <=>
              Inherits(L, n, Rooted(caps, stack), Hanging(caps, stack), ParentOf(caps))
         /\ \A h \in Hanging(caps, stack) : ParentOf(caps)[h] \in Nat /\ ParentOf(caps)[h] < h
  <1>1. \A h \in Hanging(caps, stack) : ParentOf(caps)[h] \in Nat /\ ParentOf(caps)[h] < h
    BY DEF OlderParents, Hanging, ParentOf
  <1>2. ASSUME IsLive(L, caps, stack)
        PROVE  Inherits(L, n, Rooted(caps, stack), Hanging(caps, stack), ParentOf(caps))
    <2>1. L \subseteq 0..n
      BY <1>2 DEF IsLive, OlderParents
    <2>2. ASSUME NEW h \in 0..n
          PROVE  h \in L <=> \/ h \in Rooted(caps, stack)
                             \/ h \in Hanging(caps, stack) /\ ParentOf(caps)[h] \in L
      BY <1>2 DEF IsLive, Rooted, Hanging, ParentOf
    <2> QED BY <2>1, <2>2 DEF Inherits
  <1>3. ASSUME Inherits(L, n, Rooted(caps, stack), Hanging(caps, stack), ParentOf(caps))
        PROVE  IsLive(L, caps, stack)
    <2>1. \A h \in 0..n : h \in L <=> \/ h \in Rooted(caps, stack)
                                      \/ h \in Hanging(caps, stack) /\ ParentOf(caps)[h] \in L
      BY <1>3 DEF Inherits
    <2>2. L \subseteq DOMAIN caps
      BY <1>3, <2>1 DEF Inherits, Rooted, Hanging
    <2>3. \A h \in DOMAIN caps : h \in 0..n
      BY DEF OlderParents
    <2> QED BY <2>1, <2>2, <2>3, Zenon DEF IsLive, Rooted, Hanging, ParentOf
  <1> QED BY <1>1, <1>2, <1>3

LEMMA LiveUnique ==
  ASSUME NEW caps, NEW stack, NEW n \in Nat, OlderParents(caps, n),
         NEW L, IsLive(L, caps, stack), NEW M, IsLive(M, caps, stack)
  PROVE  L = M
  <1> DEFINE base == Rooted(caps, stack)
             step == Hanging(caps, stack)
             par == ParentOf(caps)
  <1>1. /\ Inherits(L, n, base, step, par) /\ Inherits(M, n, base, step, par)
        /\ \A h \in step : par[h] \in Nat /\ par[h] < h
    BY LiveInherits
  <1> HIDE DEF base, step, par
  <1> QED BY <1>1, InheritedUnique

LEMMA LiveIs == Inv => IsLive(LiveHandles, global_caps, revoke_stack)
  <1> SUFFICES ASSUME Inv PROVE IsLive(LiveHandles, global_caps, revoke_stack)
    OBVIOUS
  <1> DEFINE n == next_handle - 1
             live[h \in 1..n] ==
               /\ h \in DOMAIN global_caps
               /\ h \notin Range(revoke_stack)
               /\ global_caps[h].parent # None => live[global_caps[h].parent]
  <1>1. OlderParents(global_caps, n) /\ n \in Nat
    BY ParentsAreOlder
  <1>2. PICK L : IsLive(L, global_caps, revoke_stack)
    BY <1>1, LiveInherits, InheritedExists, Zenon
  <1>3. \E g : g = [h \in 1..n |->
               /\ h \in DOMAIN global_caps
               /\ h \notin Range(revoke_stack)
               /\ global_caps[h].parent # None => g[global_caps[h].parent]]
    <2> DEFINE g == [h \in 1..n |-> h \in L]
    <2>1. \A h \in DOMAIN global_caps : global_caps[h].parent # None =>
            (g[global_caps[h].parent] <=> global_caps[h].parent \in L)
      <3>1. \A h \in DOMAIN global_caps : global_caps[h].parent # None =>
              global_caps[h].parent \in 1..n
        BY <1>1 DEF OlderParents, None
      <3> QED BY <3>1, Zenon
    <2>2. \A h \in 1..n : h \in L <=>
               /\ h \in DOMAIN global_caps
               /\ h \notin Range(revoke_stack)
               /\ global_caps[h].parent # None => g[global_caps[h].parent]
      BY <1>2, <2>1, Zenon DEF IsLive
    <2>3. g = [h \in 1..n |->
               /\ h \in DOMAIN global_caps
               /\ h \notin Range(revoke_stack)
               /\ global_caps[h].parent # None => g[global_caps[h].parent]]
      <3> DEFINE body(h) ==
                   /\ h \in DOMAIN global_caps
                   /\ h \notin Range(revoke_stack)
                   /\ global_caps[h].parent # None => g[global_caps[h].parent]
      <3>1. ASSUME NEW h \in 1..n PROVE (h \in L) = body(h)
        <4> HIDE DEF g
        <4> DEFINE inherited == global_caps[h].parent # None => g[global_caps[h].parent]
        <4>1. h \in L <=> h \in DOMAIN global_caps /\ h \notin Range(revoke_stack) /\ inherited
          BY <2>2, Zenon
        <4>2. body(h) = (h \in DOMAIN global_caps /\ h \notin Range(revoke_stack) /\ inherited)
          BY Zenon
        <4> HIDE DEF inherited, body
        <4> QED BY <4>1, <4>2
      <3> HIDE DEF body
      <3>2. g = [h \in 1..n |-> body(h)]
        BY <3>1
      <3> QED BY <3>2, Zenon DEF body
    <2> QED BY <2>3, Zenon
  <1>4. live = [h \in 1..n |->
               /\ h \in DOMAIN global_caps
               /\ h \notin Range(revoke_stack)
               /\ global_caps[h].parent # None => live[global_caps[h].parent]]
    BY <1>3, Zenon
  <1>5. LiveHandles = {h \in DOMAIN global_caps : live[h]}
    BY Zenon DEF LiveHandles
  <1> HIDE DEF live
  <1>6. \A h \in 1..n : live[h] <=>
               /\ h \in DOMAIN global_caps
               /\ h \notin Range(revoke_stack)
               /\ global_caps[h].parent # None => live[global_caps[h].parent]
    BY <1>4, Zenon
  <1>7. \A h \in DOMAIN global_caps : global_caps[h].parent # None =>
               (live[global_caps[h].parent] <=> global_caps[h].parent \in LiveHandles)
    BY <1>1, <1>5, <1>6 DEF OlderParents, None
  <1> QED BY <1>1, <1>5, <1>6, <1>7 DEF IsLive, OlderParents


(* Between syscalls everything registered is live: no parent is missing.   *)
LEMMA IdleLive == Inv /\ Idle => LiveHandles = DOMAIN global_caps
  <1> SUFFICES ASSUME Inv, Idle PROVE LiveHandles = DOMAIN global_caps
    OBVIOUS
  <1>1. OlderParents(global_caps, next_handle - 1) /\ next_handle - 1 \in Nat
    BY ParentsAreOlder
  <1>2. Range(revoke_stack) = {}
    BY DEF Idle, Range
  <1>3. IsLive(DOMAIN global_caps, global_caps, revoke_stack)
    BY <1>2 DEF IsLive, Inv, NoOrphanMissed
  <1> QED BY <1>1, <1>3, LiveIs, LiveUnique

(* A call of revoke changes nothing that is still live.                    *)
LEMMA RevokeStepLive ==
  ASSUME Inv, Inv', RevokeStep
  PROVE  /\ LiveHandles' = LiveHandles /\ next_handle' = next_handle
         /\ \A h \in LiveHandles : global_caps'[h] = global_caps[h]
  <1> DEFINE hd == Head(revoke_stack)
             L == LiveHandles
  <1>1. IsLive(L, global_caps, revoke_stack)
    BY LiveIs
  <1>2. IsLive(LiveHandles, global_caps, revoke_stack)'
    BY LiveIs, PTL
  <1>3. (OlderParents(global_caps, next_handle - 1) /\ next_handle - 1 \in Nat)'
    BY ParentsAreOlder, PTL
  <1> HIDE DEF L
  <1>4. /\ revoke_stack \in Seq(Nat) /\ revoke_stack # <<>>
        /\ Tail(revoke_stack) \in Seq(Nat)
    <2>1. ~Idle /\ revoke_stack \in Seq(Nat)
      BY Zenon DEF RevokeStep, RevokeRegistered, RevokeMissing, Inv, TypeOK
    <2> QED BY <2>1 DEF Idle
  <1>5. Range(revoke_stack) = {hd} \cup Range(Tail(revoke_stack))
    <2>1. revoke_stack = <<hd>> \o Tail(revoke_stack) /\ <<hd>> \in Seq(Nat)
      BY <1>4
    <2>2. Range(<<hd>>) = {hd}
      BY DEF Range
    <2> HIDE DEF hd
    <2> QED BY <1>4, <2>1, <2>2, RangeConcat, Zenon
  <1>6. CASE RevokeRegistered
    <2> DEFINE kids == global_caps[hd].children
    <2>1. /\ hd \in DOMAIN global_caps
          /\ next_handle' = next_handle
          /\ DOMAIN global_caps' = DOMAIN global_caps \ {hd}
          /\ \A h \in DOMAIN global_caps' : global_caps'[h] = global_caps[h]
          /\ revoke_stack' = kids \o Tail(revoke_stack)
      BY <1>6, RevokeEffect, Zenon
    <2>2. kids \in Seq(Nat) /\ hd # None
      <3>1. global_caps[hd] \in Capability /\ hd \in 1..(next_handle - 1)
        BY <2>1, Zenon DEF Inv, TypeOK, IsTable
      <3> QED BY <3>1 DEF Capability, None
    <2>3. Range(revoke_stack') = Range(kids) \cup Range(Tail(revoke_stack))
      BY <1>4, <2>1, <2>2, RangeConcat, ZenonT(40)
    <2>4. \A h \in DOMAIN global_caps : h \in Range(kids) <=> global_caps[h].parent = hd
      BY <2>1, Zenon DEF Inv, Forest, WellLinked
    <2> HIDE DEF kids, hd
    <2>5. hd \notin L
      BY <1>1, <1>5, <2>1 DEF IsLive
    <2>6. IsLive(L, global_caps', revoke_stack')
      <3>1. L \subseteq DOMAIN global_caps'
        BY <1>1, <2>1, <2>5 DEF IsLive
      <3>2. ASSUME NEW h \in DOMAIN global_caps'
            PROVE  h \in L <=> /\ h \notin Range(revoke_stack')
                               /\ global_caps'[h].parent # None => global_caps'[h].parent \in L
        <4>1. h \in DOMAIN global_caps /\ h # hd /\ global_caps'[h] = global_caps[h]
          BY <2>1
        <4>2. h \in L <=> /\ h \notin Range(revoke_stack)
                          /\ global_caps[h].parent # None => global_caps[h].parent \in L
          BY <1>1, <4>1 DEF IsLive
        <4>3. h \in Range(kids) => global_caps[h].parent # None /\ global_caps[h].parent \notin L
          BY <2>2, <2>4, <2>5, <4>1
        <4> QED BY <1>5, <2>3, <4>1, <4>2, <4>3, Zenon
      <3> QED BY <3>1, <3>2 DEF IsLive
    <2>7. LiveHandles' = L
      BY <1>2, <1>3, <2>6, LiveUnique
    <2> QED BY <1>1, <2>1, <2>5, <2>7 DEF L, IsLive
  <1>7. CASE RevokeMissing
    <2>1. /\ hd \notin DOMAIN global_caps
          /\ UNCHANGED <<next_handle, global_caps>>
          /\ revoke_stack' = Tail(revoke_stack)
      BY <1>7 DEF RevokeMissing
    <2> HIDE DEF hd
    <2>2. IsLive(L, global_caps', revoke_stack')
      BY <1>1, <1>5, <2>1 DEF IsLive
    <2>3. LiveHandles' = L
      BY <1>2, <1>3, <2>2, LiveUnique
    <2> QED BY <2>1, <2>3 DEF L
  <1> QED BY <1>6, <1>7 DEF RevokeStep

(* A handle belongs to the subtree of handle if it is handle, or if its    *)
(* parent does.                                                            *)
IsBelow(D, handle, caps) ==
  \A h \in DOMAIN caps : h \in D <=> (h = handle \/ caps[h].parent \in D)

LiveMap == [h \in LiveHandles |-> LiveView(global_caps[h])]

(* What CapabilityTree's AtOrBelow computes, between syscalls.             *)
LEMMA AtOrBelowIs ==
  ASSUME Inv, Idle, NEW handle \in DOMAIN global_caps
  PROVE  /\ Tree!AtOrBelow(handle) \subseteq DOMAIN global_caps
         /\ IsBelow(Tree!AtOrBelow(handle), handle, global_caps)
  <1> DEFINE n == next_handle - 1
             live == LiveMap
             below[h \in 0..n] ==
               h = handle \/ (h \in DOMAIN live /\ live[h].parent < h /\ below[live[h].parent])
             par == ParentOf(global_caps)
             Reg == DOMAIN global_caps
  <1>1. OlderParents(global_caps, n) /\ n \in Nat
    BY ParentsAreOlder
  <1>2. DOMAIN live = Reg
    BY IdleLive DEF LiveMap
  <1>3. \A h \in Reg : live[h].parent = par[h] /\ par[h] = global_caps[h].parent
    BY <1>2 DEF LiveMap, LiveView, ParentOf
  <1>4. \A h \in Reg : h \in 1..n /\ par[h] \in Nat /\ par[h] < h /\ par[h] \in 0..n
    BY <1>1, <1>3 DEF OlderParents
  <1>5. Tree!AtOrBelow(handle) = {h \in DOMAIN live : below[h]}
    BY DEF Tree!AtOrBelow, LiveMap
  <1> HIDE DEF live, par, n
  <1>6. PICK L : Inherits(L, n, {handle}, Reg, par)
    BY <1>1, <1>4, InheritedExists
  <1>7. \E g : g = [h \in 0..n |->
               h = handle \/ (h \in DOMAIN live /\ live[h].parent < h /\ g[live[h].parent])]
    <2> DEFINE g == [h \in 0..n |-> h \in L]
    <2>1. \A h \in Reg : g[par[h]] <=> par[h] \in L
      BY <1>4, Zenon
    <2>2. \A h \in 0..n : h \in L <=>
               (h = handle \/ (h \in DOMAIN live /\ live[h].parent < h /\ g[live[h].parent]))
      <3> HIDE DEF g
      <3> QED BY <1>2, <1>3, <1>4, <1>6, <2>1, Zenon DEF Inherits
    <2>3. g = [h \in 0..n |->
               h = handle \/ (h \in DOMAIN live /\ live[h].parent < h /\ g[live[h].parent])]
      <3> DEFINE body(h) ==
                   h = handle \/ (h \in DOMAIN live /\ live[h].parent < h /\ g[live[h].parent])
      <3>1. \A h \in 0..n : (h \in L) = body(h)
        <4> HIDE DEF g
        <4> QED BY <2>2
      <3> HIDE DEF body
      <3>2. g = [h \in 0..n |-> body(h)]
        BY <3>1
      <3> QED BY <3>2, Zenon DEF body
    <2> QED BY <2>3, Zenon
  <1>8. below = [h \in 0..n |->
               h = handle \/ (h \in DOMAIN live /\ live[h].parent < h /\ below[live[h].parent])]
    BY <1>7, Zenon
  <1> HIDE DEF below
  <1>9. \A h \in 0..n : below[h] <=>
               (h = handle \/ (h \in DOMAIN live /\ live[h].parent < h /\ below[live[h].parent]))
    BY <1>8, Zenon
  <1> DEFINE D == Tree!AtOrBelow(handle)
  <1>10. \A h \in Reg : h \in D <=> below[h]
    BY <1>2, <1>5
  <1>11. \A h \in Reg : below[h] <=> (h = handle \/ below[par[h]])
    BY <1>2, <1>3, <1>4, <1>9, SMTT(30)
  <1>12. \A h \in Reg : below[par[h]] <=> par[h] \in D
    <2>1. \A k \in 0..n : below[k] => k \in Reg
      BY <1>2, <1>9, SMTT(30)
    <2>2. \A k : k \in D => k \in Reg /\ below[k]
      BY <1>2, <1>5
    <2> HIDE DEF D
    <2> QED BY <1>4, <1>10, <2>1, <2>2
  <1>13. D \subseteq Reg
    BY <1>2, <1>5
  <1> HIDE DEF D
  <1>14. IsBelow(D, handle, global_caps)
    BY <1>3, <1>10, <1>11, <1>12, SMTT(30) DEF IsBelow
  <1> QED BY <1>13, <1>14 DEF D


(* The abstract variables, as the implementation computes them.            *)
Issued == next_handle - 1

LEMMA IdleMap ==
  Inv /\ Idle => LiveMap = [h \in DOMAIN global_caps |-> LiveView(global_caps[h])]
  BY IdleLive DEF LiveMap

(* Registering a capability, with the views of the others unchanged, is    *)
(* CapabilityTree's Issue.                                                 *)
LEMMA IssueStep ==
  ASSUME Inv, Inv', Idle, Idle', NEW cap, next_handle' = next_handle + 1,
         DOMAIN global_caps' = DOMAIN global_caps \cup {next_handle},
         next_handle \notin DOMAIN global_caps,
         LiveView(global_caps'[next_handle]) = cap,
         \A h \in DOMAIN global_caps : SameView(global_caps'[h], global_caps[h])
  PROVE  Tree!Issue(cap)
  <1>1. next_handle \in Nat
    BY DEF Inv, TypeOK
  <1>2. Issued' = Issued + 1 /\ Issued + 1 = next_handle
    BY <1>1 DEF Issued
  <1>3. LiveMap = [h \in DOMAIN global_caps |-> LiveView(global_caps[h])]
    BY IdleMap
  <1>4. (LiveMap = [h \in DOMAIN global_caps |-> LiveView(global_caps[h])])'
    BY IdleMap, PTL
  <1>5. \A h \in DOMAIN global_caps : LiveView(global_caps'[h]) = LiveView(global_caps[h])
    BY Zenon DEF SameView, LiveView
  <1>6. LiveMap' = [h \in DOMAIN LiveMap \cup {Issued + 1} |->
                      IF h = Issued + 1 THEN cap ELSE LiveMap[h]]
    BY <1>2, <1>3, <1>4, <1>5, Zenon
  <1> QED BY ONLY <1>2, <1>6 DEF Tree!Issue, LiveMap, Issued

LEMMA CreateRefines ==
  ASSUME Inv, Inv', NEW caller, NEW resource, NEW permissions,
         sys_cap_create(caller, resource, permissions)
  PROVE  Tree!CreateRoot(caller, resource, permissions)
  <1> DEFINE cap == NewCapability(next_handle, resource, permissions, caller, None)
             view == [resource |-> resource, permissions |-> permissions,
                      owner |-> caller, parent |-> None]
  <1>1. /\ Idle /\ UNCHANGED revoke_stack /\ next_handle' = next_handle + 1
        /\ DOMAIN global_caps' = DOMAIN global_caps \cup {next_handle}
        /\ next_handle \notin DOMAIN global_caps
        /\ global_caps'[next_handle] = cap
        /\ \A h \in DOMAIN global_caps : global_caps'[h] = global_caps[h]
    BY CreateEffect, Zenon
  <1>2. LiveView(cap) = view
    BY DEF LiveView, NewCapability
  <1> HIDE DEF cap, view
  <1>3. Idle' /\ LiveView(global_caps'[next_handle]) = view
    BY <1>1, <1>2, SMTT(30) DEF Idle
  <1>4. \A h \in DOMAIN global_caps : SameView(global_caps'[h], global_caps[h])
    BY <1>1 DEF SameView
  <1>5. Tree!Issue(view)
    BY <1>1, <1>3, <1>4, IssueStep, Zenon
  <1> QED BY <1>5 DEF view, Tree!CreateRoot, Tree!Root, None

LEMMA DeriveRefines ==
  ASSUME Inv, Inv', NEW caller, NEW parent, NEW new_owner, NEW permissions,
         sys_cap_derive(caller, parent, new_owner, permissions)
  PROVE  parent \in DOMAIN LiveMap /\ Tree!Derive(parent, new_owner, permissions)
  <1> DEFINE resource == global_caps[parent].resource
             cap == NewCapability(next_handle, resource, permissions, new_owner, parent)
             view == [resource |-> resource, permissions |-> permissions,
                      owner |-> new_owner, parent |-> parent]
  <1>1. /\ Idle /\ UNCHANGED revoke_stack /\ next_handle' = next_handle + 1
        /\ parent \in DOMAIN global_caps /\ can_derive(caller, parent, permissions)
        /\ DOMAIN global_caps' = DOMAIN global_caps \cup {next_handle}
        /\ next_handle \notin DOMAIN global_caps
        /\ global_caps'[next_handle] = cap
        /\ \A h \in DOMAIN global_caps : SameView(global_caps'[h], global_caps[h])
    BY DeriveEffect
  <1>2. LiveView(cap) = view
    BY SMTT(90) DEF LiveView, NewCapability
  <1> HIDE DEF cap
  <1>3. parent \in DOMAIN LiveMap /\ LiveMap[parent] = LiveView(global_caps[parent])
    BY <1>1, IdleMap
  <1>4. /\ LiveMap[parent].resource = resource
        /\ "GRANT" \in LiveMap[parent].permissions
        /\ permissions \subseteq LiveMap[parent].permissions
    <2>1. /\ "GRANT" \in global_caps[parent].permissions
          /\ permissions \subseteq global_caps[parent].permissions
      BY <1>1, Zenon DEF can_derive
    <2>2. /\ LiveView(global_caps[parent]).resource = global_caps[parent].resource
          /\ LiveView(global_caps[parent]).permissions = global_caps[parent].permissions
      BY Zenon DEF LiveView
    <2> QED BY <1>3, <2>1, <2>2, Zenon
  <1> HIDE DEF view, resource
  <1>5. Idle' /\ LiveView(global_caps'[next_handle]) = view
    BY <1>1, <1>2 DEF Idle
  <1>6. Tree!Issue(view)
    BY <1>1, <1>5, IssueStep
  <1>7. Tree!Issue([resource |-> LiveMap[parent].resource, permissions |-> permissions,
                    owner |-> new_owner, parent |-> parent])
    BY ONLY <1>4, <1>6, SMTT(90) DEF view
  <1> QED BY <1>3, <1>4, <1>7, Zenon DEF Tree!Derive, LiveMap

LEMMA TransferRefines ==
  ASSUME Inv, Inv', NEW caller \in Threads, NEW handle \in DOMAIN tables[caller],
         NEW target, sys_cap_transfer(caller, handle, target)
  PROVE  handle \in DOMAIN LiveMap /\ Tree!Transfer(handle, target)
  <1>1. /\ Idle /\ UNCHANGED <<revoke_stack, next_handle>>
        /\ handle \in DOMAIN global_caps /\ "GRANT" \in global_caps[handle].permissions
        /\ DOMAIN global_caps' = DOMAIN global_caps
        /\ \A h \in DOMAIN global_caps : h # handle => global_caps'[h] = global_caps[h]
        /\ global_caps'[handle].resource = global_caps[handle].resource
        /\ global_caps'[handle].permissions = global_caps[handle].permissions
        /\ global_caps'[handle].parent = global_caps[handle].parent
        /\ global_caps'[handle].owner = target
    BY TransferEffect, ZenonT(120)
  <1>2. LiveMap = [h \in DOMAIN global_caps |-> LiveView(global_caps[h])]
    BY <1>1, IdleMap, Zenon
  <1>3. Idle'
    BY <1>1 DEF Idle
  <1>4. (LiveMap = [h \in DOMAIN global_caps |-> LiveView(global_caps[h])])'
    BY <1>3, IdleMap, PTL
  <1>5. LiveView(global_caps'[handle]) = [LiveView(global_caps[handle]) EXCEPT !.owner = target]
    BY <1>1 DEF LiveView
  <1>6. LiveMap' = [LiveMap EXCEPT ![handle].owner = target]
    BY <1>1, <1>2, <1>4, <1>5
  <1>7. handle \in DOMAIN LiveMap /\ "GRANT" \in LiveMap[handle].permissions
    BY <1>1, <1>2, Zenon DEF LiveView
  <1> QED BY <1>1, <1>6, <1>7, SMTT(30) DEF Tree!Transfer, LiveMap

(* sys_cap_revoke dooms exactly the subtree.                               *)
LEMMA RevokeRefines ==
  ASSUME Inv, Inv', NEW caller, NEW handle, sys_cap_revoke(caller, handle)
  PROVE  handle \in DOMAIN LiveMap /\ Tree!Revoke(handle)
  <1> DEFINE D == Tree!AtOrBelow(handle)
             Reg == DOMAIN global_caps
  <1>1. /\ Idle /\ handle \in Reg /\ revoke_stack' = <<handle>>
        /\ UNCHANGED <<global_caps, next_handle>>
    BY DEF sys_cap_revoke
  <1>2. D \subseteq Reg /\ IsBelow(D, handle, global_caps)
    BY <1>1, AtOrBelowIs
  <1> HIDE DEF D
  <1>3. Range(<<handle>>) = {handle}
    BY DEF Range
  <1>4. OlderParents(global_caps, next_handle - 1) /\ next_handle - 1 \in Nat
    BY ParentsAreOlder
  <1>5. \A h \in Reg : global_caps[h].parent = None \/ global_caps[h].parent \in Reg
    BY <1>1 DEF Idle, Range, Inv, NoOrphanMissed
  <1>6. None \notin Reg
    BY <1>4 DEF OlderParents, None
  <1>7. IsLive(Reg \ D, global_caps, <<handle>>)
    BY <1>2, <1>3, <1>5, <1>6 DEF IsLive, IsBelow
  <1>8. IsLive(LiveHandles, global_caps, revoke_stack)'
    BY LiveIs, PTL
  <1>9. LiveHandles' = Reg \ D
    BY <1>1, <1>4, <1>7, <1>8, LiveUnique
  <1>10. LiveMap = [h \in Reg |-> LiveView(global_caps[h])]
    BY <1>1, IdleMap
  <1>11. LiveMap' = [h \in DOMAIN LiveMap \ D |-> LiveMap[h]]
    BY <1>1, <1>9, <1>10 DEF LiveMap
  <1> QED BY <1>1, <1>10, <1>11 DEF Tree!Revoke, D, LiveMap


(* Every listed thread has an id the model can name.                       *)
ThreadBound == next_tid <= MaxThread + 1

LEMMA ThreadBoundHolds == Spec => []ThreadBound
  <1>1. Init => ThreadBound
    BY ConstantsAssumption DEF Init, ThreadBound
  <1>2. Inv /\ ThreadBound /\ [Next]_vars => ThreadBound'
    <2> SUFFICES ASSUME Inv, ThreadBound, [Next]_vars PROVE ThreadBound'
      OBVIOUS
    <2>1. next_tid \in Nat /\ MaxThread \in Nat
      BY ConstantsAssumption DEF Inv, TypeOK
    <2>2. UNCHANGED next_tid \/ (next_tid <= MaxThread /\ next_tid' = next_tid + 1)
      <3>1. ASSUME NEW caller, sys_thread_create(caller)
            PROVE  next_tid <= MaxThread /\ next_tid' = next_tid + 1
        BY <3>1, SMTT(30) DEF sys_thread_create
      <3>2. ASSUME NEW caller, NEW resource, NEW permissions,
                   sys_cap_create(caller, resource, permissions)
            PROVE  UNCHANGED next_tid
        BY <3>2, SMTT(30) DEF sys_cap_create
      <3>3. ASSUME NEW caller, NEW parent, NEW new_owner, NEW permissions,
                   sys_cap_derive(caller, parent, new_owner, permissions)
            PROVE  UNCHANGED next_tid
        BY <3>3, Zenon DEF sys_cap_derive
      <3>4. ASSUME NEW caller, NEW handle, NEW target, sys_cap_transfer(caller, handle, target)
            PROVE  UNCHANGED next_tid
        BY <3>4 DEF sys_cap_transfer
      <3>5. ASSUME NEW caller, NEW handle, sys_cap_revoke(caller, handle)
            PROVE  UNCHANGED next_tid
        BY <3>5 DEF sys_cap_revoke
      <3>6. CASE RevokeStep
        BY <3>6, Zenon DEF RevokeStep, RevokeRegistered, RevokeMissing
      <3>7. CASE UNCHANGED vars
        BY <3>7 DEF vars
      <3> QED BY <3>1, <3>2, <3>3, <3>4, <3>5, <3>6, <3>7 DEF Next
    <2> QED BY <2>1, <2>2 DEF ThreadBound
  <1> QED BY <1>1, <1>2, SpecInv, PTL DEF Spec

(* A step that leaves the live handles and their views alone stutters.     *)
LEMMA TreeStutters ==
  ASSUME LiveHandles' = LiveHandles, next_handle' = next_handle,
         \A h \in LiveHandles : global_caps'[h] = global_caps[h]
  PROVE  UNCHANGED Tree!treeVars
  <1>1. LiveMap' = LiveMap
    BY DEF LiveMap
  <1> QED BY <1>1 DEF Tree!treeVars, LiveMap

LEMMA TreeStep ==
  Inv /\ Inv' /\ ThreadBound /\ [Next]_vars => [Tree!Next]_Tree!treeVars
  <1> SUFFICES ASSUME Inv, Inv', ThreadBound, [Next]_vars
               PROVE  Tree!Next \/ UNCHANGED Tree!treeVars
    OBVIOUS
  <1>1. Threads \subseteq Thread
    <2>1. Threads = 1..(next_tid - 1) /\ next_tid \in Nat /\ MaxThread \in Nat
      BY ConstantsAssumption DEF Inv, TypeOK
    <2>2. \A t \in 1..(next_tid - 1) : t \in 1..MaxThread
      BY <2>1 DEF ThreadBound
    <2> QED BY <2>1, <2>2 DEF Thread
  <1>2. ASSUME NEW caller \in Threads, sys_thread_create(caller)
        PROVE  UNCHANGED Tree!treeVars
    <2>1. UNCHANGED <<next_handle, global_caps, revoke_stack>>
      BY <1>2 DEF sys_thread_create, revokeVars
    <2> QED BY <2>1, TreeStutters DEF LiveHandles
  <1>3. ASSUME NEW caller \in Threads, NEW resource \in Resource, NEW permissions \in Mask,
               sys_cap_create(caller, resource, permissions)
        PROVE  Tree!Next
    BY <1>1, <1>3, CreateRefines, SMTT(30) DEF Tree!Next
  <1>4. ASSUME NEW caller \in Threads, NEW parent \in DOMAIN tables[caller],
               NEW new_owner \in Thread, NEW permissions \in Mask,
               sys_cap_derive(caller, parent, new_owner, permissions)
        PROVE  Tree!Next
    BY <1>4, DeriveRefines, Zenon DEF Tree!Next, LiveMap
  <1>5. ASSUME NEW caller \in Threads, NEW handle \in DOMAIN tables[caller],
               NEW target \in Thread, sys_cap_transfer(caller, handle, target)
        PROVE  Tree!Next
    BY <1>5, TransferRefines, Zenon DEF Tree!Next, LiveMap
  <1>6. ASSUME NEW caller \in Threads, NEW handle \in DOMAIN global_caps,
               sys_cap_revoke(caller, handle)
        PROVE  Tree!Next
    BY <1>6, RevokeRefines DEF Tree!Next, LiveMap
  <1>7. CASE RevokeStep
    BY <1>7, RevokeStepLive, TreeStutters
  <1>8. CASE UNCHANGED vars
    <2>1. UNCHANGED <<next_handle, global_caps, revoke_stack>>
      BY <1>8 DEF vars
    <2> QED BY <2>1, TreeStutters DEF LiveHandles
  <1> QED BY <1>2, <1>3, <1>4, <1>5, <1>6, <1>7, <1>8 DEF Next

(* cap.rs implements the forest of CapabilityTree: what is registered,     *)
(* derived, transferred and revoked, with a revoke taking exactly the      *)
(* subtree at the moment of the call, however the recursion then visits    *)
(* the lists of children.                                                  *)
THEOREM ImplementsCapabilityTree == Spec => ImplementsTree
  <1>1. Init => Tree!Init
    <2> SUFFICES ASSUME Init PROVE Tree!Init
      OBVIOUS
    <2>1. next_handle - 1 = 0 /\ DOMAIN global_caps = {}
      BY DEF Init, EmptyMap
    <2>2. LiveHandles = {}
      BY <2>1, InitInv, LiveIs DEF IsLive
    <2>3. LiveMap = [h \in {} |-> Tree!Root]
      BY <2>2 DEF LiveMap
    <2> QED BY <2>1, <2>3 DEF Tree!Init, LiveMap
  <1> QED BY <1>1, TreeStep, SpecInv, ThreadBoundHolds, PTL
          DEF Spec, ImplementsTree, Tree!Spec

===========================================================================
