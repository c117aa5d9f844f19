---------------------------- MODULE Capability ----------------------------
(***************************************************************************)
(* The capability subsystem of the Atom kernel: the global registry and    *)
(* audit log of kernel/src/cap.rs, the per-thread capability tables held   *)
(* in the thread list (kernel/src/thread.rs) and the syscalls that change  *)
(* them (kernel/src/syscall/mod.rs).                                       *)
(*                                                                         *)
(* No interrupt handler touches capabilities and none of these syscalls    *)
(* reschedules, so each is one step, except revocation.  The recursion of  *)
(* CapabilityManager::revoke is unfolded: revoke_stack holds the handles   *)
(* the pending calls still have to visit, in the order they visit them,    *)
(* and one RevokeStep is one call, up to its own recursive calls.          *)
(***************************************************************************)
EXTENDS Naturals, Sequences, Functions

CONSTANTS
  InitThreads,           \* number of threads in the thread list at boot
  MaxThread,             \* bound: highest thread id the model creates or names
  MaxHandle,             \* bound: highest capability handle allocated
  Resource,              \* resources, records with a "type" field
  Mask,                  \* permission masks callers pass, as sets of bits
  MAX_AUDIT_LOG_ENTRIES  \* cap.rs: 1000

Permission == {"READ", "WRITE", "EXECUTE", "GRANT", "REVOKE"}

ASSUME ConstantsAssumption ==
  /\ MaxThread \in Nat
  /\ InitThreads \in 1..MaxThread
  /\ MaxHandle \in Nat
  /\ Mask \subseteq SUBSET Permission
  /\ MAX_AUDIT_LOG_ENTRIES \in Nat \ {0}

VARIABLES
  next_handle,    \* CapHandle::NEXT_HANDLE
  global_caps,    \* CapabilityManager.global_caps: handle -> Capability
  audit_log,      \* CapabilityManager.audit_log, oldest entry first
  next_tid,       \* ThreadId::NEXT_ID
  tables,         \* THREAD_LIST: thread id -> the thread's capability_table;
                  \* no thread is ever taken off the list
  revoke_stack,   \* handles still to be visited by the revoke in progress
  revoked,        \* handles that revoke has removed so far
  revoker         \* the thread that called sys_cap_revoke, or None

vars == <<next_handle, global_caps, audit_log, next_tid, tables,
          revoke_stack, revoked, revoker>>

None == 0   \* Option::None; thread ids and handles are allocated from 1

EmptyMap == [k \in {} |-> None]

Thread == 1..MaxThread     \* the ids a caller may name, listed or not
Threads == DOMAIN tables   \* the ids of the listed threads

Capability == [handle : Nat, resource : Resource, permissions : SUBSET Permission,
               owner : Nat, parent : Nat, children : Seq(Nat)]

AuditEvent == {"Create", "Derive", "Transfer", "Revoke"}
AuditLogEntry == [event_type : AuditEvent, thread_id : Nat, cap_handle : Nat,
                  parent_handle : Nat, target_thread : Nat]

---------------------------------------------------------------------------
(* Maps keyed by handle: BTreeMap::insert and BTreeMap::remove.            *)
Insert(map, key, value) ==
  [k \in DOMAIN map \cup {key} |-> IF k = key THEN value ELSE map[k]]

Remove(map, key) == [k \in DOMAIN map \ {key} |-> map[k]]

NewCapability(handle, resource, permissions, owner, parent) ==
  [handle |-> handle, resource |-> resource, permissions |-> permissions,
   owner |-> owner, parent |-> parent, children |-> <<>>]

Entry(event, thread, handle, parent, target) ==
  [event_type |-> event, thread_id |-> thread, cap_handle |-> handle,
   parent_handle |-> parent, target_thread |-> target]

(* CapabilityManager::log_audit: at the limit the oldest entry goes.       *)
log_audit_DropsNewest(log, entry) ==
  IF Len(log) >= MAX_AUDIT_LOG_ENTRIES THEN log ELSE Append(log, entry)

log_audit(log, entry) ==
  Append(IF Len(log) >= MAX_AUDIT_LOG_ENTRIES THEN Tail(log) ELSE log, entry)

(* ThreadList::add_capability succeeds if the thread is listed and its     *)
(* table has no entry under that handle.                                   *)
CanAddCapability(tabs, thread, cap) ==
  /\ thread \in DOMAIN tabs
  /\ cap.handle \notin DOMAIN tabs[thread]

add_capability(tabs, thread, cap) ==
  IF CanAddCapability(tabs, thread, cap)
  THEN [tabs EXCEPT ![thread] = Insert(@, cap.handle, cap)]
  ELSE tabs

(* ThreadList::remove_capability; removing an absent entry changes nothing.*)
remove_capability(tabs, thread, handle) ==
  IF thread \in DOMAIN tabs
  THEN [tabs EXCEPT ![thread] = Remove(@, handle)]
  ELSE tabs

(* Capability::derive on the registered parent: its list of children grows.*)
link_child(caps, parent, handle) ==
  [caps EXCEPT ![parent].children = Append(@, handle)]

(* transfer_capability: the registered copy gets its new owner.            *)
set_owner_TableOnly(caps, handle, target) == caps

set_owner(caps, handle, target) ==
  IF handle \in DOMAIN caps THEN [caps EXCEPT ![handle].owner = target] ELSE caps

(* The checks of derive_capability and Capability::derive.                 *)
can_derive_AnyPermissions(caller, parent, permissions) ==
  /\ global_caps[parent].owner = caller
  /\ "GRANT" \in global_caps[parent].permissions

can_derive_WithoutGrant(caller, parent, permissions) ==
  /\ global_caps[parent].owner = caller
  /\ permissions \subseteq global_caps[parent].permissions

can_derive(caller, parent, permissions) ==
  /\ global_caps[parent].owner = caller
  /\ "GRANT" \in global_caps[parent].permissions
  /\ permissions \subseteq global_caps[parent].permissions

(* The list CapabilityManager::revoke takes from the entry it removed.     *)
children_to_visit_StaleCopy(handle) ==
  LET owner == global_caps[handle].owner IN
  IF owner \in Threads /\ handle \in DOMAIN tables[owner]
  THEN tables[owner][handle].children ELSE <<>>

children_to_visit(handle) == global_caps[handle].children

(* ThreadList::validate_capability_by_type.                                *)
validate_capability_by_type(thread, permission, type) ==
  \E h \in DOMAIN tables[thread] :
    /\ tables[thread][h].resource.type = type
    /\ permission \in tables[thread][h].permissions

---------------------------------------------------------------------------
Init ==
  /\ next_handle = 1
  /\ global_caps = EmptyMap
  /\ audit_log = <<>>
  /\ next_tid = InitThreads + 1
  /\ tables = [t \in 1..InitThreads |-> EmptyMap]
  /\ revoke_stack = <<>>
  /\ revoked = <<>>
  /\ revoker = None

(* No revoke is in progress: the kernel can take another syscall.          *)
Idle == revoke_stack = <<>>

revokeVars == <<revoke_stack, revoked, revoker>>

(* sys_thread_create, as far as it concerns capabilities: the caller needs *)
(* a Thread capability with WRITE; the new thread starts with no entry.    *)
sys_thread_create(caller) ==
  /\ Idle
  /\ next_tid <= MaxThread
  /\ validate_capability_by_type(caller, "WRITE", "Thread")
  /\ next_tid' = next_tid + 1
  /\ tables' = Insert(tables, next_tid, EmptyMap)
  /\ UNCHANGED <<next_handle, global_caps, audit_log, revokeVars>>

(* sys_cap_create: create_root_capability registers the new capability and *)
(* logs it, then the caller's table gets a copy.  sys_ipc_create_port does *)
(* the same with an IpcPort resource.                                      *)
sys_cap_create(caller, resource, permissions) ==
  LET cap == NewCapability(next_handle, resource, permissions, caller, None) IN
  /\ Idle
  /\ next_handle <= MaxHandle
  /\ next_handle' = next_handle + 1
  /\ global_caps' = Insert(global_caps, next_handle, cap)
  /\ audit_log' = log_audit(audit_log,
                            Entry("Create", caller, next_handle, None, None))
  /\ tables' = add_capability(tables, caller, cap)
  /\ UNCHANGED <<next_tid, revokeVars>>

(* derive_capability (sys_cap_derive).  The registered parent learns of the*)
(* child; the copy in the caller's table does not.  new_owner is not looked*)
(* up first: when it names no thread the call fails after the child has    *)
(* been registered, and before the event is logged.                        *)
sys_cap_derive(caller, parent, new_owner, permissions) ==
  LET child == NewCapability(next_handle, global_caps[parent].resource,
                             permissions, new_owner, parent) IN
  /\ Idle
  /\ next_handle <= MaxHandle
  /\ parent \in DOMAIN tables[caller]
  /\ parent \in DOMAIN global_caps
  /\ can_derive(caller, parent, permissions)
  /\ next_handle' = next_handle + 1
  /\ global_caps' =
       Insert(link_child(global_caps, parent, next_handle), next_handle, child)
  /\ tables' = add_capability(tables, new_owner, child)
  /\ audit_log' = IF CanAddCapability(tables, new_owner, child)
                  THEN log_audit(audit_log, Entry("Derive", caller, next_handle,
                                                  parent, None))
                  ELSE audit_log
  /\ UNCHANGED <<next_tid, revokeVars>>

(* transfer_capability (sys_cap_transfer).  The copy leaves the caller's   *)
(* table first and is put back when a check fails, so only the call that   *)
(* passes both checks changes anything.                                    *)
sys_cap_transfer(caller, handle, target) ==
  LET cap == [tables[caller][handle] EXCEPT !.owner = target]
      without == remove_capability(tables, caller, handle)
      added == CanAddCapability(without, target, cap) IN
  /\ Idle
  /\ target \in Threads
  /\ handle \in DOMAIN tables[caller]
  /\ tables[caller][handle].owner = caller
  /\ "GRANT" \in tables[caller][handle].permissions
  /\ tables' = add_capability(without, target, cap)
  /\ global_caps' = IF added THEN set_owner(global_caps, handle, target)
                    ELSE global_caps
  /\ audit_log' = IF added
                  THEN log_audit(audit_log, Entry("Transfer", caller, handle,
                                                  None, target))
                  ELSE audit_log
  /\ UNCHANGED <<next_handle, next_tid, revokeVars>>

(* sys_cap_revoke enters CapabilityManager::revoke for a registered handle;*)
(* for any other the call fails with NotFound.                             *)
sys_cap_revoke(caller, handle) ==
  /\ Idle
  /\ handle \in DOMAIN global_caps
  /\ revoke_stack' = <<handle>>
  /\ revoked' = <<>>
  /\ revoker' = caller
  /\ UNCHANGED <<next_handle, global_caps, audit_log, next_tid, tables>>

(* One call of CapabilityManager::revoke: the handle leaves the registry,  *)
(* then its owner's table, the event is logged, and the registered list of *)
(* children is visited before anything that was pending.  A handle that is *)
(* gone already returns NotFound, which the caller ignores.                *)
revokeReturns(done) ==   \* the locals of the call go with its last step
  /\ revoked' = IF revoke_stack' = <<>> THEN <<>> ELSE done
  /\ revoker' = IF revoke_stack' = <<>> THEN None ELSE revoker

RevokeRegistered ==
  LET handle == Head(revoke_stack) IN
  /\ ~Idle
  /\ handle \in DOMAIN global_caps
  /\ global_caps' = Remove(global_caps, handle)
  /\ tables' = remove_capability(tables, global_caps[handle].owner, handle)
  /\ audit_log' = log_audit(audit_log,
                            Entry("Revoke", revoker, handle, None, None))
  /\ revoke_stack' = children_to_visit(handle) \o Tail(revoke_stack)
  /\ revokeReturns(Append(revoked, handle))
  /\ UNCHANGED <<next_handle, next_tid>>

RevokeMissing_Retries ==
  /\ ~Idle
  /\ Head(revoke_stack) \notin DOMAIN global_caps
  /\ UNCHANGED vars

RevokeMissing ==
  /\ ~Idle
  /\ Head(revoke_stack) \notin DOMAIN global_caps
  /\ revoke_stack' = Tail(revoke_stack)
  /\ revokeReturns(revoked)
  /\ UNCHANGED <<next_handle, global_caps, audit_log, next_tid, tables>>

RevokeStep == RevokeRegistered \/ RevokeMissing

Next ==
  \/ \E caller \in Threads :
       \/ sys_thread_create(caller)
       \/ \E resource \in Resource, permissions \in Mask :
            sys_cap_create(caller, resource, permissions)
       \/ \E parent \in DOMAIN tables[caller], new_owner \in Thread,
             permissions \in Mask :
            sys_cap_derive(caller, parent, new_owner, permissions)
       \/ \E handle \in DOMAIN tables[caller], target \in Thread :
            sys_cap_transfer(caller, handle, target)
       \/ \E handle \in DOMAIN global_caps : sys_cap_revoke(caller, handle)
  \/ RevokeStep

Spec == Init /\ [][Next]_vars

(* The kernel runs a syscall it has entered to its end.                    *)
FairSpec == Spec /\ WF_vars(RevokeStep)

---------------------------------------------------------------------------
IsTable(map) ==
  /\ map = [h \in DOMAIN map |-> map[h]]
  /\ \A h \in DOMAIN map : h \in Nat /\ map[h] \in Capability

(* Every variable has its type, issued handles are below NEXT_HANDLE, and  *)
(* the audit log keeps the bound of log_audit.                             *)
TypeOK ==
  /\ next_handle \in Nat \ {0}
  /\ IsTable(global_caps)
  /\ \A h \in DOMAIN global_caps : h \in 1..(next_handle - 1)
  /\ audit_log \in Seq(AuditLogEntry)
  /\ Len(audit_log) <= MAX_AUDIT_LOG_ENTRIES
  /\ next_tid \in Nat
  /\ tables = [t \in Threads |-> tables[t]]
  /\ Threads = 1..(next_tid - 1)
  /\ \A t \in Threads : IsTable(tables[t])
  /\ revoke_stack \in Seq(Nat)
  /\ revoked \in Seq(Nat)
  /\ revoker \in Nat

EntryAgrees(t, h) ==
  /\ h \in DOMAIN global_caps
  /\ tables[t][h].handle = h
  /\ tables[t][h].owner = t /\ global_caps[h].owner = t
  /\ tables[t][h].resource = global_caps[h].resource
  /\ tables[t][h].permissions = global_caps[h].permissions
  /\ tables[t][h].parent = global_caps[h].parent

(* cap.rs: "Thread-local and global views are kept consistent on           *)
(* transfer/revoke" and "every capability has a single owning thread".     *)
(* Whatever a thread finds in its table is registered, with the same       *)
(* resource, permissions and parent, and the registry names that thread as *)
(* its owner: so no handle is in two tables, and none survives its revoke. *)
TablesAgree == \A t \in Threads : \A h \in DOMAIN tables[t] : EntryAgrees(t, h)

(* cap.rs: "Revocation is transitive: revoking a parent invalidates all    *)
(* descendants".  Between syscalls no registered capability has a parent   *)
(* that is gone, whatever was derived, transferred and revoked before.     *)
RevocationTransitive ==
  Idle => \A h \in DOMAIN global_caps :
            global_caps[h].parent # None => global_caps[h].parent \in DOMAIN global_caps

(* CapabilityManager::revoke takes nothing but the subtree it was asked    *)
(* for: a registered handle it is about to visit is the root of the        *)
(* request, or a child of one it has removed already.                      *)
RevocationExact ==
  \A i \in DOMAIN revoke_stack :
    LET h == revoke_stack[i] IN
    h \in DOMAIN global_caps =>
      \/ revoked = <<>> /\ i = 1
      \/ global_caps[h].parent \in Range(revoked)

(* cap.rs: "derived capabilities can only reduce permissions", and         *)
(* children stay on their parent's resource.  What a table entry lets a    *)
(* thread do, every registered ancestor lets its owner do.                 *)
Attenuation ==
  \A h \in DOMAIN global_caps :
    LET p == global_caps[h].parent IN
    p \in DOMAIN global_caps =>
      /\ global_caps[h].permissions \subseteq global_caps[p].permissions
      /\ global_caps[h].resource = global_caps[p].resource

WellLinked(p) ==
  LET children == global_caps[p].children IN
  /\ global_caps[p].parent < p
  /\ \A i \in DOMAIN children : p < children[i] /\ children[i] < next_handle
  /\ \A i, j \in DOMAIN children : children[i] = children[j] => i = j
  /\ \A h \in DOMAIN global_caps :
       global_caps[h].parent = p <=> h \in Range(children)

(* cap.rs: "The capability graph forms a directed tree/forest per          *)
(* resource".  A parent is older than its child, so there is no cycle; the *)
(* two ways the graph is recorded agree: a registered child is in the list *)
(* of the parent it names and in no other, and no list has an entry twice. *)
Forest == \A p \in DOMAIN global_caps : WellLinked(p)

(* Nothing falls off the derivation tree while revoke walks it: a          *)
(* registered capability whose parent is gone is one of the handles the    *)
(* revoke in progress still has to visit.                                  *)
NoOrphanMissed ==
  \A h \in DOMAIN global_caps :
    \/ global_caps[h].parent = None
    \/ global_caps[h].parent \in DOMAIN global_caps
    \/ h \in Range(revoke_stack)

(* The last audit entry about a handle describes the handle as it is: a    *)
(* Revoke means it is gone, any other event that it is registered, under   *)
(* the owner or the parent the entry names.  Dropping the oldest entries   *)
(* at the limit must not disturb this.                                     *)
AuditTailFaithful ==
  \A i \in DOMAIN audit_log :
    LET e == audit_log[i]
        h == e.cap_handle IN
    (\A j \in DOMAIN audit_log : audit_log[j].cap_handle = h => j <= i) =>
      /\ e.event_type = "Revoke" <=> h \notin DOMAIN global_caps
      /\ e.event_type = "Create" =>
           global_caps[h].owner = e.thread_id /\ global_caps[h].parent = None
      /\ e.event_type = "Derive" => global_caps[h].parent = e.parent_handle
      /\ e.event_type = "Transfer" => global_caps[h].owner = e.target_thread

(* A handle that was ever issued and is not registered stays dead: neither *)
(* the registry nor any table holds it again.                              *)
RevokedStaysRevoked ==
  [][\A h \in 1..(next_handle - 1) :
       h \notin DOMAIN global_caps =>
         /\ h \notin DOMAIN global_caps'
         /\ \A t \in DOMAIN tables' : h \notin DOMAIN tables'[t]]_vars

(* sys_cap_revoke returns: the recursion of CapabilityManager::revoke ends *)
(* on every tree, although a list of children also names revoked handles.  *)
RevokeTerminates == ~Idle ~> Idle
===========================================================================
