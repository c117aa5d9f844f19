-------------------------------- MODULE Ipc -------------------------------
(***************************************************************************)
(* The IPC manager of kernel/src/ipc.rs with the calls of                  *)
(* kernel/src/syscall/mod.rs on it: ports with bounded queues, blocking    *)
(* receives with deadlines, batches, and deadlock detection.               *)
(*                                                                         *)
(* Threads switch only inside ipc_recv: `receiving` holds the threads      *)
(* between the two halves of that call.  The scheduler keeps a blocked     *)
(* thread queued (module Scheduler), so the second half may run at any     *)
(* time, woken or not.  The timer, though, may interrupt a call between    *)
(* its lock sections.  What it does, dropping entries of waiting_threads,  *)
(* is as if done before or after the call, except where a call updates the *)
(* port first and waiting_threads next: block_recv and send_batch are two  *)
(* steps each, of which `inserting` and `removing` hold the second.        *)
(* Payloads are within the inline limit; a call that is refused changes    *)
(* nothing and is not a step.                                              *)
(***************************************************************************)
EXTENDS Naturals, Sequences, FiniteSets

CONSTANTS
  Thread,            \* threads that make IPC calls
  None,              \* Option::None
  MAX_QUEUE_DEPTH,
  MAX_BATCH_SIZE,
  Timeout,           \* ticks left to a deadline when block_recv records it
  MaxPort,           \* bound: ports created
  MaxSent            \* bound: messages sent to one port

ASSUME IpcAssumption ==
  /\ None \notin Thread /\ IsFiniteSet(Thread)
  /\ MAX_QUEUE_DEPTH \in Nat /\ MAX_BATCH_SIZE \in Nat
  /\ Timeout \subseteq Nat \ {0}
  /\ MaxPort \in Nat /\ MaxSent \in Nat

Port == 1..MaxPort
NoPort == 0
Never == 0           \* no deadline: timeout_ms = u64::MAX

VARIABLES
  created,           \* PortId::NEXT_ID - 1
  owner,             \* PortState.owner; None: no such port
  messages,          \* PortState.messages: the n-th message sent there is n
  receiver_blocked,  \* PortState.receiver_blocked
  sent,              \* IpcPortMetrics.messages_sent
  got,               \* IpcPortMetrics.messages_received
  wait_port,         \* waiting_threads: WaiterInfo.port, NoPort if no entry
  deadline,          \* waiting_threads: WaiterInfo.deadline in ticks from now
  receiving,         \* threads inside ipc_recv: the port, or NoPort
  inserting,         \* the thread block_recv has yet to add to waiting_threads
  removing           \* the thread send_batch has yet to take off it

queueVars == <<messages, sent, got>>
waitVars == <<receiver_blocked, wait_port, deadline>>
pendingVars == <<inserting, removing>>
vars == <<created, owner, queueVars, waitVars, receiving, pendingVars>>

Open(p) == owner[p] # None

---------------------------------------------------------------------------
(* IpcManager::send, and each message of send_batch: queued and counted.   *)
push_back_Front(p, n) ==
  /\ Len(messages[p]) + n <= MAX_QUEUE_DEPTH
  /\ messages' = [messages EXCEPT ![p] = [i \in 1..n |-> sent[p] + i] \o @]
  /\ sent' = [sent EXCEPT ![p] = @ + n]
  /\ UNCHANGED got

push_back(p, n) ==
  /\ Len(messages[p]) + n <= MAX_QUEUE_DEPTH
  /\ messages' = [messages EXCEPT ![p] = @ \o [i \in 1..n |-> sent[p] + i]]
  /\ sent' = [sent EXCEPT ![p] = @ + n]
  /\ UNCHANGED got

(* IpcManager::try_recv, and recv_batch with up to n messages.             *)
pop_front(p, n) ==
  LET count == IF n < Len(messages[p]) THEN n ELSE Len(messages[p]) IN
  /\ messages' = [messages EXCEPT ![p] = SubSeq(@, count + 1, Len(@))]
  /\ got' = [got EXCEPT ![p] = @ + count]
  /\ UNCHANGED sent

(* IpcManager::detect_deadlock: from the port to its owner, to the port    *)
(* that thread is registered as waiting on, and so on.                     *)
detect_deadlock_OwnerOnly(start, target) == owner[target] = start

detect_deadlock(start, target) ==
  LET limit == Cardinality({p \in Port : Open(p)})
                 + Cardinality({t \in Thread : wait_port[t] # NoPort})
      port[n \in 0..limit] ==
        IF n = 0 THEN target
        ELSE IF port[n - 1] # NoPort /\ Open(port[n - 1])
             THEN wait_port[owner[port[n - 1]]] ELSE NoPort IN
  \E n \in 0..limit : port[n] # NoPort /\ owner[port[n]] = start

---------------------------------------------------------------------------
Init ==
  /\ created = 0
  /\ owner = [p \in Port |-> None]
  /\ messages = [p \in Port |-> <<>>]
  /\ sent = [p \in Port |-> 0] /\ got = [p \in Port |-> 0]
  /\ receiver_blocked = [p \in Port |-> None]
  /\ wait_port = [t \in Thread |-> NoPort]
  /\ deadline = [t \in Thread |-> Never]
  /\ receiving = [t \in Thread |-> NoPort]
  /\ inserting = None /\ removing = None

(* No call is in progress, but for the receivers that were switched away.  *)
NoCall == inserting = None /\ removing = None

Calls(t) == NoCall /\ receiving[t] = NoPort

sys_ipc_create_port(t) ==
  /\ Calls(t)
  /\ created < MaxPort
  /\ created' = created + 1
  /\ owner' = [owner EXCEPT ![created + 1] = t]
  /\ UNCHANGED <<queueVars, waitVars, receiving, pendingVars>>

(* The port goes with its queue and its waiter; the waiter's entry in      *)
(* waiting_threads stays.                                                  *)
sys_ipc_close_port(t, p) ==
  /\ Calls(t)
  /\ owner[p] = t
  /\ owner' = [owner EXCEPT ![p] = None]
  /\ messages' = [messages EXCEPT ![p] = <<>>]
  /\ sent' = [sent EXCEPT ![p] = 0] /\ got' = [got EXCEPT ![p] = 0]
  /\ receiver_blocked' = [receiver_blocked EXCEPT ![p] = None]
  /\ UNCHANGED <<created, wait_port, deadline, receiving, pendingVars>>

(* sys_ipc_send, sys_ipc_send_async.                                       *)
sys_ipc_send(t, p) ==
  /\ Calls(t) /\ Open(p)
  /\ sent[p] < MaxSent
  /\ push_back(p, 1)
  /\ UNCHANGED <<created, owner, waitVars, receiving, pendingVars>>

(* All of the batch or nothing; the registered receiver is taken off the   *)
(* port, then off waiting_threads, and is woken.                           *)
sys_ipc_send_batch(t, p, n) ==
  /\ Calls(t) /\ Open(p)
  /\ sent[p] + n <= MaxSent
  /\ push_back(p, n)
  /\ receiver_blocked' = [receiver_blocked EXCEPT ![p] = None]
  /\ removing' = receiver_blocked[p]
  /\ UNCHANGED <<created, owner, wait_port, deadline, receiving, inserting>>

send_batch_removes_Nothing ==
  /\ removing # None
  /\ removing' = None
  /\ UNCHANGED <<created, owner, queueVars, waitVars, receiving, inserting>>

send_batch_removes ==
  /\ removing # None
  /\ removing' = None
  /\ wait_port' = [wait_port EXCEPT ![removing] = NoPort]
  /\ deadline' = [deadline EXCEPT ![removing] = Never]
  /\ UNCHANGED <<created, owner, queueVars, receiver_blocked, receiving, inserting>>

(* sys_ipc_recv_batch; with n = 1 also sys_ipc_try_recv, and sys_ipc_recv  *)
(* on a port with a message.                                               *)
sys_ipc_recv_batch(t, p, n) ==
  /\ Calls(t) /\ Open(p)
  /\ messages[p] # <<>>
  /\ pop_front(p, n)
  /\ UNCHANGED <<created, owner, waitVars, receiving, pendingVars>>

(* sys_ipc_recv on an empty port: block_recv registers the caller on the   *)
(* port, then in waiting_threads, and the context switch follows.          *)
sys_ipc_recv(t, p) ==
  /\ Calls(t) /\ Open(p)
  /\ messages[p] = <<>>
  /\ ~detect_deadlock(t, p)
  /\ receiver_blocked[p] = None
  /\ receiver_blocked' = [receiver_blocked EXCEPT ![p] = t]
  /\ receiving' = [receiving EXCEPT ![t] = p]
  /\ inserting' = t
  /\ UNCHANGED <<created, owner, queueVars, wait_port, deadline, removing>>

block_recv_inserts(timeout) ==
  /\ inserting # None
  /\ inserting' = None
  /\ wait_port' = [wait_port EXCEPT ![inserting] = receiving[inserting]]
  /\ deadline' = [deadline EXCEPT ![inserting] = timeout]
  /\ UNCHANGED <<created, owner, queueVars, receiver_blocked, receiving, removing>>

(* The thread runs again: a last try_recv, then the call returns.          *)
recv_resumes(t) ==
  LET p == receiving[t] IN
  /\ NoCall /\ p # NoPort
  /\ receiving' = [receiving EXCEPT ![t] = NoPort]
  /\ IF Open(p) THEN pop_front(p, 1) ELSE UNCHANGED queueVars
  /\ UNCHANGED <<created, owner, waitVars, pendingVars>>

(* sys_ipc_wait_any over a list of ports, once it finds a message: the     *)
(* first port in the list that has one loses it.                           *)
sys_ipc_wait_any(t, ports, i) ==
  /\ Calls(t)
  /\ Open(ports[i]) /\ messages[ports[i]] # <<>>
  /\ \A j \in 1..(i - 1) : messages[ports[j]] = <<>>
  /\ pop_front(ports[i], 1)
  /\ UNCHANGED <<created, owner, waitVars, receiving, pendingVars>>

(* IpcManager::handle_timeouts at a timer tick, wherever the call in       *)
(* progress is.                                                            *)
handle_timeouts_KeepsEntry ==
  LET expired == {t \in Thread : deadline[t] = 1} IN
  /\ \E t \in Thread : deadline[t] # Never
  /\ receiver_blocked' =
       [p \in Port |-> IF \E t \in expired : wait_port[t] = p /\ receiver_blocked[p] = t
                       THEN None ELSE receiver_blocked[p]]
  /\ deadline' = [t \in Thread |-> IF deadline[t] \in {Never, 1} THEN deadline[t]
                                   ELSE deadline[t] - 1]
  /\ UNCHANGED <<created, owner, queueVars, wait_port, receiving, pendingVars>>

handle_timeouts ==
  LET expired == {t \in Thread : deadline[t] = 1} IN
  /\ \E t \in Thread : deadline[t] # Never
  /\ receiver_blocked' =
       [p \in Port |-> IF \E t \in expired : wait_port[t] = p /\ receiver_blocked[p] = t
                       THEN None ELSE receiver_blocked[p]]
  /\ wait_port' = [t \in Thread |-> IF t \in expired THEN NoPort ELSE wait_port[t]]
  /\ deadline' = [t \in Thread |-> IF deadline[t] = Never THEN Never ELSE deadline[t] - 1]
  /\ UNCHANGED <<created, owner, queueVars, receiving, pendingVars>>

call(t) ==
  \/ sys_ipc_create_port(t)
  \/ \E p \in Port :
       \/ sys_ipc_close_port(t, p)
       \/ sys_ipc_send(t, p)
       \/ \E n \in 1..MAX_BATCH_SIZE :
            sys_ipc_send_batch(t, p, n) \/ sys_ipc_recv_batch(t, p, n)
       \/ sys_ipc_recv(t, p)
  \/ \E p, q \in Port : \E i \in 1..2 : sys_ipc_wait_any(t, <<p, q>>, i)
  \/ recv_resumes(t)

Next ==
  \/ \E t \in Thread : call(t)
  \/ \E timeout \in Timeout \cup {Never} : block_recv_inserts(timeout)
  \/ send_batch_removes
  \/ handle_timeouts

Spec == Init /\ [][Next]_vars

(* The timer keeps interrupting.                                           *)
TimerSpec == Spec /\ WF_vars(handle_timeouts)

---------------------------------------------------------------------------
(* Every variable has its type, and no queue exceeds MAX_QUEUE_DEPTH,      *)
(* whatever mix of sends and batches fills it.                             *)
TypeOK ==
  /\ created \in 0..MaxPort
  /\ owner \in [Port -> Thread \cup {None}]
  /\ messages \in [Port -> Seq(Nat)]
  /\ \A p \in Port : Len(messages[p]) <= MAX_QUEUE_DEPTH
  /\ sent \in [Port -> Nat] /\ got \in [Port -> Nat]
  /\ receiver_blocked \in [Port -> Thread \cup {None}]
  /\ wait_port \in [Thread -> Port \cup {NoPort}]
  /\ deadline \in [Thread -> Nat]
  /\ receiving \in [Thread -> Port \cup {NoPort}]
  /\ inserting \in Thread \cup {None} /\ removing \in Thread \cup {None}

(* No message is lost, duplicated or overtaken between the senders of a    *)
(* port and its receivers, batched or not: the queue holds, in order,      *)
(* exactly the messages sent and not yet received, and the metrics of the  *)
(* port account for all of them.                                           *)
FifoNoLoss ==
  \A p \in Port :
    /\ Len(messages[p]) + got[p] = sent[p]
    /\ \A i \in 1..Len(messages[p]) : messages[p][i] = got[p] + i

(* The two maps that record a waiter, behind two locks and updated by      *)
(* block_recv, send_batch, close_port and the timer, agree: a thread in    *)
(* waiting_threads, unless send_batch is about to remove it, is the        *)
(* receiver registered on its port, as long as the port is open, and a     *)
(* closed or future port has neither queue nor waiter.                     *)
WaiterRegistered ==
  /\ \A t \in Thread \ {removing} : wait_port[t] # NoPort /\ Open(wait_port[t])
                                      => receiver_blocked[wait_port[t]] = t
  /\ \A t \in Thread : wait_port[t] # NoPort => wait_port[t] <= created
  /\ \A p \in Port : ~Open(p) => receiver_blocked[p] = None /\ messages[p] = <<>>
  /\ \A p \in Port : p > created => ~Open(p)

(* ipc.rs: "Deadlock detection prevents circular wait across ports": there *)
(* is no group of threads each of which is registered as waiting on a port *)
(* owned by another of the group.                                          *)
NoCircularWait ==
  \A ts \in (SUBSET Thread) \ {{}} :
    \E t \in ts : wait_port[t] = NoPort \/ owner[wait_port[t]] \notin ts

(* A receive with a deadline does not wait forever: the timer, or a batch, *)
(* takes the thread off the waiting list unless it resumes first.          *)
DeadlineFires ==
  \A t \in Thread : deadline[t] # Never ~> (deadline[t] = Never \/ receiving[t] = NoPort)
===========================================================================
