---------------------------- MODULE Scheduler -----------------------------
(***************************************************************************)
(* The fixed-priority scheduler of kernel/src/sched.rs with the thread     *)
(* states of kernel/src/thread.rs, from the boot sequence of kernel.rs and *)
(* init_process.rs to the calls that give up the processor or wake a       *)
(* thread (kernel/src/syscall/mod.rs, kernel/src/ipc.rs).                  *)
(*                                                                         *)
(* One core, and only a call switches threads; but every log line of a     *)
(* call turns interrupts on again (serial.rs), so the timer may interrupt  *)
(* a call between any two of its lock sections.  A call is therefore split *)
(* where the timer can tell: after block_receive, after the state of the   *)
(* caller is set, and between the two halves of on_timer_tick.  An         *)
(* interrupt inside a lock section, and the lock that is held across a     *)
(* switch, are the subject of KernelLocks: here sections run to their end  *)
(* and a thread that was switched out continues where it was.              *)
(* Where a thread continues after a switch matters for ipc_wait_any alone, *)
(* whose loop is kept in `polling`.                                        *)
(***************************************************************************)
EXTENDS Naturals, Sequences, SequencesExt

CONSTANTS
  BootPriorities,  \* TCB priorities of init and of the services init starts
  MaxThread,       \* bound: highest thread id created
  MaxQueue         \* bound: length of a ready queue at which nothing more starts

Idle == 0          \* ThreadPriority
Low == 1
Normal == 2
High == 3
Level == Idle..High

ASSUME ConstantsAssumption ==
  /\ BootPriorities \in Seq(Level)
  /\ MaxThread \in Nat /\ MaxQueue \in Nat

None == 0          \* Option::None; ThreadId::NEXT_ID starts at 1
IdleThread == 1    \* init_scheduler creates the first thread

ThreadState == {"Ready", "Running", "Blocked", "Exited"}

VARIABLES
  state,       \* THREAD_LIST: Thread.state, by thread id
  priority,    \* THREAD_LIST: Thread.priority, by thread id
  base,        \* Scheduler.base_priorities, NoEntry where there is none
  effective,   \* Scheduler.effective_priorities, likewise
  queues,      \* ReadyQueues.queues
  current,     \* Scheduler.current
  boot,        \* how far kmain has come
  pc,          \* what the call in progress does next; "user": there is none
  previous,    \* local variables of Scheduler::on_timer_tick
  next,
  waiting,     \* threads registered with IpcManager as waiting for a message
  expired,     \* waiters the timer interrupt in progress still has to wake
  polling,     \* threads inside the loop of ipc_wait_any
  ticks,       \* parity of interrupts::TICKS
  exited       \* history: threads that have called thread_exit

priorityVars == <<priority, base, effective>>
ipcVars == <<waiting, polling>>
callVars == <<pc, previous, next>>
vars == <<state, priorityVars, queues, current, boot, callVars, ipcVars, expired,
          ticks, exited>>

NoEntry == 4

Threads == DOMAIN state

---------------------------------------------------------------------------
set_state(states, id, new) ==
  IF id \in DOMAIN states THEN [states EXCEPT ![id] = new] ELSE states

(* Scheduler::get_priority and get_base_priority: Normal by default.       *)
get_priority(id) ==
  IF effective[id] = NoEntry THEN Normal ELSE effective[id]

get_base_priority(id) == IF base[id] = NoEntry THEN Normal ELSE base[id]

(* ReadyQueues::push.                                                      *)
push_Front(qs, id, level) == [qs EXCEPT ![level] = <<id>> \o @]

push(qs, id, level) == [qs EXCEPT ![level] = Append(@, id)]

is_empty(qs) == \A l \in Level : qs[l] = <<>>

TopLevel(qs) == CHOOSE l \in Level :
                  qs[l] # <<>> /\ \A m \in Level : m > l => qs[m] = <<>>

(* ReadyQueues::pop_next: the head of the highest queue that is not empty  *)
(* is the choice, and goes to the back of that queue.                      *)
choice(qs) == IF is_empty(qs) THEN None ELSE Head(qs[TopLevel(qs)])

rotate(qs) ==
  IF is_empty(qs) THEN qs
  ELSE [qs EXCEPT ![TopLevel(qs)] = Append(Tail(@), Head(@))]

(* Scheduler::apply_switch_with_previous: the thread to run, and the states  *)
(* once it and the previous thread have their new states.                  *)
chosen ==
  IF next # None THEN next ELSE IF previous # None THEN previous ELSE IdleThread

switched_PreviousKept == set_state(state, chosen, "Running")

switched ==
  set_state(IF previous \notin {None, chosen} THEN set_state(state, previous, "Ready")
            ELSE state, chosen, "Running")

(* Scheduler::on_timer_tick under its two locks: when any thread is queued *)
(* the current one is queued as well and the queues choose; when none is,  *)
(* the current one goes on.                                                *)
select ==
  LET requeued == push(queues, current, get_priority(current)) IN
  /\ queues' = IF is_empty(queues) THEN queues ELSE rotate(requeued)
  /\ current' = IF is_empty(queues) THEN current ELSE None
  /\ previous' = current
  /\ next' = IF is_empty(queues) THEN None ELSE choice(requeued)
  /\ pc' = "apply"

(* Scheduler::mark_ready.                                                  *)
mark_ready(id) ==
  /\ state' = set_state(state, id, "Ready")
  /\ queues' = push(queues, id, get_priority(id))

---------------------------------------------------------------------------
Init ==
  /\ state = <<>> /\ priority = <<>> /\ base = <<>> /\ effective = <<>>
  /\ queues = [l \in Level |-> <<>>]
  /\ current = None
  /\ boot = "init_scheduler"
  /\ pc = "user" /\ previous = None /\ next = None
  /\ waiting = {} /\ polling = {} /\ expired = {} /\ exited = {}
  /\ ticks = 0

(* init_scheduler: Scheduler::init with the idle thread.                   *)
init ==
  /\ boot = "init_scheduler"
  /\ boot' = "launch_init"
  /\ state' = <<"Running">> /\ priority' = <<Idle>>
  /\ base' = <<Idle>> /\ effective' = <<Idle>>
  /\ current' = IdleThread
  /\ UNCHANGED <<queues, callVars, ipcVars, expired, ticks, exited>>

(* create_init_process and spawn_service_thread put the TCB on the thread  *)
(* list and mark the thread ready; the priority stays in the TCB.          *)
spawn_boot_thread_NotReady ==
  /\ boot = "launch_init"
  /\ Len(state) <= Len(BootPriorities)
  /\ state' = Append(state, "Ready")
  /\ priority' = Append(priority, BootPriorities[Len(state)])
  /\ base' = Append(base, NoEntry) /\ effective' = Append(effective, NoEntry)
  /\ UNCHANGED <<queues, current, boot, callVars, ipcVars, expired, ticks, exited>>

spawn_boot_thread ==
  /\ boot = "launch_init"
  /\ Len(state) <= Len(BootPriorities)
  /\ state' = Append(state, "Ready")
  /\ priority' = Append(priority, BootPriorities[Len(state)])
  /\ base' = Append(base, NoEntry) /\ effective' = Append(effective, NoEntry)
  /\ queues' = push(queues, Len(state) + 1, Normal)
  /\ UNCHANGED <<current, boot, callVars, ipcVars, expired, ticks, exited>>

(* start_scheduling: Scheduler::schedule, up to its apply_switch.          *)
schedule ==
  /\ boot = "launch_init"
  /\ Len(state) = Len(BootPriorities) + 1
  /\ boot' = "running"
  /\ queues' = rotate(queues)
  /\ previous' = current /\ next' = choice(queues)
  /\ pc' = "apply"
  /\ UNCHANGED <<state, current, priorityVars, ipcVars, expired, ticks, exited>>

(* No interrupt is being handled, and the call in progress is at a step.   *)
At(step) == boot = "running" /\ expired = {} /\ pc = step

(* The bound on the queues: no call and no wake-up starts when one is full.*)
Room == \A l \in Level : Len(queues[l]) < MaxQueue

(* A thread runs outside the kernel; the idle thread only halts.           *)
Runs == At("user") /\ current # IdleThread /\ Room

Calls == Runs /\ current \notin polling

(* sys_thread_yield, and the loop of service_worker around                 *)
(* drive_cooperative_tick.                                                 *)
sys_thread_yield ==
  /\ Calls
  /\ select
  /\ UNCHANGED <<state, priorityVars, boot, ipcVars, expired, ticks, exited>>

(* The caller sets its own state on the thread list.                       *)
mark_current(new) ==
  /\ state' = set_state(state, current, new)
  /\ pc' = "select"
  /\ UNCHANGED <<priorityVars, queues, current, boot, previous, next, expired, ticks>>

(* sys_thread_exit: the TCB is marked, then the scheduler chooses as ever. *)
sys_thread_exit ==
  /\ Calls
  /\ mark_current("Exited")
  /\ exited' = exited \cup {current}
  /\ UNCHANGED ipcVars

(* sys_thread_sleep with a nonzero number of ticks, which it does not keep.*)
sys_thread_sleep ==
  /\ Calls
  /\ mark_current("Blocked")
  /\ UNCHANGED <<ipcVars, exited>>

(* sys_ipc_recv on an empty port: block_receive registers the caller, then *)
(* the caller is marked.                                                   *)
sys_ipc_recv ==
  /\ Calls
  /\ waiting' = waiting \cup {current}
  /\ pc' = "block"
  /\ UNCHANGED <<state, priorityVars, queues, current, boot, previous, next, polling,
                 expired, ticks, exited>>

recv_blocks ==
  /\ At("block")
  /\ mark_current("Blocked")
  /\ UNCHANGED <<ipcVars, exited>>

(* sys_ipc_wait_any finds nothing on its ports and gives up the processor; *)
(* when it runs again it marks itself ready and polls again, or returns.   *)
sys_ipc_wait_any ==
  /\ Runs
  /\ mark_current("Blocked")
  /\ polling' = polling \cup {current}
  /\ UNCHANGED <<waiting, exited>>

wait_any_returns ==
  /\ Runs /\ current \in polling
  /\ state' = set_state(state, current, "Ready")
  /\ polling' = polling \ {current}
  /\ UNCHANGED <<priorityVars, queues, current, boot, callVars, waiting, expired,
                 ticks, exited>>

(* The rest of a call that gives up the processor: on_timer_tick, to the   *)
(* context switch.                                                         *)
on_timer_tick ==
  /\ At("select")
  /\ select
  /\ UNCHANGED <<state, priorityVars, boot, ipcVars, expired, ticks, exited>>

apply_switch_with_previous ==
  /\ At("apply")
  /\ state' = switched
  /\ current' = chosen
  /\ pc' = "user" /\ previous' = None /\ next' = None
  /\ UNCHANGED <<queues, priorityVars, boot, ipcVars, expired, ticks, exited>>

(* sys_thread_create: Scheduler::add_thread with a Normal, Ready thread.   *)
sys_thread_create ==
  /\ Calls
  /\ Len(state) < MaxThread
  /\ state' = Append(state, "Ready") /\ priority' = Append(priority, Normal)
  /\ base' = Append(base, Normal) /\ effective' = Append(effective, Normal)
  /\ queues' = push(queues, Len(state) + 1, Normal)
  /\ UNCHANGED <<current, boot, callVars, ipcVars, expired, ticks, exited>>

(* A waiter wakes: it is marked ready, then gets its base priority back.   *)
wake(id) ==
  /\ mark_ready(id)
  /\ effective' = [effective EXCEPT ![id] = get_base_priority(id)]
  /\ UNCHANGED <<priority, base, current, boot, callVars, polling, exited>>

(* IpcManager::send_batch wakes the receiver registered on the port.  The  *)
(* receiver may be registered on another port as well.                     *)
wake_by_send(id) ==
  /\ Calls
  /\ wake(id)
  /\ waiting' \in {waiting, waiting \ {id}}
  /\ UNCHANGED <<expired, ticks>>

(* The timer interrupt, wherever the call in progress is: TICKS, and the   *)
(* waiters whose deadline has passed, woken in the order of their ids.     *)
timer_interrupt(ids) ==
  /\ boot = "running" /\ expired = {}
  /\ ids # {} => Room
  /\ ticks' = (ticks + 1) % 2
  /\ expired' = ids
  /\ waiting' = waiting \ ids
  /\ UNCHANGED <<state, priorityVars, queues, current, boot, callVars, polling, exited>>

wake_expired(id) ==
  /\ \A other \in expired : id <= other
  /\ wake(id)
  /\ expired' = expired \ {id}
  /\ UNCHANGED <<waiting, ticks>>

Next ==
  \/ init \/ spawn_boot_thread \/ schedule
  \/ sys_thread_yield \/ sys_thread_exit \/ sys_thread_sleep \/ sys_thread_create
  \/ sys_ipc_recv \/ recv_blocks \/ sys_ipc_wait_any \/ wait_any_returns
  \/ on_timer_tick \/ apply_switch_with_previous
  \/ \E id \in waiting : wake_by_send(id)
  \/ \E ids \in SUBSET waiting : timer_interrupt(ids)
  \/ \E id \in expired : wake_expired(id)

Spec == Init /\ [][Next]_vars

---------------------------------------------------------------------------
(* Every variable has its type; the queues hold listed threads; there is a *)
(* current thread but between the two halves of on_timer_tick.             *)
TypeOK ==
  /\ state \in Seq(ThreadState)
  /\ priority \in Seq(Level) /\ Len(priority) = Len(state)
  /\ base \in Seq(Level \cup {NoEntry}) /\ Len(base) = Len(state)
  /\ effective \in Seq(Level \cup {NoEntry}) /\ Len(effective) = Len(state)
  /\ queues \in [Level -> Seq(Threads)]
  /\ current \in Threads \cup {None}
  /\ boot \in {"init_scheduler", "launch_init", "running"}
  /\ pc \in {"user", "block", "select", "apply"}
  /\ pc # "user" => boot = "running"
  /\ next \in Threads \cup {None}
  /\ IF pc = "apply" THEN previous \in Threads ELSE previous = None
  /\ boot # "init_scheduler" /\ pc # "apply" => current # None
  /\ waiting \subseteq Threads /\ polling \subseteq Threads
  /\ expired \subseteq Threads /\ exited \subseteq Threads
  /\ ticks \in {0, 1}

(* The thread on the processor.                                            *)
OnCpu == IF pc = "apply" THEN previous ELSE current

(* Scheduler::current and the states on the thread list are kept under     *)
(* different locks by different calls, and the timer wakes threads between *)
(* any two of their steps: no TCB but that of the thread on the processor  *)
(* ever says Running.                                                      *)
OnlyCurrentRuns ==
  \A t \in Threads : state[t] = "Running" => t = OnCpu

(* No wake-up and no new thread is lost by the scheduler, whichever call   *)
(* the timer interrupts: a Ready thread other than the idle one is on the  *)
(* processor or in the queue from which get_priority will have it chosen.  *)
ReadyQueued ==
  \A t \in Threads \ {IdleThread, OnCpu} :
    state[t] = "Ready" => t \in Range(queues[get_priority(t)])

(* No starvation within a level: a step leaves every entry of a queue      *)
(* where it is, or the thread at the head is the next to run and every     *)
(* other entry comes one place nearer to the head.  Nothing is ever        *)
(* inserted ahead of a waiting thread.                                     *)
TurnAdvances ==
  [][\A l \in Level :
       \/ IsPrefix(queues[l], queues'[l])
       \/ next' = Head(queues[l]) /\ IsPrefix(Tail(queues[l]), queues'[l])]_vars

(* sys_thread_exit ends in a panic message, "thread_exit returned          *)
(* unexpectedly": a thread that has called it never runs again.            *)
ExitIsFinal == boot = "running" /\ pc = "user" => current \notin exited
===========================================================================
