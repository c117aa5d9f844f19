---------------------------- MODULE KernelLocks ---------------------------
(***************************************************************************)
(* The spinlocks of the kernel, the interrupt flag and the interrupt       *)
(* handlers on the one core it runs on.  Every call and every handler is   *)
(* the sequence of the operations on locks and on the flag that its code   *)
(* performs, inlined; the data under the locks is in the other modules.    *)
(*                                                                         *)
(* There is no preemption: a thread runs until it switches, interrupted    *)
(* only by handlers, which do not nest (the vectors share one priority     *)
(* class and are acknowledged last).  So whoever finds a lock taken spins  *)
(* for ever.                                                               *)
(*                                                                         *)
(* Boot jumps to init, the head of the only queue in use, with the desktop *)
(* service behind it unless that could not be spawned.  init and the       *)
(* threads it creates make syscalls; the desktop never yields.             *)
(***************************************************************************)
EXTENDS Naturals, Sequences, Functions

CONSTANT MaxThread   \* bound: highest thread id created

ASSUME ConstantsAssumption == MaxThread \in Nat \ {0}

Desktop == 0         \* the ui_shell service (ring 0)
InitThread == 1      \* the only thread that starts in ring 3
Thread == Desktop..MaxThread
Isr == MaxThread + 1 \* the handler, as the holder of a lock
Free == MaxThread + 2

LockName ==
  {"serial", "threads", "entries", "ready", "current", "base", "effective",
   "ports", "waiting", "trace", "caps", "audit", "keyboard", "mouse",
   "packet", "handlers"}

VARIABLES
  program,     \* per thread, what is left of the call it makes
  handler,     \* what is left of the handler that runs, <<>> when none does
  running,     \* the thread on the processor
  threads,     \* threads in THREAD_LIST
  fresh,       \* threads that have never run
  interrupts,  \* RFLAGS.IF
  saved,       \* RFLAGS.IF in the context of a thread that was switched out
  holder,      \* per lock, who holds it
  waiters,     \* waiting_threads entries that have a deadline
  registered   \* an IRQ handler is registered

vars == <<program, handler, running, threads, fresh, interrupts, saved, holder,
          waiters, registered>>

-----------------------------------------------------------------------------
(* Operations, and sequences of them                                       *)

Within(l, body) == <<<<"lock", l>>>> \o body \o <<<<"unlock", l>>>>

Brief(l) == Within(l, <<>>)

cli == <<<<"flag", FALSE>>>>
sti == <<<<"flag", TRUE>>>>

_print_Unmasked == Brief("serial")

(* serial.rs; the last instruction is an unconditional sti.                *)
_print == cli \o Brief("serial") \o sti

set_thread_state == Brief("threads")

current_thread == Brief("current")

get_priority == Brief("effective")

restore_priority == Brief("base") \o Brief("effective")

mark_ready == get_priority \o set_thread_state \o Brief("ready")

on_timer_tick_KeepsQueue(t) ==
  <<<<"lock", "ready">>>> \o Within("current", get_priority \o _print \o _print)
  \o (IF t = running THEN <<>> ELSE set_thread_state)
  \o set_thread_state \o current_thread

(* sched.rs, where t is chosen.  The ready queues are never empty: init is *)
(* queued at boot and pop_next never removes an entry.                     *)
on_timer_tick(t) ==
  Within("ready", Within("current", get_priority \o _print \o _print))
  \o (IF t = running THEN <<>> ELSE set_thread_state)
  \o set_thread_state \o current_thread

log_user_entry_once == Within("entries", _print)

perform_context_switch_Logs(t) ==
  <<<<"mask">>>> \o Brief("threads")
  \o Within("threads", log_user_entry_once \o _print \o <<<<"switch", t>>>>)
  \o <<<<"unmask">>>>

(* sched.rs: the closures of without_interrupts and of with_contexts, so   *)
(* the switch happens, and a resumed thread continues, under the lock.     *)
perform_context_switch(t) ==
  <<<<"mask">>>> \o Brief("threads")
  \o Within("threads",
            (IF t = InitThread /\ t \in fresh
             THEN log_user_entry_once \o _print ELSE <<>>)
            \o <<<<"switch", t>>>>)
  \o <<<<"unmask">>>>

(* What a call that gives up the processor does, by the thread chosen.     *)
reschedules ==
  {on_timer_tick(t) \o (IF t = running THEN <<>> ELSE perform_context_switch(t)) :
     t \in threads}

record_trace_event == Brief("trace") \o _print

send == Within("ports", record_trace_event)

try_recv(found) == Within("ports", IF found THEN record_trace_event ELSE <<>>)

detect_deadlock == Within("ports", Brief("waiting"))

block_recv ==
  Brief("ports") \o detect_deadlock \o Brief("ports")
  \o Within("waiting", <<<<"insert">>>>)

(* ipc.rs: the timer's work when the deadlines of the waiters in expired   *)
(* have passed; the last loop is run once for all of them.                 *)
handle_timeouts(expired) ==
  Brief("waiting")
  \o (IF expired = {} THEN <<>>
      ELSE Brief("ports") \o Within("waiting", <<<<"remove", expired>>>>)
           \o _print \o mark_ready \o restore_priority)

notify_irq_handler ==
  IF registered THEN {Within("handlers", send), Within("handlers", Brief("ports") \o _print)}
  ELSE {<<>>}

-----------------------------------------------------------------------------
(* Syscalls: the dispatcher logs first; the return path sets the flag.     *)

Syscall(bodies) == {_print \o b \o sti : b \in bodies}

sys_thread_yield == {_print \o r : r \in reschedules}

(* thread_sleep, and thread_exit up to its last log line                   *)
sys_thread_sleep ==
  {_print \o current_thread \o set_thread_state \o r : r \in reschedules}

sys_thread_create ==
  {_print \o current_thread \o Brief("threads") \o _print
   \o Within("threads", <<<<"create">>>>) \o Brief("base") \o Brief("effective")
   \o Brief("ready") \o _print}

sys_ipc_recv ==
  LET head == _print \o current_thread \o _print \o get_priority
  IN  {head \o try_recv(TRUE) \o _print, head \o try_recv(FALSE) \o _print}
      \cup {head \o try_recv(FALSE) \o _print \o Brief("ports")
            \o detect_deadlock \o b : b \in {_print, Brief("ports") \o _print}}
      \cup UNION {{head \o try_recv(FALSE) \o _print \o block_recv \o set_thread_state
                   \o r \o try_recv(found) \o _print : r \in reschedules} :
                     found \in BOOLEAN}

(* One turn of the polling loop of ipc_wait_any                            *)
sys_ipc_wait_any ==
  {current_thread \o try_recv(TRUE) \o _print}
  \cup {current_thread \o try_recv(FALSE) \o set_thread_state \o r
        \o set_thread_state : r \in reschedules}

sys_ipc_send == {_print \o current_thread \o _print \o send \o _print}

sys_ipc_send_batch ==
  {_print \o current_thread \o send \o b \o _print :
     b \in {<<>>} \cup {Within("waiting", <<<<"remove", {w}>>>>) \o mark_ready
                        \o restore_priority : w \in waiters}}

sys_ipc_create_port ==
  {_print \o current_thread \o Brief("ports") \o _print \o Brief("caps")
   \o Brief("audit") \o Brief("threads") \o _print}

sys_cap_revoke ==
  {_print \o current_thread \o Brief("caps") \o Brief("threads") \o Brief("audit")
   \o _print}

sys_cap_derive ==
  {_print \o current_thread \o Brief("threads") \o Brief("caps") \o Brief("threads")
   \o Brief("audit") \o _print}

sys_register_irq_handler ==
  {current_thread \o Within("handlers", <<<<"register">>>> \o _print)}

sys_mouse_poll == {Brief("mouse") \o b : b \in {<<>>, _print}}

sys_keyboard_poll == {Brief("keyboard")}

Syscalls ==
  Syscall(UNION {sys_thread_yield, sys_thread_sleep, sys_thread_create,
                 sys_ipc_recv, sys_ipc_wait_any, sys_ipc_send,
                 sys_ipc_send_batch, sys_ipc_create_port, sys_cap_revoke,
                 sys_cap_derive, sys_register_irq_handler, sys_mouse_poll,
                 sys_keyboard_poll})

(* init_process.rs: one round of the desktop's event loop                  *)
run_desktop_environment ==
  UNION {{Brief("mouse") \o m \o Brief("keyboard") \o k : k \in {<<>>, _print}} :
           m \in {<<>>, Brief("packet")}}

-----------------------------------------------------------------------------
(* Interrupt handlers; iret puts the flag back.                            *)

timer_interrupt_handler ==
  {b \o handle_timeouts(expired) : b \in {<<>>, _print}, expired \in SUBSET waiters}

keyboard_interrupt_handler ==
  {Brief("keyboard") \o Brief("handlers") \o n : n \in notify_irq_handler}

mouse_interrupt_handler ==
  {_print \o Within("mouse", b) \o Brief("handlers") \o n :
     b \in {<<>>, _print}, n \in notify_irq_handler}

-----------------------------------------------------------------------------
(* The processor                                                           *)

Init ==
  /\ running = InitThread
  /\ threads \in {{InitThread}, {Desktop, InitThread}}
  /\ fresh = threads \ {InitThread}
  /\ program = [t \in Thread |-> <<>>]
  /\ handler = <<>>
  /\ interrupts = TRUE
  /\ saved = [t \in Thread |-> TRUE]
  /\ holder = [l \in LockName |-> Free]
  /\ waiters = {}
  /\ registered = FALSE

(* SFMASK clears the flag on entry.                                        *)
syscall_entry ==
  /\ running # Desktop /\ program[running] = <<>> /\ handler = <<>>
  /\ \E p \in Syscalls : program' = [program EXCEPT ![running] = p]
  /\ interrupts' = FALSE
  /\ UNCHANGED <<handler, running, threads, fresh, saved, holder, waiters, registered>>

desktop_loop ==
  /\ running = Desktop /\ program[running] = <<>> /\ handler = <<>>
  /\ \E p \in run_desktop_environment : program' = [program EXCEPT ![running] = p]
  /\ UNCHANGED <<handler, running, threads, fresh, interrupts, saved, holder,
                 waiters, registered>>

interrupt ==
  /\ interrupts /\ handler = <<>>
  /\ \E h \in UNION {timer_interrupt_handler, keyboard_interrupt_handler,
                     mouse_interrupt_handler} : handler' = h \o sti
  /\ interrupts' = FALSE
  /\ UNCHANGED <<program, running, threads, fresh, saved, holder, waiters, registered>>

(* The operation the processor is at, in a handler or in a call            *)
Code == IF handler # <<>> THEN handler ELSE program[running]

Executor == IF handler # <<>> THEN Isr ELSE running

At(op) == Code # <<>> /\ Head(Code)[1] = op

Advance ==
  /\ handler' = IF handler # <<>> THEN Tail(handler) ELSE <<>>
  /\ program' = IF handler # <<>> THEN program
                ELSE [program EXCEPT ![running] = Tail(@)]

(* spin::Mutex; a lock that is taken is spun on.                           *)
lock ==
  /\ At("lock") /\ holder[Head(Code)[2]] = Free
  /\ holder' = [holder EXCEPT ![Head(Code)[2]] = Executor]
  /\ Advance
  /\ UNCHANGED <<running, threads, fresh, interrupts, saved, waiters, registered>>

unlock ==
  /\ At("unlock")
  /\ holder' = [holder EXCEPT ![Head(Code)[2]] = Free]
  /\ Advance
  /\ UNCHANGED <<running, threads, fresh, interrupts, saved, waiters, registered>>

set_flag ==
  /\ At("flag")
  /\ interrupts' = Head(Code)[2]
  /\ Advance
  /\ UNCHANGED <<running, threads, fresh, saved, holder, waiters, registered>>

(* util.rs: the flag was set on entry, since the call has logged before.   *)
without_interrupts ==
  /\ At("mask") \/ At("unmask")
  /\ interrupts' = At("unmask")
  /\ Advance
  /\ UNCHANGED <<running, threads, fresh, saved, holder, waiters, registered>>

(* switch.asm: a fresh context has the flag set; a thread that was         *)
(* switched out continues behind its own switch.                           *)
switch_context ==
  /\ At("switch")
  /\ running' = Head(Code)[2]
  /\ saved' = [saved EXCEPT ![running] = interrupts]
  /\ interrupts' = (running' \in fresh \/ saved[running'])
  /\ fresh' = fresh \ {running'}
  /\ Advance
  /\ UNCHANGED <<threads, holder, waiters, registered>>

(* The updates under a lock that later calls depend on                     *)
update ==
  /\ At("insert") \/ At("remove") \/ At("register") \/ At("create")
  /\ waiters' = IF At("insert") THEN waiters \cup {running}
                ELSE IF At("remove") THEN waiters \ Head(Code)[2] ELSE waiters
  /\ registered' = (registered \/ At("register"))
  /\ \/ ~At("create") /\ UNCHANGED <<threads, fresh>>
     \/ /\ At("create")
        /\ \E t \in {t \in Thread : t > InitThread /\ t - 1 \in threads} \ threads :
             threads' = threads \cup {t} /\ fresh' = fresh \cup {t}
     \/ /\ At("create") /\ Thread \ {Desktop} \subseteq threads  \* MaxThread
        /\ UNCHANGED <<threads, fresh>>
  /\ Advance
  /\ UNCHANGED <<running, interrupts, saved, holder>>

Next ==
  \/ syscall_entry \/ desktop_loop \/ interrupt
  \/ lock \/ unlock \/ set_flag \/ without_interrupts \/ switch_context \/ update

Spec == Init /\ [][Next]_vars

-----------------------------------------------------------------------------
(* Properties                                                              *)

(* The processor stands before a lock that is taken.                       *)
SpinsOn(l) == At("lock") /\ Head(Code)[2] = l /\ holder[l] # Free

(* serial.rs:30 masks interrupts around the port's lock, so that neither a *)
(* call nor a handler ever finds SERIAL1 taken, wherever in the code of    *)
(* the other an interrupt comes.                                           *)
PrintNeverSpins == ~SpinsOn("serial")

(* A thread gives up the processor holding THREAD_LIST and no other lock,  *)
(* and holds none outside the kernel: the guards of on_timer_tick and of   *)
(* the IPC calls are gone before perform_context_switch.                   *)
SuspendedHoldsOnlyThreadList ==
  \A t \in threads : (t # running \/ program[t] = <<>>) =>
    \A l \in LockName : holder[l] = t => l = "threads" /\ program[t] # <<>>

(* No handler runs while a thread is inside without_interrupts, though a   *)
(* log line in there would let one in: the switch logs for a first entry   *)
(* to ring 3 only, which init makes by jump_to_thread.                     *)
MaskedSectionUninterrupted ==
  <<"unmask">> \in Range(program[running]) /\ <<"mask">> \notin Range(program[running])
    => handler = <<>>

(* ipc.rs:30 "Timer-driven wakeups handle IPC timeouts cleanly": no        *)
(* handler spins on a lock of the IPC manager or of the scheduler.         *)
TimeoutsHandledCleanly ==
  handler # <<>> => \A l \in {"ports", "waiting", "ready", "threads"} : ~SpinsOn(l)
=============================================================================
