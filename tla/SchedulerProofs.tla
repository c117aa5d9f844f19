-------------------------- MODULE SchedulerProofs -------------------------
(***************************************************************************)
(* Proofs about module Scheduler, for any boot configuration and any       *)
(* number of threads.                                                      *)
(***************************************************************************)
EXTENDS Scheduler, SeqLemmas, TLAPS

(* Nothing raises the effective priority of a thread above its base.       *)
NoBoost == \A t \in Threads : get_priority(t) = get_base_priority(t)

(* There is no thread before init_scheduler, and until start_scheduling    *)
(* the idle thread is the current one.                                     *)
BootsIdle ==
  /\ boot = "init_scheduler" => state = <<>>
  /\ boot = "launch_init" => current = IdleThread

(* When on_timer_tick has chosen, the thread it is about to make Ready is  *)
(* queued already.                                                         *)
PreviousQueued ==
  pc = "apply" /\ next # None /\ previous # IdleThread =>
    previous \in Range(queues[get_priority(previous)])

(* The inductive invariant: NoBoost is needed because waking a thread      *)
(* queues it under its effective priority and then restores the base one.  *)
Inv == TypeOK /\ OnlyCurrentRuns /\ ReadyQueued /\ NoBoost /\ BootsIdle /\ PreviousQueued

(* pop_next finds a queue when one is not empty.                           *)
LEMMA TopLevelFacts ==
  ASSUME NEW qs, ~is_empty(qs)
  PROVE  TopLevel(qs) \in Level /\ qs[TopLevel(qs)] # <<>>
  <1>1. Level = {0, 1, 2, 3}
    BY DEF Level, Idle, High
  <1>2. \E l \in Level : qs[l] # <<>> /\ \A m \in Level : m > l => qs[m] = <<>>
    BY <1>1 DEF is_empty
  <1> QED BY <1>2 DEF TopLevel

(* pop_next keeps every entry, and chooses one of them.                    *)
LEMMA PopNextFacts ==
  ASSUME NEW S, S \subseteq Nat, NEW qs \in [Level -> Seq(S)]
  PROVE  /\ rotate(qs) \in [Level -> Seq(S)]
         /\ \A l \in Level : Range(rotate(qs)[l]) = Range(qs[l])
         /\ ~is_empty(qs) => choice(qs) \in S
  <1>1. CASE is_empty(qs)
    BY <1>1 DEF rotate
  <1>2. CASE ~is_empty(qs)
    <2> DEFINE top == TopLevel(qs)
    <2>1. top \in Level /\ qs[top] # <<>> /\ qs[top] \in Seq(S)
      BY <1>2, TopLevelFacts
    <2> HIDE DEF top
    <2>2. /\ Head(qs[top]) \in S
          /\ Append(Tail(qs[top]), Head(qs[top])) \in Seq(S)
          /\ Range(Append(Tail(qs[top]), Head(qs[top]))) = Range(qs[top])
      BY <2>1, RotateFacts, Zenon
    <2>3. rotate(qs) = [qs EXCEPT ![top] = Append(Tail(qs[top]), Head(qs[top]))]
      BY <1>2 DEF rotate, top
    <2>4. choice(qs) = Head(qs[top])
      BY <1>2 DEF choice, top
    <2> QED BY <2>1, <2>2, <2>3, <2>4
  <1> QED BY <1>1, <1>2

(* push adds one entry to one queue.                                       *)
LEMMA PushFacts ==
  ASSUME NEW S, S \subseteq Nat, NEW qs \in [Level -> Seq(S)], NEW id \in S,
         NEW level \in Level
  PROVE  /\ push(qs, id, level) \in [Level -> Seq(S)]
         /\ \A l \in Level : Range(qs[l]) \subseteq Range(push(qs, id, level)[l])
         /\ id \in Range(push(qs, id, level)[level])
         /\ ~is_empty(push(qs, id, level))
  <1>1. qs[level] \in Seq(S) /\ qs[level] \in Seq(Nat) /\ id \in Nat
    BY SeqOfSubset, ZenonT(40)
  <1>2. Append(qs[level], id) \in Seq(S) /\ Append(qs[level], id) # <<>>
    BY <1>1
  <1>3. Range(Append(qs[level], id)) = Range(qs[level]) \cup {id}
    BY <1>1, RangeAppend
  <1> QED BY <1>2, <1>3 DEF push, is_empty

(* set_state changes one state and nothing else.                           *)
LEMMA SetStateFacts ==
  ASSUME NEW states \in Seq(ThreadState), NEW id, NEW new \in ThreadState
  PROVE  /\ set_state(states, id, new) \in Seq(ThreadState)
         /\ Len(set_state(states, id, new)) = Len(states)
         /\ DOMAIN set_state(states, id, new) = DOMAIN states
         /\ \A t \in DOMAIN states \ {id} : set_state(states, id, new)[t] = states[t]
         /\ id \in DOMAIN states => set_state(states, id, new)[id] = new
  BY DEF set_state

(* apply_switch_with_previous: the chosen thread is Running, the previous  *)
(* one, if it is another, Ready, and the rest is as it was.                *)
LEMMA SwitchFacts ==
  ASSUME TypeOK, pc = "apply"
  PROVE  /\ chosen \in Threads
         /\ switched \in Seq(ThreadState)
         /\ Len(switched) = Len(state)
         /\ DOMAIN switched = Threads
         /\ switched[chosen] = "Running"
         /\ previous # chosen => switched[previous] = "Ready"
         /\ \A t \in Threads \ {previous, chosen} : switched[t] = state[t]
  <1> DEFINE before == IF previous \notin {None, chosen} THEN set_state(state, previous, "Ready")
                       ELSE state
  <1>0. "Ready" \in ThreadState /\ "Running" \in ThreadState
    BY DEF ThreadState
  <1>a. /\ previous \in DOMAIN state /\ next \in DOMAIN state \cup {None}
        /\ state \in Seq(ThreadState)
    BY DEF TypeOK, Threads
  <1>1. chosen \in DOMAIN state /\ previous # None
    BY <1>a DEF chosen, None
  <1>2. /\ before \in Seq(ThreadState)
        /\ Len(before) = Len(state)
        /\ DOMAIN before = DOMAIN state
        /\ \A t \in DOMAIN state \ {previous} : before[t] = state[t]
        /\ previous # chosen => before[previous] = "Ready"
    BY <1>0, <1>a, <1>1 DEF set_state
  <1>3. switched = set_state(before, chosen, "Running")
    BY DEF switched
  <1> HIDE DEF before
  <1>4. /\ set_state(before, chosen, "Running") \in Seq(ThreadState)
        /\ Len(set_state(before, chosen, "Running")) = Len(before)
        /\ DOMAIN set_state(before, chosen, "Running") = DOMAIN before
        /\ \A t \in DOMAIN before \ {chosen} :
             set_state(before, chosen, "Running")[t] = before[t]
        /\ set_state(before, chosen, "Running")[chosen] = "Running"
    BY <1>0, <1>1, <1>2 DEF set_state
  <1> QED BY <1>a, <1>1, <1>2, <1>3, <1>4 DEF Threads

---------------------------------------------------------------------------
(* The state in which kmain calls init_scheduler.                          *)
LEMMA InitInv == Init => Inv
  BY DEF Init, Inv, TypeOK, OnlyCurrentRuns, ReadyQueued, NoBoost, BootsIdle, PreviousQueued,
         Threads, Level, Idle, High

(* Levels and default priorities.                                          *)
LEMMA PriorityFacts ==
  ASSUME TypeOK
  PROVE  /\ Normal \in Level /\ Idle \in Level /\ NoEntry \notin Level
         /\ Threads \subseteq Nat /\ None \notin Threads
         /\ \A t \in Threads : get_priority(t) \in Level /\ get_base_priority(t) \in Level
  <1>1. Normal \in Level /\ Idle \in Level /\ NoEntry \notin Level
    BY DEF Level, Normal, Idle, High, NoEntry
  <1>2. Threads = 1..Len(state) /\ Len(state) \in Nat
    BY DEF TypeOK, Threads
  <1>3. \A t \in Threads : /\ effective[t] \in Level \cup {NoEntry}
                           /\ base[t] \in Level \cup {NoEntry}
    BY <1>2 DEF TypeOK
  <1> QED BY <1>1, <1>2, <1>3 DEF get_priority, get_base_priority, None

(* The first half of on_timer_tick: the current thread is queued, and the  *)
(* queues keep every entry.                                                *)
LEMMA SelectInv ==
  ASSUME Inv, boot = "running", pc # "apply", select,
         UNCHANGED <<state, priorityVars, boot, ipcVars, expired, ticks, exited>>
  PROVE  Inv'
  <1> DEFINE requeued == push(queues, current, get_priority(current))
  <1> USE DEF Inv
  <1>1. /\ queues' = IF is_empty(queues) THEN queues ELSE rotate(requeued)
        /\ current' = IF is_empty(queues) THEN current ELSE None
        /\ previous' = current
        /\ next' = IF is_empty(queues) THEN None ELSE choice(requeued)
        /\ pc' = "apply"
    BY DEF select
  <1>2. UNCHANGED <<state, priority, base, effective, boot, waiting, polling, expired, ticks,
                    exited>>
    BY DEF priorityVars, ipcVars
  <1>3. /\ queues \in [Level -> Seq(Threads)] /\ Threads \subseteq Nat
        /\ current \in Threads
    BY PriorityFacts DEF TypeOK
  <1>4. /\ requeued \in [Level -> Seq(Threads)]
        /\ \A l \in Level : Range(queues[l]) \subseteq Range(requeued[l])
        /\ current \in Range(requeued[get_priority(current)])
        /\ ~is_empty(requeued)
    BY <1>3, PushFacts, PriorityFacts, Zenon
  <1>5. /\ rotate(requeued) \in [Level -> Seq(Threads)]
        /\ \A l \in Level : Range(rotate(requeued)[l]) = Range(requeued[l])
        /\ choice(requeued) \in Threads
    BY <1>3, <1>4, PopNextFacts, Zenon
  <1> HIDE DEF requeued
  <1>6. /\ Threads' = Threads
        /\ \A t \in Threads : get_priority(t)' = get_priority(t)
        /\ \A t \in Threads : get_base_priority(t)' = get_base_priority(t)
    BY <1>2 DEF Threads, get_priority, get_base_priority
  <1>7. OnCpu = current /\ OnCpu' = current
    BY <1>1 DEF OnCpu
  <1>8. \A l \in Level : Range(queues[l]) \subseteq Range(queues'[l])
    BY <1>1, <1>4, <1>5
  <1>9. TypeOK'
    <2>1. queues' \in [Level -> Seq(Threads)] /\ next' \in Threads \cup {None}
      BY <1>1, <1>3, <1>5
    <2> QED BY <1>1, <1>2, <1>3, <1>6, <2>1, Zenon DEF TypeOK
  <1>10. OnlyCurrentRuns'
    BY <1>2, <1>6, <1>7 DEF OnlyCurrentRuns
  <1>11. ReadyQueued'
    BY <1>2, <1>6, <1>7, <1>8, PriorityFacts DEF ReadyQueued
  <1>12. NoBoost' /\ BootsIdle'
    BY <1>2, <1>6 DEF NoBoost, BootsIdle
  <1>13. PreviousQueued'
    <2> SUFFICES ASSUME next' # None
                 PROVE  current \in Range(queues'[get_priority(current)])
      BY <1>1, <1>3, <1>6 DEF PreviousQueued, get_priority, priorityVars
    <2>1. ~is_empty(queues) /\ get_priority(current) \in Level
      BY <1>1, <1>3, PriorityFacts
    <2> QED BY <1>1, <1>4, <1>5, <2>1
  <1> QED BY <1>9, <1>10, <1>11, <1>12, <1>13

(* The second half: the chosen thread runs, and the one it replaces is     *)
(* Ready and queued.                                                       *)
LEMMA ApplyInv ==
  ASSUME Inv, apply_switch_with_previous
  PROVE  Inv'
  <1> USE DEF Inv
  <1>1. /\ state' = switched /\ current' = chosen
        /\ pc' = "user" /\ previous' = None /\ next' = None
        /\ boot = "running" /\ pc = "apply"
    BY DEF apply_switch_with_previous, At
  <1>2. UNCHANGED <<queues, priority, base, effective, boot, waiting, polling, expired, ticks,
                    exited>>
    BY DEF apply_switch_with_previous, priorityVars, ipcVars
  <1>3. /\ current' \in Threads
        /\ state' \in Seq(ThreadState) /\ Len(state') = Len(state)
        /\ Threads' = Threads
        /\ previous # current' => state'[previous] = "Ready"
        /\ \A t \in Threads \ {previous, current'} : state'[t] = state[t]
    BY <1>1, SwitchFacts DEF Threads
  <1>4. OnCpu = previous /\ OnCpu' = current'
    BY <1>1, SMTT(30) DEF OnCpu
  <1>5. /\ \A t \in Threads : get_priority(t)' = get_priority(t)
        /\ \A t \in Threads : get_base_priority(t)' = get_base_priority(t)
    BY <1>2 DEF get_priority, get_base_priority
  <1>6. TypeOK'
    BY <1>1, <1>2, <1>3, PriorityFacts, Zenon DEF TypeOK
  <1>7. OnlyCurrentRuns'
    BY <1>3, <1>4 DEF OnlyCurrentRuns
  <1>8. ReadyQueued'
    <2> SUFFICES ASSUME NEW t \in Threads \ {IdleThread, current'}, state'[t] = "Ready"
                 PROVE  t \in Range(queues[get_priority(t)])
      BY <1>2, <1>3, <1>4, <1>5, Zenon DEF ReadyQueued
    <2>1. CASE t = previous
      <3>1. next # None
        BY <1>1, <2>1, PriorityFacts DEF chosen
      <3> QED BY <1>1, <2>1, <3>1 DEF PreviousQueued
    <2>2. CASE t # previous
      BY <1>3, <1>4, <2>2 DEF ReadyQueued
    <2> QED BY <2>1, <2>2
  <1>9. NoBoost' /\ BootsIdle' /\ PreviousQueued'
    BY <1>1, <1>2, <1>3, <1>5 DEF NoBoost, BootsIdle, PreviousQueued
  <1> QED BY <1>6, <1>7, <1>8, <1>9

(* The calls that set the state of the current thread.                     *)
LEMMA MarkInv ==
  ASSUME Inv, boot = "running", pc # "apply", NEW new \in ThreadState, mark_current(new),
         waiting' \subseteq waiting,
         polling' \subseteq polling \cup {current},
         exited' \subseteq exited \cup {current}
  PROVE  Inv'
  <1> USE DEF Inv
  <1>1. /\ current \in Threads
        /\ pc' = "select" /\ previous' = previous /\ next' = next
        /\ UNCHANGED <<priority, base, effective, queues, current, boot, expired, ticks>>
    BY DEF mark_current, priorityVars, TypeOK
  <1>2. /\ state' \in Seq(ThreadState) /\ Threads' = Threads
        /\ Len(state') = Len(state)
        /\ \A t \in Threads \ {current} : state'[t] = state[t]
    BY <1>1 DEF mark_current, set_state, TypeOK, Threads
  <1>3. OnCpu = current /\ OnCpu' = current
    BY <1>1 DEF OnCpu
  <1>4. TypeOK'
    BY <1>1, <1>2, Zenon DEF TypeOK
  <1>5. OnlyCurrentRuns' /\ ReadyQueued'
    BY <1>1, <1>2, <1>3, Zenon DEF OnlyCurrentRuns, ReadyQueued, get_priority
  <1>6. NoBoost' /\ BootsIdle' /\ PreviousQueued'
    BY <1>1, <1>2, SMTT(60) DEF NoBoost, BootsIdle, PreviousQueued, get_priority, get_base_priority
  <1> QED BY <1>4, <1>5, <1>6

(* ipc_recv registers the caller as a waiter.                              *)
LEMMA RecvInv ==
  ASSUME Inv, sys_ipc_recv
  PROVE  Inv'
  <1> USE DEF Inv
  <1>1. /\ current \in Threads /\ boot = "running" /\ pc = "user"
        /\ waiting' = waiting \cup {current} /\ pc' = "block"
        /\ UNCHANGED <<state, priority, base, effective, queues, current, boot, previous, next,
                       polling, expired, ticks, exited>>
    BY SMTT(30) DEF sys_ipc_recv, Calls, Runs, At, priorityVars, TypeOK
  <1>2. TypeOK'
    BY <1>1, Zenon DEF TypeOK, Threads
  <1>3. OnlyCurrentRuns' /\ ReadyQueued' /\ NoBoost' /\ BootsIdle' /\ PreviousQueued'
    BY <1>1, Zenon DEF OnlyCurrentRuns, ReadyQueued, NoBoost, BootsIdle, PreviousQueued, OnCpu,
                get_priority, get_base_priority, Threads
  <1> QED BY <1>2, <1>3

(* mark_thread_ready and restore_original_priority for one waiter.         *)
LEMMA WakeInv ==
  ASSUME Inv, NEW id \in Threads, wake(id), waiting' \subseteq waiting,
         expired' \subseteq Threads, UNCHANGED ticks
  PROVE  Inv'
  <1> USE DEF Inv
  <1>1. /\ state' = set_state(state, id, "Ready")
        /\ queues' = push(queues, id, get_priority(id))
        /\ effective' = [effective EXCEPT ![id] = get_base_priority(id)]
        /\ UNCHANGED <<priority, base, current, boot, pc, previous, next, polling, exited>>
    BY SMTT(30) DEF wake, mark_ready, callVars
  <1>2. /\ state' \in Seq(ThreadState) /\ Threads' = Threads
        /\ Len(state') = Len(state)
        /\ state'[id] = "Ready"
        /\ \A t \in Threads \ {id} : state'[t] = state[t]
    BY <1>1, SMTT(30) DEF set_state, ThreadState, TypeOK, Threads
  <1>3. \A t \in Threads : get_priority(t)' = get_priority(t)
    BY <1>1, PriorityFacts, SMTT(90) DEF get_priority, get_base_priority, NoBoost, TypeOK
  <1>4. /\ queues' \in [Level -> Seq(Threads)]
        /\ \A l \in Level : Range(queues[l]) \subseteq Range(queues'[l])
        /\ id \in Range(queues'[get_priority(id)])
    BY <1>1, PriorityFacts, PushFacts, ZenonT(40) DEF TypeOK
  <1>5. TypeOK'
    <2> DEFINE L == Level \cup {NoEntry}
               b == get_base_priority(id)
    <2>a. b \in L /\ effective \in Seq(L) /\ Len(effective) = Len(state)
      BY PriorityFacts, Zenon DEF TypeOK
    <2>b. effective' = [effective EXCEPT ![id] = b] /\ id \in 1..Len(effective)
      BY <1>1, <2>a DEF Threads, TypeOK
    <2> HIDE DEF L, b
    <2>c. effective' \in Seq(L) /\ Len(effective') = Len(effective)
      BY <2>a, <2>b
    <2>1. effective' \in Seq(Level \cup {NoEntry}) /\ Len(effective') = Len(state)
      BY <2>a, <2>c DEF L
    <2> QED BY <1>1, <1>2, <1>4, <2>1, PriorityFacts, ZenonT(40) DEF TypeOK
  <1>a. OnCpu' = OnCpu
    BY <1>1 DEF OnCpu
  <1>6. OnlyCurrentRuns'
    BY <1>2, <1>a DEF OnlyCurrentRuns
  <1>7. ReadyQueued'
    <2> SUFFICES ASSUME NEW t \in Threads \ {IdleThread, OnCpu}, state'[t] = "Ready"
                 PROVE  t \in Range(queues'[get_priority(t)])
      BY <1>2, <1>3, <1>a DEF ReadyQueued
    <2> QED BY <1>2, <1>4, PriorityFacts, ZenonT(40) DEF ReadyQueued
  <1>8. NoBoost'
    BY <1>1, <1>2, <1>3 DEF NoBoost, get_base_priority
  <1>9. BootsIdle'
    BY <1>1 DEF BootsIdle, Threads
  <1>10. PreviousQueued'
    <2> PICK t : t = previous
      BY SMTT(30)
    <2> SUFFICES ASSUME pc = "apply", next # None, t # IdleThread
                 PROVE  t \in Range(queues'[get_priority(t)'])
      BY <1>1, Zenon DEF PreviousQueued, get_priority
    <2>1. t \in Threads /\ t \in Range(queues[get_priority(t)])
      BY DEF TypeOK, PreviousQueued
    <2> QED BY <1>3, <1>4, <2>1, PriorityFacts
  <1> QED BY <1>5, <1>6, <1>7, <1>8, <1>9, <1>10

(* A new thread, Ready and queued with the Normal ones.                    *)
LEMMA NewThreadInv ==
  ASSUME Inv, boot # "init_scheduler", pc # "apply", NEW p \in Level, NEW b \in {Normal, NoEntry},
         state' = Append(state, "Ready"), priority' = Append(priority, p),
         base' = Append(base, b), effective' = Append(effective, b),
         queues' = push(queues, Len(state) + 1, Normal),
         UNCHANGED <<current, boot, callVars, ipcVars, expired, ticks, exited>>
  PROVE  Inv'
  <1> PICK id : id = Len(state) + 1
    OBVIOUS
  <1> USE DEF Inv
  <1>1. /\ state' \in Seq(ThreadState) /\ Len(state') = id
        /\ Threads' = Threads \cup {id}
        /\ Threads' \subseteq Nat /\ id \notin Threads
        /\ state'[id] = "Ready"
        /\ \A t \in Threads : state'[t] = state[t]
    BY SMTT(60) DEF TypeOK, Threads, ThreadState
  <1>a. b \in Level \cup {NoEntry}
    BY PriorityFacts
  <1>b. priority' \in Seq(Level) /\ Len(priority') = id
    BY DEF TypeOK
  <1>2. /\ base' \in Seq(Level \cup {NoEntry}) /\ Len(base') = id /\ base'[id] = b
        /\ \A t \in Threads : base'[t] = base[t]
    BY <1>a, SMTT(60) DEF TypeOK, Threads
  <1>c. /\ effective' \in Seq(Level \cup {NoEntry}) /\ Len(effective') = id
        /\ effective'[id] = b
        /\ \A t \in Threads : effective'[t] = effective[t]
    BY <1>a, SMTT(60) DEF TypeOK, Threads
  <1>3. /\ get_priority(id)' = Normal /\ get_base_priority(id)' = Normal
        /\ \A t \in Threads : get_priority(t)' = get_priority(t)
        /\ \A t \in Threads : get_base_priority(t)' = get_base_priority(t)
    BY <1>2, <1>c, ZenonT(40) DEF get_priority, get_base_priority
  <1>4. queues \in [Level -> Seq(Threads')]
    BY <1>1, SeqOfSubset, Zenon DEF TypeOK
  <1>5. /\ queues' \in [Level -> Seq(Threads')]
        /\ \A l \in Level : Range(queues[l]) \subseteq Range(queues'[l])
        /\ id \in Range(queues'[Normal])
    <2>1. queues' = push(queues, id, Normal) /\ id \in Threads' /\ Normal \in Level
      BY <1>1, PriorityFacts
    <2> PICK S : S = Threads'
      OBVIOUS
    <2>2. S \subseteq Nat /\ queues \in [Level -> Seq(S)] /\ id \in S
      BY <1>1, <1>4, <2>1, Zenon
    <2>3. /\ push(queues, id, Normal) \in [Level -> Seq(S)]
          /\ \A l \in Level : Range(queues[l]) \subseteq Range(push(queues, id, Normal)[l])
          /\ id \in Range(push(queues, id, Normal)[Normal])
      BY <2>1, <2>2, PushFacts, Zenon
    <2> QED BY <2>1, <2>3, ZenonT(40)
  <1>6. TypeOK'
    BY <1>1, <1>b, <1>2, <1>c, <1>5, Zenon DEF TypeOK, ipcVars, callVars
  <1>d. OnCpu = current /\ OnCpu' = current
    BY DEF OnCpu, callVars
  <1>7. OnlyCurrentRuns'
    BY <1>1, <1>d, ZenonT(40) DEF OnlyCurrentRuns
  <1>8. ReadyQueued'
    <2> SUFFICES ASSUME NEW t \in Threads' \ {IdleThread, current}, state'[t] = "Ready"
                 PROVE  t \in Range(queues'[get_priority(t)'])
      BY <1>d, Zenon DEF ReadyQueued
    <2>1. CASE t = id
      BY <2>1, <1>3, <1>5, SMTT(60)
    <2>2. CASE t \in Threads
      BY <2>2, <1>1, <1>3, <1>5, <1>d, PriorityFacts, ZenonT(120) DEF ReadyQueued
    <2> QED BY <2>1, <2>2, <1>1
  <1>9. NoBoost'
    BY <1>1, <1>3, SMTT(60) DEF NoBoost
  <1>10. BootsIdle' /\ PreviousQueued'
    BY DEF BootsIdle, PreviousQueued, callVars
  <1> QED BY <1>6, <1>7, <1>8, <1>9, <1>10

(* start_scheduling's only call of schedule, up to its apply_switch.       *)
LEMMA ScheduleInv ==
  ASSUME Inv, schedule
  PROVE  Inv'
  <1> USE DEF Inv
  <1>1. /\ queues' = rotate(queues) /\ next' = choice(queues)
        /\ previous' = current /\ pc' = "apply"
        /\ boot = "launch_init" /\ boot' = "running"
        /\ UNCHANGED <<state, current, priority, base, effective, waiting, polling, expired,
                       ticks, exited>>
    BY DEF schedule, priorityVars, ipcVars
  <1>2. /\ queues \in [Level -> Seq(Threads)] /\ Threads \subseteq Nat
        /\ current = IdleThread /\ current \in Threads /\ pc = "user"
    BY <1>1, PriorityFacts, Zenon DEF TypeOK, BootsIdle
  <1>3. /\ queues' \in [Level -> Seq(Threads)]
        /\ \A l \in Level : Range(queues'[l]) = Range(queues[l])
        /\ next' \in Threads \cup {None}
    BY <1>1, <1>2, PopNextFacts, ZenonT(40) DEF choice
  <1>4. OnCpu = current /\ OnCpu' = current
    BY <1>1, <1>2 DEF OnCpu
  <1>5. /\ Threads' = Threads
        /\ \A t \in Threads : get_priority(t)' = get_priority(t)
        /\ \A t \in Threads : get_base_priority(t)' = get_base_priority(t)
    BY <1>1, Zenon DEF Threads, get_priority, get_base_priority
  <1>6. TypeOK'
    BY <1>1, <1>2, <1>3, <1>5, Zenon DEF TypeOK
  <1>7. OnlyCurrentRuns'
    BY <1>1, <1>4, <1>5 DEF OnlyCurrentRuns
  <1>8. ReadyQueued'
    BY <1>1, <1>3, <1>4, <1>5, PriorityFacts, ZenonT(60) DEF ReadyQueued
  <1>9. NoBoost' /\ BootsIdle' /\ PreviousQueued'
    BY <1>1, <1>2, <1>5 DEF NoBoost, BootsIdle, PreviousQueued
  <1> QED BY <1>6, <1>7, <1>8, <1>9

(* init_scheduler installs the idle thread.                                *)
LEMMA InitSchedulerInv ==
  ASSUME Inv, init
  PROVE  Inv'
  <1>1. state' = <<"Running">> /\ Threads' = {1} /\ Len(state') = 1 /\ current' = 1
    BY DEF init, Threads, IdleThread
  <1>2. boot' = "launch_init" /\ priority' = <<Idle>> /\ base' = <<Idle>>
        /\ effective' = <<Idle>>
        /\ UNCHANGED <<queues, pc, previous, next, waiting, polling, expired, ticks, exited>>
    BY DEF init, ipcVars, callVars
  <1>3. Idle \in Level /\ "Running" \in ThreadState
    BY DEF Idle, Level, High, ThreadState
  <1>4. Threads = {} /\ Threads \subseteq Threads' /\ pc = "user"
    BY DEF Inv, BootsIdle, init, Threads, TypeOK
  <1>5. queues' \in [Level -> Seq(Threads')]
    BY <1>2, <1>4, SeqOfSubset DEF Inv, TypeOK
  <1>6. TypeOK'
    <2>1. /\ state' \in Seq(ThreadState)
          /\ priority' \in Seq(Level) /\ Len(priority') = Len(state')
          /\ base' \in Seq(Level \cup {NoEntry}) /\ Len(base') = Len(state')
          /\ effective' \in Seq(Level \cup {NoEntry}) /\ Len(effective') = Len(state')
      BY <1>1, <1>2, <1>3, SMTT(30)
    <2> QED BY <1>1, <1>2, <1>4, <1>5, <2>1 DEF Inv, TypeOK, None
  <1>7. OnlyCurrentRuns' /\ ReadyQueued' /\ BootsIdle' /\ PreviousQueued'
    BY <1>1, <1>2, <1>4, Zenon DEF OnlyCurrentRuns, ReadyQueued, BootsIdle, PreviousQueued, OnCpu,
                            IdleThread
  <1>8. NoBoost'
    BY <1>1, <1>2, <1>3 DEF NoBoost, get_priority, get_base_priority
  <1> QED BY <1>6, <1>7, <1>8 DEF Inv

(* ipc_wait_any marks itself Ready while it runs.                          *)
LEMMA WaitAnyReturnsInv ==
  ASSUME Inv, wait_any_returns
  PROVE  Inv'
  <1> USE DEF Inv
  <1>1. current \in Threads /\ pc = "user"
    BY DEF wait_any_returns, TypeOK, Runs, At
  <1>2. /\ state' \in Seq(ThreadState) /\ Threads' = Threads
        /\ Len(state') = Len(state)
        /\ \A t \in Threads \ {current} : state'[t] = state[t]
        /\ state'[current] = "Ready"
    BY <1>1 DEF wait_any_returns, set_state, ThreadState, TypeOK, Threads
  <1>3. /\ UNCHANGED <<priority, base, effective, queues, current, boot, pc, previous, next,
                       waiting, expired, ticks, exited>>
        /\ polling' \subseteq polling /\ boot = "running"
    BY DEF wait_any_returns, priorityVars, callVars, Runs, At
  <1>4. TypeOK'
    BY <1>1, <1>2, <1>3, Zenon DEF TypeOK
  <1>5. OnlyCurrentRuns' /\ ReadyQueued'
    BY <1>1, <1>2, <1>3, Zenon DEF OnlyCurrentRuns, ReadyQueued, OnCpu, get_priority
  <1>6. NoBoost' /\ BootsIdle' /\ PreviousQueued'
    BY <1>1, <1>2, <1>3 DEF NoBoost, BootsIdle, PreviousQueued, get_priority,
                            get_base_priority
  <1> QED BY <1>4, <1>5, <1>6, SMTT(30)

(* The timer interrupt takes the expired waiters off IpcManager's list.    *)
LEMMA TimerInv ==
  ASSUME Inv, NEW ids \in SUBSET waiting, timer_interrupt(ids)
  PROVE  Inv'
  <1> USE DEF Inv
  <1>1. /\ UNCHANGED <<state, priority, base, effective, queues, current, boot, pc,
                       previous, next, polling, exited>>
        /\ waiting' \subseteq waiting /\ expired' = ids
        /\ ticks' = (ticks + 1) % 2
    BY DEF timer_interrupt, priorityVars, callVars
  <1>2. TypeOK'
    BY <1>1, SMTT(60) DEF TypeOK, Threads
  <1>3. OnlyCurrentRuns' /\ ReadyQueued' /\ NoBoost' /\ BootsIdle' /\ PreviousQueued'
    BY <1>1, ZenonT(40) DEF OnlyCurrentRuns, ReadyQueued, NoBoost, BootsIdle, PreviousQueued, OnCpu,
                get_priority, get_base_priority, Threads
  <1> QED BY <1>2, <1>3

(* Every step keeps the inductive invariant.                               *)
LEMMA NextInv == Inv /\ [Next]_vars => Inv'
  <1> SUFFICES ASSUME Inv, [Next]_vars
               PROVE  Inv'
    OBVIOUS
  <1>t. Inv => TypeOK
    BY DEF Inv
  <1>1. CASE init
    BY <1>1, InitSchedulerInv
  <1>2. CASE spawn_boot_thread
    <2>1. BootPriorities[Len(state)] \in Level
      <3>1. Len(state) \in Nat /\ state # <<>>
        BY <1>t, <1>2, SMTT(90) DEF Inv, TypeOK, spawn_boot_thread, BootsIdle, None, IdleThread, Threads
      <3> QED BY <1>t, <1>2, <3>1, ConstantsAssumption DEF spawn_boot_thread, TypeOK
    <2>2. pc # "apply"
      BY <1>t, <1>2, Zenon DEF TypeOK, spawn_boot_thread
    <2> QED BY <1>2, <2>1, <2>2, NewThreadInv DEF spawn_boot_thread
  <1>3. CASE schedule
    BY <1>3, ScheduleInv
  <1>4. CASE sys_thread_yield \/ on_timer_tick
    BY <1>4, SelectInv DEF sys_thread_yield, on_timer_tick, Calls, Runs, At
  <1>5. CASE apply_switch_with_previous
    BY <1>5, ApplyInv
  <1>6. CASE sys_thread_exit \/ sys_thread_sleep \/ recv_blocks \/ sys_ipc_wait_any
    <2>1. "Blocked" \in ThreadState /\ "Exited" \in ThreadState
      BY DEF ThreadState
    <2> QED BY <1>6, <2>1, MarkInv DEF sys_thread_exit, sys_thread_sleep, recv_blocks,
                                       sys_ipc_wait_any, Calls, Runs, At, ipcVars
  <1>7. CASE sys_thread_create
    BY <1>7, <1>t, PriorityFacts, NewThreadInv, Zenon DEF sys_thread_create, Calls, Runs, At
  <1>8. CASE sys_ipc_recv
    BY <1>8, RecvInv
  <1>10. CASE wait_any_returns
    BY <1>10, WaitAnyReturnsInv
  <1>11. CASE \E id \in waiting : wake_by_send(id)
    BY <1>11, <1>t, WakeInv, Zenon DEF wake_by_send, TypeOK
  <1>12. CASE \E ids \in SUBSET waiting : timer_interrupt(ids)
    BY <1>12, TimerInv
  <1>13. CASE \E id \in expired : wake_expired(id)
    BY <1>13, <1>t, WakeInv, Zenon DEF wake_expired, TypeOK
  <1>14. CASE UNCHANGED vars
    BY <1>14, ZenonT(60) DEF vars, priorityVars, callVars, ipcVars, Inv, TypeOK, OnlyCurrentRuns,
                 ReadyQueued, NoBoost, BootsIdle, PreviousQueued, OnCpu, get_priority,
                 get_base_priority, Threads
  <1> QED BY <1>1, <1>2, <1>3, <1>4, <1>5, <1>6, <1>7, <1>8, <1>10, <1>11,
             <1>12, <1>13, <1>14 DEF Next

(* The inductive invariant holds in every behaviour.                       *)
LEMMA SpecInv == Spec => []Inv
  BY InitInv, NextInv, PTL DEF Spec

---------------------------------------------------------------------------
(* Every variable has its type, for any number of threads.                 *)
THEOREM TypeCorrect == Spec => []TypeOK
  <1>1. Inv => TypeOK
    BY DEF Inv
  <1> QED BY <1>1, SpecInv, PTL

(* sched.rs and thread.rs agree on who runs: only the TCB of the current   *)
(* thread says Running.                                                    *)
THEOREM OneThreadRuns == Spec => []OnlyCurrentRuns
  <1>1. Inv => OnlyCurrentRuns
    BY DEF Inv
  <1> QED BY <1>1, SpecInv, PTL

(* A Ready thread is never missing from the queue it will be chosen from.  *)
THEOREM NoReadyThreadLost == Spec => []ReadyQueued
  <1>1. Inv => ReadyQueued
    BY DEF Inv
  <1> QED BY <1>1, SpecInv, PTL

---------------------------------------------------------------------------
(* A queue is a prefix of itself and of itself with an entry at the back.  *)
LEMMA PrefixFacts ==
  ASSUME NEW s \in Seq(Nat), NEW e \in Nat
  PROVE  IsPrefix(s, s) /\ IsPrefix(s, Append(s, e)) /\ (s = <<>> => IsPrefix(s, <<e>>))
  BY DEF IsPrefix

(* Taking the head of a queue to its back, after an entry was added or not.*)
LEMMA RotatedPrefix ==
  ASSUME NEW s \in Seq(Nat), NEW e \in Nat, s # <<>>
  PROVE  /\ IsPrefix(Tail(s), Append(Tail(s), Head(s)))
         /\ Head(Append(s, e)) = Head(s)
         /\ IsPrefix(Tail(s), Append(Tail(Append(s, e)), Head(s)))
  <1>1. /\ Tail(s) \in Seq(Nat) /\ Head(s) \in Nat
        /\ Head(Append(s, e)) = Head(s)
        /\ Tail(Append(s, e)) = Append(Tail(s), e)
    OBVIOUS
  <1>2. IsPrefix(Tail(s), Append(Tail(s), Head(s)))
    BY <1>1, PrefixFacts, ZenonT(40)
  <1>3. \A t \in Seq(Nat), a, b \in Nat : IsPrefix(t, Append(Append(t, a), b))
    BY SMTT(30) DEF IsPrefix
  <1> QED BY <1>1, <1>2, <1>3, ZenonT(40)

(* One level, when the current thread is queued and the queues rotate.     *)
LEMMA TickTurn ==
  ASSUME Inv, current \in Threads, ~is_empty(queues), NEW l \in Level,
         queues' = rotate(push(queues, current, get_priority(current))),
         next' = choice(push(queues, current, get_priority(current)))
  PROVE  \/ IsPrefix(queues[l], queues'[l])
         \/ next' = Head(queues[l]) /\ IsPrefix(Tail(queues[l]), queues'[l])
  <1> DEFINE p == get_priority(current)
             qs == push(queues, current, p)
             top == TopLevel(qs)
  <1>1. /\ current \in Nat /\ p \in Level /\ Threads \subseteq Nat
        /\ queues \in [Level -> Seq(Threads)]
    BY PriorityFacts, Zenon DEF Inv, TypeOK
  <1>2. queues[l] \in Seq(Nat)
    <2>1. queues[l] \in Seq(Threads)
      BY <1>1
    <2> QED BY <1>1, <2>1, SeqOfSubset, ZenonT(40)
  <1>3. ~is_empty(qs)
    BY <1>1, PushFacts, Zenon
  <1>4. top \in Level
    BY <1>3, TopLevelFacts, Zenon
  <1>5. qs[l] = IF l = p THEN Append(queues[l], current) ELSE queues[l]
    BY <1>1 DEF push
  <1>6. queues' = [qs EXCEPT ![top] = Append(Tail(@), Head(@))] /\ next' = Head(qs[top])
    BY <1>3, Zenon DEF rotate, choice
  <1>7. qs[top] # <<>> /\ DOMAIN qs = Level
    BY <1>1, <1>3, TopLevelFacts, Zenon DEF push
  <1> HIDE DEF p, qs, top
  <1>8. CASE l # top
    <2>1. queues'[l] = qs[l]
      BY <1>6, <1>7, <1>8, Zenon
    <2> QED BY <1>1, <1>2, <1>5, <2>1, PrefixFacts, ZenonT(40)
  <1>9. CASE l = top
    <2>1. queues'[l] = Append(Tail(qs[l]), Head(qs[l])) /\ next' = Head(qs[l])
      BY <1>6, <1>7, <1>9, Zenon
    <2>2. CASE queues[l] = <<>>
      <3>a. \A e \in Nat : /\ Append(<<>>, e) = <<e>> /\ Head(<<e>>) = e
                           /\ Append(Tail(<<e>>), e) = <<e>>
        OBVIOUS
      <3>b. l = p
        BY <1>5, <1>7, <1>9, <2>2, Zenon
      <3>c. qs[l] = <<current>>
        BY <1>1, <1>5, <2>2, <3>a, <3>b, Zenon
      <3>1. qs[l] = <<current>> /\ queues'[l] = <<current>>
        BY <1>1, <2>1, <3>a, <3>c, Zenon
      <3> QED BY <1>1, <1>2, <2>2, <3>1, PrefixFacts, ZenonT(40)
    <2>3. CASE queues[l] # <<>> /\ l = p
      BY <1>1, <1>2, <1>5, <2>1, <2>3, RotatedPrefix, ZenonT(120)
    <2>4. CASE queues[l] # <<>> /\ l # p
      BY <1>1, <1>2, <1>5, <2>1, <2>4, RotatedPrefix, Zenon
    <2> QED BY <2>2, <2>3, <2>4, Zenon
  <1> QED BY <1>8, <1>9, ZenonT(40)

(* A step that chooses.                                                    *)
LEMMA TurnOfSelect ==
  ASSUME Inv, boot = "running", pc # "apply", select, NEW l \in Level
  PROVE  \/ IsPrefix(queues[l], queues'[l])
         \/ next' = Head(queues[l]) /\ IsPrefix(Tail(queues[l]), queues'[l])
  <1>1. current \in Threads /\ queues[l] \in Seq(Nat)
    <2>1. current \in Threads /\ queues[l] \in Seq(Threads) /\ Threads \subseteq Nat
      BY PriorityFacts, Zenon DEF Inv, TypeOK
    <2> QED BY <2>1, SeqOfSubset, Zenon
  <1>2. CASE is_empty(queues)
    <2>1. queues' = queues
      BY <1>2 DEF select
    <2> QED BY <1>1, <2>1, PrefixFacts, Zenon
  <1>3. CASE ~is_empty(queues)
    BY <1>1, <1>3, TickTurn, Zenon DEF select
  <1> QED BY <1>2, <1>3, Zenon

(* No entry of a ready queue ever moves away from the head: with any       *)
(* number of threads a Ready thread's turn comes after as many switches at *)
(* its level as it has entries ahead of it.                                *)
THEOREM NoEntryOvertaken == Spec => TurnAdvances
  <1> DEFINE Turn(l) == \/ IsPrefix(queues[l], queues'[l])
                        \/ next' = Head(queues[l]) /\ IsPrefix(Tail(queues[l]), queues'[l])
             Step == \A l \in Level : Turn(l)
  <1>1. ASSUME Inv, [Next]_vars
        PROVE  [Step]_vars
    <2> SUFFICES ASSUME Next, NEW l \in Level
                 PROVE  Turn(l)
      BY <1>1
    <2> USE <1>1
    <2>1. queues[l] \in Seq(Nat)
      <3>1. queues[l] \in Seq(Threads) /\ Threads \subseteq Nat
        BY PriorityFacts, Zenon DEF Inv, TypeOK
      <3> QED BY <3>1, SeqOfSubset, ZenonT(40)
    <2>2. CASE UNCHANGED queues
      BY <2>1, <2>2, PrefixFacts, Zenon
    <2>3. CASE \E id \in Nat, p \in Level : queues' = push(queues, id, p)
      <3>1. PICK id \in Nat, p \in Level : queues' = push(queues, id, p)
        BY <2>3
      <3>2. queues'[l] = IF l = p THEN Append(queues[l], id) ELSE queues[l]
        BY <3>1 DEF push, Inv, TypeOK
      <3> QED BY <2>1, <3>1, <3>2, PrefixFacts, Zenon
    <2>4. CASE schedule
      <3> DEFINE top == TopLevel(queues)
      <3>1. CASE is_empty(queues)
        BY <2>2, <2>4, <3>1 DEF schedule, rotate
      <3>2. CASE ~is_empty(queues)
        <4>1. top \in Level /\ queues[top] # <<>>
          BY <3>2, TopLevelFacts
        <4>2. queues' = [queues EXCEPT ![top] = Append(Tail(@), Head(@))]
          BY <2>4, <3>2 DEF schedule, rotate
        <4>3. next' = Head(queues[top])
          BY <2>4, <3>2 DEF schedule, choice
        <4>4. DOMAIN queues = Level
          BY SMTT(60) DEF Inv, TypeOK
        <4> HIDE DEF top
        <4>5. CASE l = top
          BY <2>1, <4>1, <4>2, <4>3, <4>4, <4>5, RotatedPrefix
        <4>6. CASE l # top
          BY <2>1, <4>2, <4>4, <4>6, PrefixFacts, ZenonT(40)
        <4> QED BY <4>5, <4>6
      <3> QED BY <3>1, <3>2, Zenon
    <2>6. CASE spawn_boot_thread \/ sys_thread_create
      <3>1. Len(state) + 1 \in Nat /\ Normal \in Level
        BY PriorityFacts, SMTT(90) DEF Inv, TypeOK
      <3> QED BY <2>3, <2>6, <3>1, Zenon DEF spawn_boot_thread, sys_thread_create
    <2>7. CASE \E id \in Threads : wake(id)
      <3>1. \A id \in Threads : id \in Nat /\ get_priority(id) \in Level
        BY PriorityFacts DEF Inv
      <3> QED BY <2>3, <2>7, <3>1, Zenon DEF wake, mark_ready
    <2>8. CASE sys_thread_yield \/ on_timer_tick
      BY <2>8, TurnOfSelect, SMTT(60) DEF sys_thread_yield, on_timer_tick, Calls, Runs, At
    <2>9. CASE \/ init \/ sys_thread_exit \/ sys_thread_sleep \/ sys_ipc_recv \/ recv_blocks
               \/ sys_ipc_wait_any \/ wait_any_returns \/ apply_switch_with_previous
               \/ \E ids \in SUBSET waiting : timer_interrupt(ids)
      BY <2>2, <2>9, Zenon DEF init, sys_thread_exit, sys_thread_sleep, sys_ipc_recv, recv_blocks,
                        sys_ipc_wait_any, mark_current, wait_any_returns,
                        apply_switch_with_previous, timer_interrupt
    <2>10. CASE \/ \E id \in waiting : wake_by_send(id)
                \/ \E id \in expired : wake_expired(id)
      BY <2>7, <2>10, SMTT(60) DEF wake_by_send, wake_expired, Inv, TypeOK
    <2> QED BY <2>4, <2>6, <2>8, <2>9, <2>10, Zenon DEF Next
  <1> QED BY <1>1, SpecInv, PTL DEF TurnAdvances, Spec
===========================================================================
