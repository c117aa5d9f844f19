----------------------------- MODULE IpcProofs ----------------------------
(***************************************************************************)
(* Proofs about module Ipc, for any number of threads and ports, any queue *)
(* depth and any batch size.                                               *)
(***************************************************************************)
EXTENDS Ipc, SeqLemmas, FiniteSetTheorems, TLAPS

(* Between the two steps of block_recv the port stays open and reserved    *)
(* for the caller, whatever the timer does: an older entry of the caller   *)
(* in waiting_threads is for another port.                                 *)
InsertingRegistered ==
  inserting # None =>
    /\ removing = None
    /\ receiving[inserting] \in Port /\ Open(receiving[inserting])
    /\ receiver_blocked[receiving[inserting]] = inserting
    /\ wait_port[inserting] # receiving[inserting]

(* The invariants are inductive together: a queue that accounts for its    *)
(* messages stays so only while a closed port has no queue, and a waiter   *)
(* is registered only if block_recv finishes as it began.                  *)
Inv == TypeOK /\ FifoNoLoss /\ WaiterRegistered /\ InsertingRegistered

(* The part of the type invariant and of FifoNoLoss about one queue.       *)
QueueOK(m, s, g) ==
  /\ m \in Seq(Nat) /\ s \in Nat /\ g \in Nat
  /\ Len(m) + g = s
  /\ \A i \in 1..Len(m) : m[i] = g + i

(* Queueing n messages numbered from s + 1.                                *)
LEMMA PushBackQueue ==
  ASSUME NEW m, NEW s, NEW g, QueueOK(m, s, g), NEW n \in Nat
  PROVE  /\ QueueOK(m \o [i \in 1..n |-> s + i], s + n, g)
         /\ Len(m \o [i \in 1..n |-> s + i]) = Len(m) + n
  <1> DEFINE b == [i \in 1..n |-> s + i]
  <1>1. b \in Seq(Nat) /\ Len(b) = n
    BY DEF QueueOK
  <1>2. \A i \in 1..n : b[i] = s + i
    OBVIOUS
  <1> HIDE DEF b
  <1>3. /\ m \o b \in Seq(Nat) /\ Len(m \o b) = Len(m) + n
        /\ \A i \in 1..(Len(m) + n) : (m \o b)[i] =
              IF i <= Len(m) THEN m[i] ELSE b[i - Len(m)]
    BY <1>1, ConcatElements DEF QueueOK
  <1>4. ASSUME NEW i \in 1..(Len(m) + n)
        PROVE  (m \o b)[i] = g + i
    <2>0. Len(m) \in Nat /\ g \in Nat /\ s = Len(m) + g
      BY DEF QueueOK
    <2>1. CASE i <= Len(m)
      BY <1>3, <2>0, <2>1 DEF QueueOK
    <2>2. CASE ~(i <= Len(m))
      <3>1. i - Len(m) \in 1..n
        BY <2>0, <2>2
      <3>2. (m \o b)[i] = s + (i - Len(m))
        BY <1>2, <1>3, <2>2, <3>1
      <3> QED BY <2>0, <3>2
    <2> QED BY <2>1, <2>2, Zenon
  <1>5. s + n \in Nat /\ Len(m) + n + g = s + n
    BY DEF QueueOK
  <1> QED BY <1>3, <1>4, <1>5, SMTT(60) DEF QueueOK, b

(* Taking the first c messages.                                            *)
LEMMA PopFrontQueue ==
  ASSUME NEW m, NEW s, NEW g, QueueOK(m, s, g), NEW c \in 0..Len(m)
  PROVE  /\ QueueOK(SubSeq(m, c + 1, Len(m)), s, g + c)
         /\ Len(SubSeq(m, c + 1, Len(m))) = Len(m) - c
  <1> DEFINE r == SubSeq(m, c + 1, Len(m))
  <1>1. Len(m) \in Nat /\ m \in Seq(Nat)
    BY DEF QueueOK
  <1>2. /\ r \in Seq(Nat)
        /\ Len(r) = IF c + 1 <= Len(m) THEN Len(m) - (c + 1) + 1 ELSE 0
        /\ \A i \in 1..(Len(m) - (c + 1) + 1) : r[i] = m[(c + 1) + i - 1]
    <2>1. c + 1 \in Int /\ Len(m) \in Int /\ \A i \in (c + 1)..Len(m) : m[i] \in Nat
      BY <1>1
    <2> QED BY <2>1, SubSeqElements
  <1> HIDE DEF r
  <1>3. Len(r) = Len(m) - c
    BY <1>1, <1>2
  <1>4. \A i \in 1..Len(r) : r[i] = (g + c) + i
    <2>1. \A i \in 1..Len(r) : i \in 1..(Len(m) - (c + 1) + 1) /\ c + i \in 1..Len(m)
      BY <1>1, <1>3
    <2>2. ASSUME NEW i \in 1..Len(r)
          PROVE  r[i] = m[c + i]
      <3>1. (c + 1) + i - 1 = c + i
        BY <1>1, <1>3
      <3> QED BY <1>2, <2>1, <3>1, Zenon
    <2> QED BY <1>1, <2>1, <2>2 DEF QueueOK
  <1>5. g + c \in Nat /\ Len(r) + (g + c) = s
    BY <1>1, <1>3, SMTT(60) DEF QueueOK
  <1> QED BY <1>2, <1>3, <1>4, <1>5, Zenon DEF QueueOK, r

(* No port, no thread waiting.                                             *)
LEMMA InitInv == Init => Inv
  <1> SUFFICES ASSUME Init PROVE Inv
    OBVIOUS
  <1>1. TypeOK
    BY IpcAssumption DEF Init, TypeOK, Never
  <1>2. FifoNoLoss /\ WaiterRegistered /\ InsertingRegistered
    BY DEF Init, FifoNoLoss, WaiterRegistered, InsertingRegistered, Open
  <1> QED BY <1>1, <1>2 DEF Inv

(* Every port's queue is as QueueOK says.                                  *)
LEMMA AllQueuesOK ==
  ASSUME Inv, NEW p \in Port
  PROVE  QueueOK(messages[p], sent[p], got[p])
  BY DEF Inv, TypeOK, FifoNoLoss, QueueOK

(* One port's queue changes and stays within bounds; the waiters do not    *)
(* change.                                                                 *)
LEMMA QueueStep ==
  ASSUME Inv, NEW p \in Port, NEW m, NEW s, NEW g, QueueOK(m, s, g),
         Len(m) <= MAX_QUEUE_DEPTH,
         messages' = [messages EXCEPT ![p] = m],
         sent' = [sent EXCEPT ![p] = s], got' = [got EXCEPT ![p] = g]
  PROVE  /\ messages' \in [Port -> Seq(Nat)] /\ sent' \in [Port -> Nat]
         /\ got' \in [Port -> Nat]
         /\ \A q \in Port : Len(messages'[q]) <= MAX_QUEUE_DEPTH
         /\ FifoNoLoss'
         /\ \A q \in Port \ {p} : messages'[q] = messages[q]
         /\ messages'[p] = m
  <1>1. /\ messages' \in [Port -> Seq(Nat)] /\ sent' \in [Port -> Nat]
        /\ got' \in [Port -> Nat]
        /\ messages'[p] = m /\ sent'[p] = s /\ got'[p] = g
    BY DEF Inv, TypeOK, QueueOK
  <1>2. \A q \in Port \ {p} : /\ messages'[q] = messages[q] /\ sent'[q] = sent[q]
                              /\ got'[q] = got[q]
    BY DEF Inv, TypeOK
  <1>3. ASSUME NEW q \in Port
        PROVE  /\ Len(messages'[q]) <= MAX_QUEUE_DEPTH
               /\ Len(messages'[q]) + got'[q] = sent'[q]
               /\ \A i \in 1..Len(messages'[q]) : messages'[q][i] = got'[q] + i
    <2>1. CASE q = p
      BY <1>1, <2>1 DEF QueueOK
    <2>2. CASE q # p
      BY <1>2, <2>2 DEF Inv, TypeOK, FifoNoLoss
    <2> QED BY <2>1, <2>2
  <1> QED BY <1>1, <1>2, <1>3 DEF FifoNoLoss

---------------------------------------------------------------------------
(* push_back and pop_front keep the queues in order and within bounds.     *)
LEMMA PushBackInv ==
  ASSUME Inv, NEW p \in Port, NEW n \in Nat, push_back(p, n)
  PROVE  /\ messages' \in [Port -> Seq(Nat)] /\ sent' \in [Port -> Nat]
         /\ got' \in [Port -> Nat]
         /\ \A q \in Port : Len(messages'[q]) <= MAX_QUEUE_DEPTH
         /\ FifoNoLoss'
         /\ \A q \in Port \ {p} : messages'[q] = messages[q]
  <1> DEFINE m == messages[p] \o [i \in 1..n |-> sent[p] + i]
  <1>1. QueueOK(m, sent[p] + n, got[p]) /\ Len(m) = Len(messages[p]) + n
    BY AllQueuesOK, PushBackQueue
  <1>2. /\ messages' = [messages EXCEPT ![p] = m]
        /\ sent' = [sent EXCEPT ![p] = sent[p] + n]
        /\ got' = [got EXCEPT ![p] = got[p]]
        /\ Len(messages[p]) + n <= MAX_QUEUE_DEPTH
    BY DEF push_back, Inv, TypeOK
  <1> HIDE DEF m
  <1> QED BY <1>1, <1>2, QueueStep, ZenonT(60)

(* Likewise for the receiving side; only a port with messages changes.     *)
LEMMA PopFrontInv ==
  ASSUME Inv, NEW p \in Port, NEW n \in Nat, pop_front(p, n)
  PROVE  /\ messages' \in [Port -> Seq(Nat)] /\ sent' \in [Port -> Nat]
         /\ got' \in [Port -> Nat]
         /\ \A q \in Port : Len(messages'[q]) <= MAX_QUEUE_DEPTH
         /\ FifoNoLoss'
         /\ \A q \in Port \ {p} : messages'[q] = messages[q]
         /\ messages[p] = <<>> => messages'[p] = <<>>
  <1> DEFINE c == IF n < Len(messages[p]) THEN n ELSE Len(messages[p])
             m == SubSeq(messages[p], c + 1, Len(messages[p]))
  <1>0. Len(messages[p]) \in Nat /\ Len(messages[p]) <= MAX_QUEUE_DEPTH
        /\ MAX_QUEUE_DEPTH \in Nat /\ messages[p] \in Seq(Nat)
    BY IpcAssumption DEF Inv, TypeOK
  <1>1. c \in 0..Len(messages[p])
    BY <1>0
  <1>2. /\ messages' = [messages EXCEPT ![p] = m]
        /\ sent' = [sent EXCEPT ![p] = sent[p]]
        /\ got' = [got EXCEPT ![p] = got[p] + c]
    BY DEF pop_front, Inv, TypeOK
  <1> HIDE DEF c
  <1>3. QueueOK(m, sent[p], got[p] + c) /\ Len(m) = Len(messages[p]) - c
    BY <1>1, AllQueuesOK, PopFrontQueue
  <1> HIDE DEF m
  <1>4. Len(m) <= MAX_QUEUE_DEPTH
    BY <1>0, <1>1, <1>3
  <1>5. messages[p] = <<>> => m = <<>>
    BY <1>0, <1>1, <1>3 DEF QueueOK
  <1> QED BY <1>2, <1>3, <1>4, <1>5, QueueStep, Zenon

(* A step that changes queues and leaves the waiters alone.                *)
LEMMA QueuesOnlyInv ==
  ASSUME Inv, NoCall, UNCHANGED <<created, owner, waitVars, pendingVars>>,
         receiving' \in [Thread -> Port \cup {NoPort}],
         messages' \in [Port -> Seq(Nat)], sent' \in [Port -> Nat], got' \in [Port -> Nat],
         \A q \in Port : Len(messages'[q]) <= MAX_QUEUE_DEPTH,
         FifoNoLoss',
         \A q \in Port : ~Open(q) => messages'[q] = messages[q]
  PROVE  Inv'
  <1>1. TypeOK'
    BY DEF Inv, TypeOK, waitVars, pendingVars
  <1>2. WaiterRegistered' /\ InsertingRegistered'
    BY Zenon DEF Inv, WaiterRegistered, InsertingRegistered, NoCall, waitVars, pendingVars, Open
  <1> QED BY <1>1, <1>2 DEF Inv

(* A new port: the next id, which nobody waits on.                         *)
LEMMA CreateInv ==
  ASSUME Inv, NEW t \in Thread, sys_ipc_create_port(t)
  PROVE  Inv'
  <1>1. /\ created' = created + 1 /\ created + 1 \in Port
        /\ owner' = [owner EXCEPT ![created + 1] = t]
        /\ UNCHANGED <<messages, sent, got, receiver_blocked, wait_port, deadline, receiving,
                       inserting, removing>>
        /\ created \in Nat /\ inserting = None
    BY IpcAssumption DEF sys_ipc_create_port, Calls, NoCall, Inv, TypeOK, Port, queueVars,
                         waitVars, pendingVars
  <1>2. TypeOK'
    BY <1>1, SMTT(60) DEF Inv, TypeOK, Port
  <1>3. FifoNoLoss'
    BY <1>1 DEF Inv, FifoNoLoss
  <1>4. /\ owner' \in [Port -> Thread \cup {None}]
        /\ \A p \in Port : p # created + 1 => owner'[p] = owner[p]
        /\ \A u \in Thread : wait_port[u] # NoPort =>
              wait_port[u] \in Port /\ wait_port[u] <= created
    BY <1>1 DEF Inv, TypeOK, WaiterRegistered
  <1>5. WaiterRegistered'
    <2>1. \A u \in Thread \ {removing'} :
            wait_port'[u] # NoPort /\ owner'[wait_port'[u]] # None
              => receiver_blocked'[wait_port'[u]] = u
      BY <1>1, <1>4 DEF Inv, WaiterRegistered, Open, Port
    <2>2. \A u \in Thread : wait_port'[u] # NoPort => wait_port'[u] <= created'
      BY <1>1, <1>4 DEF Port
    <2>3. \A p \in Port : owner'[p] = None => receiver_blocked'[p] = None /\ messages'[p] = <<>>
      BY <1>1, <1>4, IpcAssumption DEF Inv, WaiterRegistered, Open, TypeOK
    <2>4. \A p \in Port : p > created' => owner'[p] = None
      BY <1>1, <1>4 DEF Inv, WaiterRegistered, Open, Port
    <2> QED BY <2>1, <2>2, <2>3, <2>4 DEF WaiterRegistered, Open
  <1>6. InsertingRegistered'
    BY <1>1 DEF InsertingRegistered
  <1> QED BY <1>2, <1>3, <1>5, <1>6 DEF Inv

(* A closed port loses its queue and its waiter at once.                   *)
LEMMA CloseInv ==
  ASSUME Inv, NEW t \in Thread, NEW p \in Port, sys_ipc_close_port(t, p)
  PROVE  Inv'
  <1>1. /\ owner' = [owner EXCEPT ![p] = None]
        /\ messages' = [messages EXCEPT ![p] = <<>>]
        /\ sent' = [sent EXCEPT ![p] = 0] /\ got' = [got EXCEPT ![p] = 0]
        /\ receiver_blocked' = [receiver_blocked EXCEPT ![p] = None]
        /\ UNCHANGED <<created, wait_port, deadline, receiving, inserting, removing>>
        /\ inserting = None
    BY DEF sys_ipc_close_port, Calls, NoCall, pendingVars
  <1>2. QueueOK(<<>>, 0, 0) /\ Len(<<>>) <= MAX_QUEUE_DEPTH
    BY IpcAssumption DEF QueueOK
  <1>3. /\ messages' \in [Port -> Seq(Nat)] /\ sent' \in [Port -> Nat]
        /\ got' \in [Port -> Nat]
        /\ \A q \in Port : Len(messages'[q]) <= MAX_QUEUE_DEPTH
        /\ FifoNoLoss'
        /\ \A q \in Port \ {p} : messages'[q] = messages[q]
        /\ messages'[p] = <<>>
    BY <1>1, <1>2, QueueStep, Zenon
  <1>4. TypeOK'
    BY <1>1, <1>3 DEF Inv, TypeOK
  <1>5. WaiterRegistered'
    BY <1>1, <1>3 DEF Inv, TypeOK, WaiterRegistered, Open
  <1>6. InsertingRegistered'
    BY <1>1 DEF InsertingRegistered
  <1> QED BY <1>3, <1>4, <1>5, <1>6 DEF Inv

(* A thread registers as the receiver of a port.                           *)
LEMMA RecvInv ==
  ASSUME Inv, NEW t \in Thread, NEW p \in Port, sys_ipc_recv(t, p)
  PROVE  Inv'
  <1>1. /\ Open(p) /\ receiver_blocked[p] = None
        /\ receiver_blocked' = [receiver_blocked EXCEPT ![p] = t]
        /\ receiving' = [receiving EXCEPT ![t] = p]
        /\ inserting' = t /\ removing = None
        /\ UNCHANGED <<created, owner, messages, sent, got, wait_port, deadline, removing>>
    BY DEF sys_ipc_recv, Calls, NoCall, queueVars
  <1>2. TypeOK'
    BY <1>1 DEF Inv, TypeOK
  <1>3. FifoNoLoss'
    BY <1>1 DEF Inv, FifoNoLoss
  <1>4. /\ receiver_blocked'[p] = t /\ receiving'[t] = p
        /\ \A q \in Port \ {p} : receiver_blocked'[q] = receiver_blocked[q]
    BY <1>1 DEF Inv, TypeOK
  <1>5. \A u \in Thread : wait_port[u] # p
    <2>1. p # NoPort
      BY DEF Port, NoPort
    <2>2. \A u \in Thread : u # removing /\ receiver_blocked[p] # u
      BY <1>1, IpcAssumption
    <2> QED BY <1>1, <2>1, <2>2 DEF Inv, WaiterRegistered
  <1>6. WaiterRegistered'
    BY <1>1, <1>4, <1>5 DEF Inv, TypeOK, WaiterRegistered, Open
  <1>7. InsertingRegistered'
    BY <1>1, <1>4, <1>5 DEF InsertingRegistered, Open
  <1> QED BY <1>2, <1>3, <1>6, <1>7 DEF Inv

(* ... and then in waiting_threads.                                        *)
LEMMA InsertInv ==
  ASSUME Inv, NEW timeout \in Timeout \cup {Never}, block_recv_inserts(timeout)
  PROVE  Inv'
  <1> PICK t : t = inserting
    OBVIOUS
  <1> PICK p : p = receiving[t]
    OBVIOUS
  <1>1. /\ t # None /\ inserting' = None
        /\ wait_port' = [wait_port EXCEPT ![t] = p]
        /\ deadline' = [deadline EXCEPT ![t] = timeout]
        /\ UNCHANGED <<created, owner, messages, sent, got, receiver_blocked, receiving,
                       removing>>
    BY DEF block_recv_inserts, queueVars
  <1>2. /\ t \in Thread /\ p \in Port /\ Open(p) /\ receiver_blocked[p] = t
        /\ removing = None
    BY <1>1 DEF Inv, InsertingRegistered, TypeOK
  <1>3. timeout \in Nat
    BY IpcAssumption DEF Never
  <1>4. TypeOK'
    BY <1>1, <1>2, <1>3 DEF Inv, TypeOK
  <1>5. FifoNoLoss' /\ InsertingRegistered'
    BY <1>1 DEF Inv, FifoNoLoss, InsertingRegistered
  <1>6. p <= created
    BY <1>2, IpcAssumption DEF Inv, TypeOK, WaiterRegistered, Port
  <1>7. wait_port'[t] = p /\ \A u \in Thread \ {t} : wait_port'[u] = wait_port[u]
    BY <1>1, <1>2 DEF Inv, TypeOK
  <1>8. WaiterRegistered'
    BY <1>1, <1>2, <1>6, <1>7 DEF Inv, TypeOK, WaiterRegistered, Open
  <1> QED BY <1>4, <1>5, <1>8 DEF Inv

(* The receiver a batch wakes leaves the port's record ...                 *)
LEMMA SendBatchInv ==
  ASSUME Inv, NEW t \in Thread, NEW p \in Port, NEW n \in 1..MAX_BATCH_SIZE,
         sys_ipc_send_batch(t, p, n)
  PROVE  Inv'
  <1>1. /\ Open(p) /\ push_back(p, n)
        /\ receiver_blocked' = [receiver_blocked EXCEPT ![p] = None]
        /\ removing' = receiver_blocked[p] /\ removing = None
        /\ UNCHANGED <<created, owner, wait_port, deadline, receiving, inserting>>
        /\ inserting = None
    BY DEF sys_ipc_send_batch, Calls, NoCall
  <1>2. /\ messages' \in [Port -> Seq(Nat)] /\ sent' \in [Port -> Nat]
        /\ got' \in [Port -> Nat]
        /\ \A q \in Port : Len(messages'[q]) <= MAX_QUEUE_DEPTH
        /\ FifoNoLoss'
        /\ \A q \in Port \ {p} : messages'[q] = messages[q]
    BY <1>1, PushBackInv
  <1>3. TypeOK'
    BY <1>1, <1>2, Zenon DEF Inv, TypeOK
  <1>4. \A u \in Thread \ {removing'} : wait_port[u] # NoPort /\ Open(wait_port[u])
            => wait_port[u] # p /\ receiver_blocked[wait_port[u]] = u
    <2>1. \A u \in Thread : u # removing
      BY <1>1, IpcAssumption
    <2> QED BY <1>1, <2>1 DEF Inv, WaiterRegistered
  <1>5. WaiterRegistered'
    <2>1. \A q \in Port \ {p} : receiver_blocked'[q] = receiver_blocked[q]
      BY <1>1 DEF Inv, TypeOK
    <2>2. \A u \in Thread \ {removing'} : wait_port'[u] # NoPort /\ owner'[wait_port'[u]] # None
              => receiver_blocked'[wait_port'[u]] = u
      BY <1>1, <1>4, <2>1 DEF Inv, TypeOK, Open
    <2>3. \A q \in Port : owner'[q] = None => receiver_blocked'[q] = None /\ messages'[q] = <<>>
      BY <1>1, <1>2, <2>1, Zenon DEF Inv, WaiterRegistered, Open
    <2> QED BY <1>1, <2>2, <2>3 DEF Inv, WaiterRegistered, Open
  <1>6. InsertingRegistered'
    BY <1>1 DEF InsertingRegistered
  <1> QED BY <1>2, <1>3, <1>5, <1>6 DEF Inv

(* ... and then waiting_threads.                                           *)
LEMMA RemoveInv ==
  ASSUME Inv, send_batch_removes
  PROVE  Inv'
  <1> PICK t : t = removing
    OBVIOUS
  <1>1. /\ t # None /\ removing' = None /\ t \in Thread
        /\ wait_port' = [wait_port EXCEPT ![t] = NoPort]
        /\ deadline' = [deadline EXCEPT ![t] = Never]
        /\ UNCHANGED <<created, owner, messages, sent, got, receiver_blocked, receiving,
                       inserting>>
    BY DEF send_batch_removes, queueVars, Inv, TypeOK
  <1>2. inserting = None
    BY <1>1 DEF Inv, InsertingRegistered
  <1>3. TypeOK'
    BY <1>1 DEF Inv, TypeOK, Never
  <1>4. FifoNoLoss' /\ InsertingRegistered'
    BY <1>1, <1>2 DEF Inv, FifoNoLoss, InsertingRegistered
  <1>5. wait_port'[t] = NoPort /\ \A u \in Thread \ {t} : wait_port'[u] = wait_port[u]
    BY <1>1 DEF Inv, TypeOK
  <1>6. WaiterRegistered'
    <2>1. \A u \in Thread : wait_port'[u] # NoPort =>
                               u \in Thread \ {removing} /\ wait_port'[u] = wait_port[u]
      BY <1>1, <1>5
    <2> QED BY <1>1, <2>1 DEF Inv, WaiterRegistered, Open
  <1> QED BY <1>3, <1>4, <1>6 DEF Inv

(* The waiters whose deadline has come leave both maps.                    *)
LEMMA TimeoutInv ==
  ASSUME Inv, handle_timeouts
  PROVE  Inv'
  <1> DEFINE expired == {t \in Thread : deadline[t] = 1}
  <1>1. /\ receiver_blocked' =
             [p \in Port |-> IF \E t \in expired : wait_port[t] = p /\ receiver_blocked[p] = t
                             THEN None ELSE receiver_blocked[p]]
        /\ wait_port' = [t \in Thread |-> IF t \in expired THEN NoPort ELSE wait_port[t]]
        /\ deadline' = [t \in Thread |-> IF deadline[t] = Never THEN Never
                                         ELSE deadline[t] - 1]
        /\ UNCHANGED <<created, owner, messages, sent, got, receiving, inserting, removing>>
    BY DEF handle_timeouts, queueVars, pendingVars
  <1>2. deadline' \in [Thread -> Nat]
    BY <1>1 DEF Inv, TypeOK, Never
  <1> HIDE DEF expired
  <1>3. TypeOK'
    BY <1>1, <1>2 DEF Inv, TypeOK
  <1>4. FifoNoLoss'
    BY <1>1 DEF Inv, FifoNoLoss
  <1>5. WaiterRegistered'
    BY <1>1 DEF Inv, TypeOK, WaiterRegistered, Open
  <1>6. InsertingRegistered'
    <2> PICK t : t = inserting
      OBVIOUS
    <2> PICK p : p = receiving[t]
      OBVIOUS
    <2> SUFFICES ASSUME t # None
                 PROVE  /\ removing = None /\ p \in Port /\ Open(p)
                        /\ receiver_blocked'[p] = t /\ wait_port'[t] # p
      BY <1>1, SMTT(60) DEF InsertingRegistered, Open
    <2>1. /\ removing = None /\ p \in Port /\ Open(p)
          /\ receiver_blocked[p] = t /\ wait_port[t] # p /\ t \in Thread
      BY DEF Inv, InsertingRegistered, TypeOK
    <2>2. p # NoPort
      BY <2>1 DEF Port, NoPort
    <2>3. receiver_blocked'[p] = t
      BY <1>1, <2>1
    <2> QED BY <1>1, <2>1, <2>2, <2>3, Zenon
  <1> QED BY <1>3, <1>4, <1>5, <1>6 DEF Inv

(* Every step keeps the invariant.                                         *)
LEMMA NextInv == Inv /\ [Next]_vars => Inv'
  <1> SUFFICES ASSUME Inv, [Next]_vars
               PROVE  Inv'
    OBVIOUS
  <1>1. CASE UNCHANGED vars
    BY <1>1 DEF vars, queueVars, waitVars, pendingVars, Inv, TypeOK, FifoNoLoss,
                WaiterRegistered, InsertingRegistered, Open
  <1>2. CASE handle_timeouts
    BY <1>2, TimeoutInv
  <1>3. ASSUME NEW t \in Thread, call(t)
        PROVE  Inv'
    <2>1. CASE sys_ipc_create_port(t)
      BY <2>1, CreateInv
    <2>2. ASSUME NEW p \in Port, sys_ipc_close_port(t, p)
          PROVE  Inv'
      BY <2>2, CloseInv
    <2>3. ASSUME NEW p \in Port, sys_ipc_send(t, p)
          PROVE  Inv'
      <3>1. /\ NoCall /\ Open(p) /\ push_back(p, 1)
            /\ UNCHANGED <<created, owner, waitVars, receiving, pendingVars>>
        BY <2>3 DEF sys_ipc_send, Calls
      <3>2. receiving' \in [Thread -> Port \cup {NoPort}]
        BY <3>1 DEF Inv, TypeOK
      <3> QED BY <3>1, <3>2, PushBackInv, QueuesOnlyInv
    <2>4. ASSUME NEW p \in Port, NEW n \in 1..MAX_BATCH_SIZE, sys_ipc_send_batch(t, p, n)
          PROVE  Inv'
      BY <2>4, SendBatchInv
    <2>5. ASSUME NEW p \in Port, NEW n \in Nat, pop_front(p, n), NoCall,
                 UNCHANGED <<created, owner, waitVars, pendingVars>>,
                 receiving' \in [Thread -> Port \cup {NoPort}]
          PROVE  Inv'
      <3>1. ~Open(p) => messages[p] = <<>>
        BY DEF Inv, WaiterRegistered
      <3> QED BY <2>5, <3>1, PopFrontInv, QueuesOnlyInv
    <2>6. ASSUME NEW p \in Port, NEW n \in 1..MAX_BATCH_SIZE, sys_ipc_recv_batch(t, p, n)
          PROVE  Inv'
      <3>1. /\ n \in Nat /\ pop_front(p, n) /\ NoCall
            /\ UNCHANGED <<created, owner, waitVars, receiving, pendingVars>>
        BY <2>6, IpcAssumption, SMTT(30) DEF sys_ipc_recv_batch, Calls
      <3> QED BY <2>5, <3>1, Zenon DEF Inv, TypeOK
    <2>7. ASSUME NEW p \in Port, sys_ipc_recv(t, p)
          PROVE  Inv'
      BY <2>7, RecvInv
    <2>8. ASSUME NEW p \in Port, NEW q \in Port, NEW i \in 1..2,
                 sys_ipc_wait_any(t, <<p, q>>, i)
          PROVE  Inv'
      <3>1. <<p, q>>[i] \in Port
        BY DEF Port
      <3> QED BY <2>5, <2>8, <3>1, Zenon DEF sys_ipc_wait_any, Calls, Inv, TypeOK
    <2>9. CASE recv_resumes(t)
      <3> DEFINE p == receiving[t]
      <3>1. p \in Port /\ receiving' \in [Thread -> Port \cup {NoPort}]
            /\ NoCall /\ UNCHANGED <<created, owner, waitVars, pendingVars>>
        BY <2>9 DEF recv_resumes, Inv, TypeOK
      <3>2. CASE Open(p)
        BY <2>5, <2>9, <3>1, <3>2 DEF recv_resumes
      <3>3. CASE ~Open(p)
        <4>1. UNCHANGED <<messages, sent, got>>
          BY <2>9, <3>3 DEF recv_resumes, queueVars
        <4>2. FifoNoLoss'
          BY <4>1 DEF Inv, FifoNoLoss
        <4> QED BY <3>1, <4>1, <4>2, QueuesOnlyInv, Zenon DEF Inv, TypeOK
      <3> QED BY <3>2, <3>3
    <2> QED BY <1>3, <2>1, <2>2, <2>3, <2>4, <2>6, <2>7, <2>8, <2>9, Zenon DEF call
  <1>4. ASSUME NEW timeout \in Timeout \cup {Never}, block_recv_inserts(timeout)
        PROVE  Inv'
    BY <1>4, InsertInv
  <1>5. CASE send_batch_removes
    BY <1>5, RemoveInv
  <1> QED BY <1>1, <1>2, <1>3, <1>4, <1>5 DEF Next

(* The invariant holds in every behaviour.                                 *)
LEMMA SpecInv == Spec => []Inv
  BY InitInv, NextInv, PTL DEF Spec

---------------------------------------------------------------------------
(* Every variable has its type and no queue exceeds MAX_QUEUE_DEPTH.       *)
THEOREM TypeCorrect == Spec => []TypeOK
  <1>1. Inv => TypeOK
    BY DEF Inv
  <1> QED BY <1>1, SpecInv, PTL

(* Messages are received once each, in the order they were sent, and the   *)
(* metrics of a port account for them.                                     *)
THEOREM PortsAreFifo == Spec => []FifoNoLoss
  <1>1. Inv => FifoNoLoss
    BY DEF Inv
  <1> QED BY <1>1, SpecInv, PTL

(* A waiting thread is the receiver registered on its port.                *)
THEOREM WaitersAreRegistered == Spec => []WaiterRegistered
  <1>1. Inv => WaiterRegistered
    BY DEF Inv
  <1> QED BY <1>1, SpecInv, PTL

---------------------------------------------------------------------------
(* The threads waiting as wp says, on ports owned as own says, do not wait *)
(* in a circle: NoCircularWait as a fact about any two such maps.          *)
Acyclic(wp, own) ==
  \A ts \in (SUBSET Thread) \ {{}} :
    \E t \in ts : wp[t] = NoPort \/ own[wp[t]] \notin ts

(* What makes NoCircularWait inductive: block_recv decides in its first    *)
(* step and inserts in its second, so in between the entry it is about to  *)
(* add must not close a circle either.                                     *)
WaitInv ==
  /\ NoCircularWait
  /\ inserting # None =>
       Acyclic([wait_port EXCEPT ![inserting] = receiving[inserting]], owner)

(* Entries that go, and ports that lose their owner, close no circle.      *)
LEMMA FewerWaits ==
  ASSUME NEW wp, NEW own, NEW wp2, NEW own2, Acyclic(wp, own),
         \A t \in Thread : \/ wp2[t] = NoPort
                           \/ wp2[t] = wp[t] /\ own2[wp[t]] \in {own[wp[t]], None}
  PROVE  Acyclic(wp2, own2)
  <1> SUFFICES ASSUME NEW ts \in (SUBSET Thread) \ {{}}
               PROVE  \E t \in ts : wp2[t] = NoPort \/ own2[wp2[t]] \notin ts
    BY DEF Acyclic
  <1>1. PICK t \in ts : wp[t] = NoPort \/ own[wp[t]] \notin ts
    BY DEF Acyclic
  <1>2. None \notin ts
    BY IpcAssumption
  <1> QED BY <1>1, <1>2

(* A walk from entry to entry that never leaves a finite set of threads    *)
(* comes back to a thread it has visited, so those threads wait in a       *)
(* circle: a walk longer than the number of entries shows one if there is  *)
(* one.                                                                    *)
LEMMA LongWalkCloses ==
  ASSUME NEW wp, NEW own, NEW W \in SUBSET Thread, NEW m \in Nat, Cardinality(W) <= m,
         NEW u \in [0..m -> W],
         \A n \in 1..m : wp[u[n - 1]] # NoPort /\ own[wp[u[n - 1]]] = u[n]
  PROVE  ~Acyclic(wp, own)
  <1>1. IsFiniteSet(W) /\ Cardinality(W) \in Nat
    BY IpcAssumption, FS_Subset, FS_CardinalityType
  <1>2. IsFiniteSet(0..m) /\ Cardinality(0..m) = m + 1
    BY FS_Interval
  <1>3. Cardinality(W) < Cardinality(0..m)
    BY <1>1, <1>2
  <1>4. PICK x \in 0..m, y \in 0..m : x # y /\ u[x] = u[y]
    BY <1>1, <1>2, <1>3, FS_PigeonHole
  <1>5. PICK i \in 0..m, j \in 0..m : i < j /\ u[i] = u[j]
    BY <1>4
  <1> DEFINE ts == {u[n] : n \in i..(j - 1)}
  <1>6. ts \in (SUBSET Thread) \ {{}}
    <2>1. \A n \in i..(j - 1) : n \in 0..m
      BY <1>5
    <2>2. i \in i..(j - 1)
      BY <1>5
    <2>3. \A n \in i..(j - 1) : u[n] \in Thread
      BY <2>1
    <2>4. u[i] \in ts
      BY <2>2
    <2> QED BY <2>3, <2>4, ZenonT(120)
  <1>7. ASSUME NEW t \in ts
        PROVE  wp[t] # NoPort /\ own[wp[t]] \in ts
    <2>1. PICK n \in i..(j - 1) : t = u[n]
      OBVIOUS
    <2>2. n + 1 \in 1..m /\ (n + 1) - 1 = n
      BY <1>5
    <2>3. wp[t] # NoPort /\ own[wp[t]] = u[n + 1]
      BY <2>1, <2>2, SMTT(60)
    <2>4. CASE n + 1 = j
      <3>1. i \in i..(j - 1)
        BY <1>5
      <3> QED BY <1>5, <2>3, <2>4, <3>1, ZenonT(120)
    <2>5. CASE n + 1 # j
      <3>1. n + 1 \in i..(j - 1)
        BY <1>5, <2>5
      <3> QED BY <2>3, <3>1
    <2> QED BY <2>4, <2>5
  <1> HIDE DEF ts
  <1> QED BY <1>6, <1>7 DEF Acyclic

(* detect_deadlock is complete: when it lets thread t wait on port p, the  *)
(* entry that block_recv will add closes no circle.                        *)
LEMMA DetectsDeadlock ==
  ASSUME TypeOK, NoCircularWait, NEW t \in Thread, NEW p \in Port, Open(p),
         ~detect_deadlock(t, p)
  PROVE  Acyclic([wait_port EXCEPT ![t] = p], owner)
  <1> DEFINE W == {x \in Thread : wait_port[x] # NoPort}
             opened == {q \in Port : Open(q)}
             limit == Cardinality(opened) + Cardinality(W)
             w2 == [wait_port EXCEPT ![t] = p]
             S == Port \cup {NoPort}
             step == [q \in S |-> IF q # NoPort /\ Open(q) THEN wait_port[owner[q]] ELSE NoPort]
  <1>1. Cardinality(W) \in Nat /\ Cardinality(opened) \in Nat
    <2>1. IsFiniteSet(W)
      BY IpcAssumption, FS_Subset
    <2>2. IsFiniteSet(Port)
      BY IpcAssumption, FS_Interval DEF Port
    <2>3. IsFiniteSet(opened)
      BY <2>2, FS_Subset
    <2> QED BY <2>1, <2>3, FS_CardinalityType
  <1>2. limit \in Nat /\ Cardinality(W) <= limit
    BY <1>1
  <1>3. step \in [S -> S]
    BY DEF TypeOK, Open
  <1>4. /\ \A q \in S : q # NoPort /\ Open(q) => step[q] = wait_port[owner[q]]
        /\ \A q \in S : ~(q # NoPort /\ Open(q)) => step[q] = NoPort
    OBVIOUS
  <1>5. p \in S
    BY SMTT(30)
  <1> HIDE DEF step
  <1> DEFINE port[n \in 0..limit] ==
               IF n = 0 THEN p
               ELSE IF port[n - 1] # NoPort /\ Open(port[n - 1])
                    THEN wait_port[owner[port[n - 1]]] ELSE NoPort
  <1>6. ~\E n \in 0..limit : port[n] # NoPort /\ owner[port[n]] = t
    BY Zenon DEF detect_deadlock
  <1> HIDE DEF limit
  <1>7. /\ port[0] = p
        /\ \A n \in 1..limit : port[n - 1] \in S /\ port[n] = step[port[n - 1]]
    <2>0. PICK f \in [0..limit -> S] : Iterates(f, step, p, limit)
      <3> HIDE DEF S, port
      <3>1. limit \in Nat
        BY <1>2
      <3> QED BY <1>3, <1>5, <3>1, IterateExists, Zenon
    <2>1. f[0] = p /\ \A n \in 1..limit : f[n] = step[f[n - 1]]
      BY <2>0, ZenonT(40) DEF Iterates
    <2>2. \A n \in 0..limit : n # 0 => n \in 1..limit /\ n - 1 \in 0..limit
      BY <1>2
    <2>3. ASSUME NEW n \in 0..limit
          PROVE  f[n] = IF n = 0 THEN p
                        ELSE IF f[n - 1] # NoPort /\ Open(f[n - 1])
                             THEN wait_port[owner[f[n - 1]]] ELSE NoPort
      <3>1. CASE n = 0
        BY <2>1, <3>1
      <3>2. CASE n # 0
        <4>1. f[n] = step[f[n - 1]] /\ f[n - 1] \in S
          BY <2>1, <2>2, <3>2
        <4> QED BY <1>4, <3>2, <4>1
      <3> QED BY <3>1, <3>2, SMTT(60)
    <2>4. f = [n \in 0..limit |-> IF n = 0 THEN p
                        ELSE IF f[n - 1] # NoPort /\ Open(f[n - 1])
                             THEN wait_port[owner[f[n - 1]]] ELSE NoPort]
      BY <2>3, SMTT(30)
    <2>5. \E g : g = [n \in 0..limit |-> IF n = 0 THEN p
                        ELSE IF g[n - 1] # NoPort /\ Open(g[n - 1])
                             THEN wait_port[owner[g[n - 1]]] ELSE NoPort]
      BY <2>4, Zenon
    <2>6. port = [n \in 0..limit |-> IF n = 0 THEN p
                        ELSE IF port[n - 1] # NoPort /\ Open(port[n - 1])
                             THEN wait_port[owner[port[n - 1]]] ELSE NoPort]
      BY <2>5, Zenon
    <2> HIDE DEF port
    <2>7. 0 \in 0..limit
      BY <1>2
    <2>8. port[0] = p
      BY <2>6, <2>7
    <2> DEFINE T == {n \in 0..limit : port[n] \notin S}
    <2>9. T = {}
      <3> SUFFICES ASSUME T # {} PROVE FALSE
        OBVIOUS
      <3>1. PICK n \in T : \A y \in T : n <= y
        <4>1. T \in SUBSET Nat
          BY <1>2
        <4> QED BY <4>1, LeastNumber, ZenonT(40)
      <3>2. n # 0
        BY <1>5, <2>8, <3>1
      <3>3. n \in 0..limit /\ n - 1 \in 0..limit /\ ~(n <= n - 1)
        BY <1>2, <3>1, <3>2, SMTT(30)
      <3>4. port[n - 1] \in S
        BY <3>1, <3>3, SMTT(30)
      <3>5. port[n] = IF port[n - 1] # NoPort /\ Open(port[n - 1])
                      THEN wait_port[owner[port[n - 1]]] ELSE NoPort
        BY <2>6, <3>2, <3>3, ZenonT(40)
      <3>6. port[n] \in S
        BY <3>4, <3>5, SMTT(60) DEF TypeOK, Open
      <3> QED BY <3>1, <3>6
    <2>10. ASSUME NEW n \in 1..limit
           PROVE  port[n - 1] \in S /\ port[n] = step[port[n - 1]]
      <3>1. n \in 0..limit /\ n - 1 \in 0..limit /\ n # 0
        BY <1>2
      <3>2. port[n - 1] \in S
        BY <2>9, <3>1
      <3>3. port[n] = IF port[n - 1] # NoPort /\ Open(port[n - 1])
                      THEN wait_port[owner[port[n - 1]]] ELSE NoPort
        BY <2>6, <3>1, Zenon
      <3> QED BY <1>4, <3>2, <3>3, Zenon
    <2> QED BY <2>8, <2>10
  <1> HIDE DEF port
  <1> SUFFICES ASSUME NEW ts \in (SUBSET Thread) \ {{}},
                      \A x \in ts : w2[x] # NoPort /\ owner[w2[x]] \in ts
               PROVE  FALSE
    BY DEF Acyclic
  <1>8. /\ w2[t] = p /\ \A x \in ts \ {t} : w2[x] = wait_port[x]
        /\ \A x \in Thread : wait_port[x] \in S
    BY DEF TypeOK
  <1> HIDE DEF w2
  <1>9. t \in ts
    <2>1. PICK x \in ts : wait_port[x] = NoPort \/ owner[wait_port[x]] \notin ts
      BY Zenon DEF NoCircularWait
    <2> QED BY <1>8, <2>1, Zenon
  <1> DEFINE Good(n) == port[n] \in Port /\ owner[port[n]] \in ts \ {t}
             T == {n \in 0..limit : ~Good(n)}
  <1>10. \A q \in Port : q # NoPort
    BY DEF Port, NoPort
  <1>11. ASSUME NEW x \in ts \ {t}
         PROVE  x \in W /\ wait_port[x] \in Port /\ owner[wait_port[x]] \in ts
    BY <1>8, Zenon
  <1>12. T = {}
    <2> SUFFICES ASSUME T # {} PROVE FALSE
      BY SMTT(60)
    <2>1. PICK n \in T : \A y \in T : n <= y
      <3>1. T \in SUBSET Nat
        BY <1>2
      <3> QED BY <3>1, LeastNumber, Zenon
    <2>2. CASE n = 0
      <3>1. Good(0)
        BY <1>6, <1>7, <1>8, <1>9, <1>10, <2>1, <2>2, ZenonT(60)
      <3> QED BY ONLY <2>1, <2>2, <3>1, SMTT(60)
    <2>3. CASE n # 0
      <3>1. n \in 1..limit /\ n - 1 \in 0..limit /\ ~(n <= n - 1)
        BY <1>2, <2>1, <2>3
      <3>2. Good(n - 1)
        BY <2>1, <3>1, SMTT(60)
      <3>3. Open(port[n - 1]) /\ port[n - 1] # NoPort
        BY <1>10, <3>2, IpcAssumption, SMTT(60) DEF Open
      <3>4. port[n] = wait_port[owner[port[n - 1]]]
        BY <1>4, <1>7, <3>1, <3>3, Zenon
      <3>5. port[n] \in Port /\ owner[port[n]] \in ts
        BY <1>11, <3>2, <3>4, Zenon
      <3>6. owner[port[n]] # t
        BY <1>6, <1>10, <2>1, <3>5, Zenon
      <3> QED BY <2>1, <3>5, <3>6, Zenon
    <2> QED BY ONLY <2>2, <2>3
  <1> DEFINE u == [n \in 0..limit |-> owner[port[n]]]
  <1>13. u \in [0..limit -> W]
    <2>1. \A n \in 0..limit : owner[port[n]] \in W
      BY <1>11, <1>12
    <2> QED BY <2>1, SMTT(60)
  <1>14. ASSUME NEW n \in 1..limit
         PROVE  wait_port[u[n - 1]] # NoPort /\ owner[wait_port[u[n - 1]]] = u[n]
    <2>1. n - 1 \in 0..limit /\ n \in 0..limit
      BY <1>2
    <2>2. u[n - 1] = owner[port[n - 1]] /\ u[n] = owner[port[n]]
      BY <2>1, Zenon
    <2>3. Good(n - 1) /\ Good(n)
      BY <1>12, <2>1, Zenon
    <2>4. Open(port[n - 1]) /\ port[n - 1] # NoPort
      BY <1>10, <2>3, IpcAssumption, Zenon DEF Open
    <2>5. port[n] = wait_port[owner[port[n - 1]]]
      BY <1>4, <1>7, <2>4, Zenon
    <2> QED BY <1>10, <2>2, <2>3, <2>5, Zenon
  <1>15. W \in SUBSET Thread
    BY SMTT(60)
  <1> HIDE DEF u, W
  <1>16. ~Acyclic(wait_port, owner)
    BY <1>2, <1>13, <1>14, <1>15, LongWalkCloses, ZenonT(60)
  <1> QED BY <1>16 DEF NoCircularWait, Acyclic

---------------------------------------------------------------------------
(* A step that leaves the waiters alone, or only takes entries off, while  *)
(* no insertion is pending.                                                *)
LEMMA FewerWaitsInv ==
  ASSUME NoCircularWait, inserting' = None,
         \A t \in Thread : \/ wait_port'[t] = NoPort
                           \/ /\ wait_port'[t] = wait_port[t]
                              /\ owner'[wait_port[t]] \in {owner[wait_port[t]], None}
  PROVE  WaitInv'
  <1>1. Acyclic(wait_port, owner)
    BY DEF NoCircularWait, Acyclic
  <1>2. Acyclic(wait_port', owner')
    BY <1>1, FewerWaits
  <1> QED BY <1>2 DEF WaitInv, NoCircularWait, Acyclic

(* Every step keeps waiting free of circles.                               *)
LEMMA NextWaitInv == Inv /\ WaitInv /\ [Next]_vars => WaitInv'
  <1> SUFFICES ASSUME Inv, WaitInv, [Next]_vars
               PROVE  WaitInv'
    OBVIOUS
  <1>0. NoCircularWait /\ TypeOK
    BY DEF Inv, WaitInv
  <1>1. CASE UNCHANGED vars
    <2>1. UNCHANGED <<inserting, receiving, wait_port, owner>>
      BY <1>1 DEF vars, queueVars, waitVars, pendingVars
    <2> QED BY <2>1, SMTT(60) DEF WaitInv, NoCircularWait, Acyclic
  <1>2. ASSUME NoCall, UNCHANGED <<owner, wait_port, inserting>>
        PROVE  WaitInv'
    BY <1>0, <1>2, FewerWaitsInv DEF NoCall
  <1>3. CASE handle_timeouts
    <2>1. /\ \A t \in Thread : wait_port'[t] \in {wait_port[t], NoPort}
          /\ wait_port' \in [Thread -> Port \cup {NoPort}]
          /\ UNCHANGED <<owner, receiving, inserting>>
      BY <1>0, <1>3 DEF handle_timeouts, TypeOK, pendingVars
    <2>2. CASE inserting = None
      BY <1>0, <2>1, <2>2, FewerWaitsInv, SMTT(60)
    <2>3. CASE inserting # None
      <3> DEFINE w1 == [wait_port EXCEPT ![inserting] = receiving[inserting]]
                 w2 == [wait_port' EXCEPT ![inserting] = receiving[inserting]]
      <3>1. Acyclic(w1, owner) /\ Acyclic(wait_port, owner)
        BY <1>0, <2>3, SMTT(60) DEF WaitInv, NoCircularWait, Acyclic
      <3>2. \A t \in Thread : w2[t] \in {w1[t], NoPort}
        BY <1>0, <2>1 DEF TypeOK
      <3> HIDE DEF w1, w2
      <3>3. Acyclic(w2, owner)
        BY <3>1, <3>2, FewerWaits
      <3>4. Acyclic(wait_port', owner)
        BY <2>1, <3>1, FewerWaits
      <3> QED BY <2>1, <3>3, <3>4, SMTT(60) DEF WaitInv, NoCircularWait, Acyclic, w2
    <2> QED BY <2>2, <2>3
  <1>4. ASSUME NEW t \in Thread, call(t)
        PROVE  WaitInv'
    <2>1. CASE sys_ipc_create_port(t)
      <3>1. /\ owner' = [owner EXCEPT ![created + 1] = t]
            /\ UNCHANGED <<wait_port, inserting>> /\ inserting = None
        BY <2>1 DEF sys_ipc_create_port, Calls, NoCall, waitVars, pendingVars
      <3>2. \A x \in Thread : wait_port[x] # NoPort => owner'[wait_port[x]] = owner[wait_port[x]]
        BY <1>0, <3>1, SMTT(60) DEF Inv, WaiterRegistered, TypeOK, Port
      <3> QED BY <1>0, <3>1, <3>2, FewerWaitsInv
    <2>2. ASSUME NEW p \in Port, sys_ipc_close_port(t, p)
          PROVE  WaitInv'
      <3>1. /\ owner' = [owner EXCEPT ![p] = None]
            /\ UNCHANGED <<wait_port, inserting>> /\ inserting = None
        BY <2>2 DEF sys_ipc_close_port, Calls, NoCall, pendingVars
      <3>2. \A x \in Thread : wait_port[x] # NoPort =>
                                owner'[wait_port[x]] \in {owner[wait_port[x]], None}
        BY <1>0, <3>1, SMTT(30) DEF TypeOK
      <3> QED BY <1>0, <3>1, <3>2, FewerWaitsInv
    <2>3. ASSUME NEW p \in Port,
                 \/ sys_ipc_send(t, p)
                 \/ \E n \in 1..MAX_BATCH_SIZE :
                      sys_ipc_send_batch(t, p, n) \/ sys_ipc_recv_batch(t, p, n)
          PROVE  WaitInv'
      BY <1>2, <2>3, Zenon DEF sys_ipc_send, sys_ipc_send_batch, sys_ipc_recv_batch, Calls, waitVars,
                        pendingVars
    <2>4. ASSUME NEW p \in Port, sys_ipc_recv(t, p)
          PROVE  WaitInv'
      <3>1. /\ Open(p) /\ ~detect_deadlock(t, p) /\ inserting' = t
            /\ receiving' = [receiving EXCEPT ![t] = p] /\ UNCHANGED <<owner, wait_port>>
        BY <2>4, SMTT(60) DEF sys_ipc_recv
      <3>2. receiving'[inserting'] = p
        BY <1>0, <3>1 DEF TypeOK
      <3>3. Acyclic([wait_port EXCEPT ![t] = p], owner)
        BY <1>0, <3>1, DetectsDeadlock
      <3> QED BY <1>0, <3>1, <3>2, <3>3, Zenon DEF WaitInv, NoCircularWait, Acyclic
    <2>5. ASSUME NEW p \in Port, NEW q \in Port, NEW i \in 1..2,
                 sys_ipc_wait_any(t, <<p, q>>, i)
          PROVE  WaitInv'
      BY <1>2, <2>5 DEF sys_ipc_wait_any, Calls, waitVars, pendingVars
    <2>6. CASE recv_resumes(t)
      BY <1>2, <2>6 DEF recv_resumes, waitVars, pendingVars
    <2> QED BY <1>4, <2>1, <2>2, <2>3, <2>4, <2>5, <2>6, Zenon DEF call
  <1>5. ASSUME NEW timeout \in Timeout \cup {Never}, block_recv_inserts(timeout)
        PROVE  WaitInv'
    <2>1. /\ inserting # None /\ inserting' = None /\ UNCHANGED owner
          /\ wait_port' = [wait_port EXCEPT ![inserting] = receiving[inserting]]
      BY <1>5 DEF block_recv_inserts
    <2> QED BY <2>1, Zenon DEF WaitInv, NoCircularWait, Acyclic
  <1>6. CASE send_batch_removes
    <2>1. /\ removing # None /\ UNCHANGED <<owner, inserting>>
          /\ wait_port' = [wait_port EXCEPT ![removing] = NoPort]
      BY <1>6 DEF send_batch_removes
    <2>2. inserting = None
      BY <2>1 DEF Inv, InsertingRegistered
    <2>3. \A x \in Thread : wait_port'[x] \in {wait_port[x], NoPort}
      BY <1>0, <2>1 DEF TypeOK
    <2> QED BY <1>0, <2>1, <2>2, <2>3, FewerWaitsInv
  <1> QED BY <1>1, <1>3, <1>4, <1>5, <1>6 DEF Next

(* Deadlock detection prevents circular wait across ports: whatever the    *)
(* threads create, close, send and receive, and whenever deadlines expire, *)
(* no group of threads waits only on ports the group owns.                 *)
THEOREM NoDeadlockAcrossPorts == Spec => []NoCircularWait
  <1>1. Init => WaitInv
    BY DEF Init, WaitInv, NoCircularWait
  <1>2. WaitInv => NoCircularWait
    BY DEF WaitInv
  <1> QED BY <1>1, <1>2, NextWaitInv, SpecInv, PTL DEF Spec
===========================================================================
