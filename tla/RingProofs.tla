----------------------------- MODULE RingProofs -----------------------------
(***************************************************************************)
(* RingBuffer<N> of kernel/src/input.rs is a queue of at most N - 1 bytes, *)
(* for every N and wherever its indices have wrapped to; and so are the    *)
(* kernel's two input buffers, under the handlers and polls of Input.      *)
(***************************************************************************)
EXTENDS Input, SeqLemmas, TLAPS

IsRing(r, N) ==
    r \in [buffer : [0 .. N - 1 -> 0 .. 255], head : 0 .. N - 1, tail : 0 .. N - 1]

(* The index of the cell the i-th byte is in.                              *)
At(r, N, i) == (r.tail + i - 1) % N

(* A cell at most once round from another.                                 *)
LEMMA Wrapped ==
  ASSUME NEW N \in Nat \ {0}, NEW t \in 0 .. N - 1, NEW i \in 1 .. N
  PROVE  (t + i - 1) % N = IF t + i - 1 < N THEN t + i - 1 ELSE t + i - 1 - N
  <1>1. PICK x \in Nat : x = t + i - 1
    OBVIOUS
  <1>2. x \in 0 .. 2 * N - 1
    BY <1>1
  <1>3. x % N = IF x < N THEN x ELSE x - N
    BY <1>2, ModWrap, Zenon
  <1> QED  BY <1>1, <1>3

(* A ring of N cells holds fewer than N bytes, its i-th byte is in a cell  *)
(* other than the one at head, and the cell after its last is that one.    *)
LEMMA Positions ==
  ASSUME NEW N \in Nat \ {0}, NEW r, IsRing(r, N)
  PROVE  /\ len(r, N) \in 0 .. N - 1
         /\ \A i \in 1 .. len(r, N) : At(r, N, i) \in 0 .. N - 1 /\ At(r, N, i) # r.head
         /\ At(r, N, len(r, N) + 1) = r.head
  <1> DEFINE h == r.head
             t == r.tail
             n == len(r, N)
  <1>1. h \in 0 .. N - 1 /\ t \in 0 .. N - 1
    BY DEF IsRing
  <1>2. n = IF h >= t THEN h - t ELSE N - t + h
    BY DEF len
  <1>3. \A i : At(r, N, i) = (t + i - 1) % N
    BY DEF At
  <1> HIDE DEF h, t, n
  <1>4. n \in 0 .. N - 1
    BY <1>1, <1>2
  <1>5. ASSUME NEW i \in 1 .. n + 1
        PROVE  (t + i - 1) % N = IF t + i - 1 < N THEN t + i - 1 ELSE t + i - 1 - N
    <2>1. i \in 1 .. N
      BY <1>4
    <2> QED  BY <1>1, <2>1, Wrapped
  <1>6. ASSUME NEW i \in 1 .. n PROVE At(r, N, i) \in 0 .. N - 1 /\ At(r, N, i) # h
    <2>1. i \in 1 .. n + 1
      BY <1>4
    <2>2. At(r, N, i) = IF t + i - 1 < N THEN t + i - 1 ELSE t + i - 1 - N
      BY <1>3, <1>5, <2>1
    <2> QED  BY <1>1, <1>2, <1>4, <2>2
  <1>7. At(r, N, n + 1) = h
    <2>1. n + 1 \in 1 .. n + 1
      BY <1>4
    <2>2. At(r, N, n + 1) = IF t + (n + 1) - 1 < N THEN t + (n + 1) - 1 ELSE t + (n + 1) - 1 - N
      BY <1>3, <1>5, <2>1
    <2> QED  BY <1>1, <1>2, <1>4, <2>2
  <1> QED  BY <1>4, <1>6, <1>7 DEF h, n

(* The distance from tail to head grows by one with head.                  *)
LEMMA OneMore ==
  ASSUME NEW N \in Nat \ {0}, NEW h \in 0 .. N - 1, NEW t \in 0 .. N - 1, NEW nh,
         nh = (IF h + 1 = N THEN 0 ELSE h + 1), nh # t
  PROVE  (IF nh >= t THEN nh - t ELSE N - t + nh)
           = (IF h >= t THEN h - t ELSE N - t + h) + 1
  OBVIOUS

(***************************************************************************)
(* push stores the byte behind the others exactly if fewer than N - 1 are  *)
(* stored, and otherwise changes nothing.                                  *)
(***************************************************************************)
THEOREM PushAppends ==
  ASSUME NEW N \in Nat \ {0}, NEW r, IsRing(r, N), NEW byte \in 0 .. 255
  PROVE  LET p == push(r, N, byte) IN
         /\ IsRing(p.ring, N)
         /\ p.stored <=> Len(Contents(r, N)) < N - 1
         /\ p.stored => Contents(p.ring, N) = Append(Contents(r, N), byte)
         /\ ~p.stored => p.ring = r
  <1> DEFINE p == push(r, N, byte)
             nh == (r.head + 1) % N
             n == len(r, N)
             q == p.ring
  <1>1. r.head \in 0 .. N - 1 /\ r.tail \in 0 .. N - 1 /\ r.buffer \in [0 .. N - 1 -> 0 .. 255]
    BY Zenon DEF IsRing
  <1>2. nh = IF r.head + 1 = N THEN 0 ELSE r.head + 1
    BY <1>1, ModNext, SMTT(60)
  <1>3. n = IF r.head >= r.tail THEN r.head - r.tail ELSE N - r.tail + r.head
    BY DEF len
  <1>4. n \in 0 .. N - 1 /\ Len(Contents(r, N)) = n
    BY Positions DEF Contents
  <1>5. p = IF nh = r.tail THEN [ring |-> r, stored |-> FALSE]
            ELSE [ring |-> [r EXCEPT !.buffer[r.head] = byte, !.head = nh], stored |-> TRUE]
    BY DEF push
  <1> HIDE DEF nh, n
  <1>6. (nh = r.tail) <=> n = N - 1
    BY <1>1, <1>2, <1>3, SMTT(60)
  <1>7. CASE nh = r.tail
    <2>1. p.ring = r /\ p.stored = FALSE /\ n = N - 1
      BY <1>5, <1>6, <1>7
    <2> QED  BY <1>4, <2>1
  <1>8. CASE nh # r.tail
    <2> DEFINE new == [r.buffer EXCEPT ![r.head] = byte]
    <2>1. p.stored = TRUE /\ n < N - 1
      BY <1>4, <1>5, <1>6, <1>8
    <2>2. q = [buffer |-> new, head |-> nh, tail |-> r.tail]
      <3> DEFINE g == [r EXCEPT !.buffer = new]
      <3>1. g = [buffer |-> new, head |-> r.head, tail |-> r.tail]
        <4>1. r = [buffer |-> r.buffer, head |-> r.head, tail |-> r.tail]
          BY Zenon DEF IsRing
        <4> HIDE DEF new
        <4> QED  BY <4>1
      <3>2. q = [g EXCEPT !.head = nh]
        BY <1>1, <1>5, <1>8 DEF IsRing
      <3> HIDE DEF g, q
      <3> QED  BY <3>1, <3>2
    <2>3. /\ new \in [0 .. N - 1 -> 0 .. 255] /\ new[r.head] = byte
          /\ \A k \in 0 .. N - 1 : k # r.head => new[k] = r.buffer[k]
      BY <1>1, ZenonT(60)
    <2>4. nh \in 0 .. N - 1
      BY <1>1, <1>2
    <2> HIDE DEF new, p, q
    <2>5. IsRing(q, N)
      BY <1>1, <2>2, <2>3, <2>4, Zenon DEF IsRing
    <2>6. len(q, N) = n + 1
      <3>1. q.head = nh /\ q.tail = r.tail
        BY <2>2
      <3>2. len(q, N) = IF nh >= r.tail THEN nh - r.tail ELSE N - r.tail + nh
        BY <3>1 DEF len
      <3>3. (IF nh >= r.tail THEN nh - r.tail ELSE N - r.tail + nh)
              = (IF r.head >= r.tail THEN r.head - r.tail ELSE N - r.tail + r.head) + 1
        BY <1>1, <1>2, <1>8, OneMore, ZenonT(120)
      <3> QED  BY <1>3, <3>2, <3>3, Zenon
    <2>7. ASSUME NEW i \in 1 .. n + 1
          PROVE  new[(r.tail + i - 1) % N] = Append(Contents(r, N), byte)[i]
      <3>1. Contents(r, N) = [j \in 1 .. n |-> r.buffer[(r.tail + j - 1) % N]]
        BY DEF Contents, n
      <3>2. CASE i = n + 1
        <4>1. (r.tail + i - 1) % N = r.head
          BY <3>2, Positions DEF At, n
        <4>2. Append(Contents(r, N), byte)[i] = byte
          BY <1>4, <3>1, <3>2
        <4> QED  BY <2>3, <4>1, <4>2
      <3>3. CASE i # n + 1
        <4>1. i \in 1 .. n
          BY <1>4, <3>3
        <4>2. (r.tail + i - 1) % N \in 0 .. N - 1 /\ (r.tail + i - 1) % N # r.head
          BY <4>1, Positions, SMTT(30) DEF At, n
        <4>3. Append(Contents(r, N), byte)[i] = r.buffer[(r.tail + i - 1) % N]
          BY <1>4, <3>1, <4>1
        <4> QED  BY <2>3, <4>2, <4>3
      <3> QED  BY <3>2, <3>3, Zenon
    <2>8. Contents(q, N) = [i \in 1 .. n + 1 |-> new[(r.tail + i - 1) % N]]
      BY <2>2, <2>6 DEF Contents
    <2>9. Append(Contents(r, N), byte)
             = [i \in 1 .. n + 1 |-> Append(Contents(r, N), byte)[i]]
      <3>1. Contents(r, N) = [j \in 1 .. n |-> r.buffer[(r.tail + j - 1) % N]]
        BY DEF Contents, n
      <3> QED  BY ONLY <1>4, <3>1
    <2>10. Contents(q, N) = Append(Contents(r, N), byte)
      BY <2>7, <2>8, <2>9, Zenon
    <2> QED  BY <1>4, <2>1, <2>5, <2>10 DEF q, p
  <1> QED  BY <1>7, <1>8

(* The distance from tail to head shrinks by one with tail.                *)
LEMMA OneLess ==
  ASSUME NEW N \in Nat \ {0}, NEW h \in 0 .. N - 1, NEW t \in 0 .. N - 1, NEW nt,
         nt = (IF t + 1 = N THEN 0 ELSE t + 1), h # t
  PROVE  (IF h >= nt THEN h - nt ELSE N - nt + h)
           = (IF h >= t THEN h - t ELSE N - t + h) - 1
  OBVIOUS

(* The i-th cell from the cell after t is the one after the i-th from t.   *)
LEMMA Shifted ==
  ASSUME NEW N \in Nat \ {0}, NEW t \in 0 .. N - 1, NEW nt,
         nt = (IF t + 1 = N THEN 0 ELSE t + 1), NEW i \in 1 .. N - 1
  PROVE  (nt + i - 1) % N = (t + (i + 1) - 1) % N
  <1>1. nt \in 0 .. N - 1 /\ i \in 1 .. N /\ i + 1 \in 1 .. N
    OBVIOUS
  <1>2. (nt + i - 1) % N = IF nt + i - 1 < N THEN nt + i - 1 ELSE nt + i - 1 - N
    BY <1>1, Wrapped
  <1>3. (t + (i + 1) - 1) % N
          = IF t + (i + 1) - 1 < N THEN t + (i + 1) - 1 ELSE t + (i + 1) - 1 - N
    BY <1>1, Wrapped
  <1>4. (IF nt + i - 1 < N THEN nt + i - 1 ELSE nt + i - 1 - N)
          = (IF t + (i + 1) - 1 < N THEN t + (i + 1) - 1 ELSE t + (i + 1) - 1 - N)
    OBVIOUS
  <1> QED  BY <1>2, <1>3, <1>4

(***************************************************************************)
(* A ring is empty exactly if nothing is stored; pop then returns nothing, *)
(* and otherwise the oldest byte, leaving the others in their order.       *)
(***************************************************************************)
THEOREM PopTakesOldest ==
  ASSUME NEW N \in Nat \ {0}, NEW r, IsRing(r, N)
  PROVE  /\ is_empty(r) <=> Contents(r, N) = <<>>
         /\ ~is_empty(r) => /\ IsRing(pop(r, N), N)
                            /\ front(r) = Head(Contents(r, N))
                            /\ Contents(pop(r, N), N) = Tail(Contents(r, N))
  <1> DEFINE n == len(r, N)
             c == Contents(r, N)
             nt == (r.tail + 1) % N
             q == pop(r, N)
  <1>1. r.head \in 0 .. N - 1 /\ r.tail \in 0 .. N - 1 /\ r.buffer \in [0 .. N - 1 -> 0 .. 255]
    BY Zenon DEF IsRing
  <1>2. n = IF r.head >= r.tail THEN r.head - r.tail ELSE N - r.tail + r.head
    BY DEF len
  <1>3. n \in 0 .. N - 1
    BY Positions
  <1>4. c = [j \in 1 .. n |-> r.buffer[(r.tail + j - 1) % N]]
    BY DEF Contents
  <1>5. nt = IF r.tail + 1 = N THEN 0 ELSE r.tail + 1
    BY <1>1, ModNext, Zenon
  <1> HIDE DEF n, c, nt
  <1>6. is_empty(r) <=> n = 0
    BY <1>1, <1>2 DEF is_empty
  <1>7. \A j \in 1 .. n : r.buffer[(r.tail + j - 1) % N] \in 0 .. 255
    BY <1>1, Positions, ZenonT(120) DEF At, n
  <1>8. c \in Seq(0 .. 255) /\ Len(c) = n
    <2> DEFINE e(j) == r.buffer[(r.tail + j - 1) % N]
    <2>1. c = [j \in 1 .. n |-> e(j)] /\ \A j \in 1 .. n : e(j) \in 0 .. 255
      BY <1>4, <1>7, Zenon
    <2> HIDE DEF e
    <2> QED  BY <1>3, <2>1, SMTT(30)
  <1>9. is_empty(r) <=> c = <<>>
    BY <1>6, <1>8
  <1>10. ASSUME ~is_empty(r)
         PROVE  IsRing(q, N) /\ front(r) = Head(c) /\ Contents(q, N) = Tail(c)
    <2>1. n \in 1 .. N - 1
      BY <1>3, <1>6, <1>10
    <2>2. q = [buffer |-> r.buffer, head |-> r.head, tail |-> nt]
      <3>1. r = [buffer |-> r.buffer, head |-> r.head, tail |-> r.tail]
        BY Zenon DEF IsRing
      <3> QED  BY <3>1 DEF pop, nt
    <2> HIDE DEF q
    <2>3. IsRing(q, N)
      BY ONLY <1>1, <1>5, <2>2, SMTT(60) DEF IsRing
    <2>4. front(r) = Head(c)
      <3>1. c[1] = r.buffer[(r.tail + 1 - 1) % N]
        BY <1>4, <2>1
      <3>2. r.tail + 1 - 1 = r.tail /\ r.tail % N = r.tail
        <4> DEFINE t == r.tail
        <4>1. t \in 0 .. N - 1
          BY <1>1
        <4> HIDE DEF t
        <4>2. t + 1 - 1 = t /\ t \in 0 .. 2 * N - 1 /\ t < N
          BY <4>1
        <4>3. t % N = t
          BY <4>2, ModWrap, Zenon
        <4> QED  BY <4>2, <4>3 DEF t
      <3> QED  BY <1>8, <2>1, <3>1, <3>2 DEF front
    <2>5. len(q, N) = n - 1
      <3>1. q.head = r.head /\ q.tail = nt
        BY <2>2
      <3>2. len(q, N) = IF r.head >= nt THEN r.head - nt ELSE N - nt + r.head
        BY <3>1 DEF len
      <3>3. r.head # r.tail
        BY <1>10 DEF is_empty
      <3>4. (IF r.head >= nt THEN r.head - nt ELSE N - nt + r.head)
              = (IF r.head >= r.tail THEN r.head - r.tail ELSE N - r.tail + r.head) - 1
        BY <1>1, <1>5, <3>3, OneLess, ZenonT(120)
      <3> QED  BY <1>2, <3>2, <3>4, Zenon
    <2>6. ASSUME NEW i \in 1 .. n - 1 PROVE (nt + i - 1) % N = (r.tail + (i + 1) - 1) % N
      <3>1. i \in 1 .. N - 1
        BY <2>1
      <3> QED  BY <1>1, <1>5, <3>1, Shifted, ZenonT(120)
    <2>7. Contents(q, N) = [i \in 1 .. n - 1 |-> r.buffer[(nt + i - 1) % N]]
      BY <2>2, <2>5 DEF Contents
    <2>8. \A i \in 1 .. n - 1 : c[i + 1] = r.buffer[(nt + i - 1) % N]
      BY <1>4, <2>1, <2>6
    <2>9. Tail(c) = [i \in 1 .. n - 1 |-> c[i + 1]]
      <3>1. Len(Tail(c)) = n - 1 /\ Tail(c) \in Seq(0 .. 255)
        BY <1>8, <2>1
      <3>2. \A i \in 1 .. n - 1 : Tail(c)[i] = c[i + 1]
        BY <1>8, <2>1
      <3>3. Tail(c) = [i \in 1 .. n - 1 |-> Tail(c)[i]]
        <4> DEFINE u == Tail(c)
        <4>1. u \in Seq(0 .. 255) /\ Len(u) = n - 1
          BY <3>1
        <4> HIDE DEF u
        <4>2. u = [i \in 1 .. n - 1 |-> u[i]]
          BY <4>1
        <4> QED  BY <4>2, Zenon DEF u
      <3> QED  BY <3>2, <3>3, Zenon
    <2>10. Contents(q, N) = Tail(c)
      BY <2>7, <2>8, <2>9
    <2> QED  BY <2>3, <2>4, <2>10
  <1> QED  BY <1>9, <1>10 DEF c, q

(* The cell k further on.                                                  *)
LEMMA WrappedBy ==
  ASSUME NEW N \in Nat \ {0}, NEW t \in 0 .. N - 1, NEW k \in 0 .. N - 1
  PROVE  (t + k) % N = IF t + k < N THEN t + k ELSE t + k - N
  <1>1. PICK x \in Nat : x = t + k
    OBVIOUS
  <1>2. x \in 0 .. 2 * N - 1
    BY <1>1
  <1>3. x % N = IF x < N THEN x ELSE x - N
    BY <1>2, ModWrap, Zenon
  <1> QED  BY <1>1, <1>3

(* What is left of a sequence when its first k elements are taken.         *)
LEMMA DropFacts ==
  ASSUME NEW S, NEW c \in Seq(S), NEW k \in 0 .. Len(c)
  PROVE  /\ SubSeq(c, k + 1, Len(c)) \in Seq(S)
         /\ SubSeq(c, k + 1, Len(c)) = [i \in 1 .. Len(c) - k |-> c[i + k]]
         /\ Len(SubSeq(c, k + 1, Len(c))) = Len(c) - k
  <1>1. PICK m : m = SubSeq(c, k + 1, Len(c))
    BY Zenon
  <1>2. m \in Seq(S) /\ Len(m) = Len(c) - k /\ \A i \in 1 .. Len(c) - k : m[i] = c[i + k]
    BY <1>1
  <1>3. m = [i \in 1 .. Len(c) - k |-> m[i]]
    BY <1>2
  <1> QED  BY <1>1, <1>2, <1>3, Zenon

(* The bytes of a ring are a sequence, as long as len says.                *)
LEMMA ContentsType ==
  ASSUME NEW N \in Nat \ {0}, NEW r, IsRing(r, N)
  PROVE  Contents(r, N) \in Seq(0 .. 255) /\ Len(Contents(r, N)) = len(r, N)
  <1> DEFINE n == len(r, N)
             e(j) == r.buffer[(r.tail + j - 1) % N]
  <1>1. Contents(r, N) = [j \in 1 .. n |-> e(j)] /\ n \in 0 .. N - 1
    BY Positions DEF Contents
  <1>2. \A j \in 1 .. n : e(j) \in 0 .. 255
    BY Positions, ZenonT(120) DEF At, IsRing
  <1> HIDE DEF e, n
  <1>3. Contents(r, N) \in Seq(0 .. 255) /\ Len(Contents(r, N)) = n
    BY <1>1, <1>2
  <1> QED  BY <1>3 DEF n

(***************************************************************************)
(* Moving tail on by k, as poll_mouse_event does, takes the k oldest bytes *)
(* and leaves the others in their order.                                   *)
(***************************************************************************)
THEOREM DrainTakesOldest ==
  ASSUME NEW N \in Nat \ {0}, NEW r, IsRing(r, N), NEW k, k \in 0 .. len(r, N)
  PROVE  LET q == [r EXCEPT !.tail = (@ + k) % N]
             c == Contents(r, N)
         IN  IsRing(q, N) /\ Contents(q, N) = SubSeq(c, k + 1, Len(c))
  <1> DEFINE n == len(r, N)
             c == Contents(r, N)
             t == r.tail
             h == r.head
             nt == (r.tail + k) % N
             q == [r EXCEPT !.tail = (@ + k) % N]
  <1>1. h \in 0 .. N - 1 /\ t \in 0 .. N - 1 /\ r.buffer \in [0 .. N - 1 -> 0 .. 255]
    BY Zenon DEF IsRing
  <1>2. n = IF h >= t THEN h - t ELSE N - t + h
    BY DEF len
  <1>3. n \in 0 .. N - 1 /\ k \in 0 .. n
    BY Positions
  <1>4. c = [j \in 1 .. n |-> r.buffer[(t + j - 1) % N]]
    BY DEF Contents
  <1>5. nt = (t + k) % N
    OBVIOUS
  <1>6. q = [buffer |-> r.buffer, head |-> h, tail |-> nt]
    <2>1. r = [buffer |-> r.buffer, head |-> r.head, tail |-> r.tail]
      BY Zenon DEF IsRing
    <2> QED  BY <2>1 DEF nt
  <1>7. c \in Seq(0 .. 255) /\ Len(c) = n
    BY ContentsType
  <1> HIDE DEF n, c, nt, q, t, h
  <1>a. nt = IF t + k < N THEN t + k ELSE t + k - N
    <2>1. k \in 0 .. N - 1
      BY <1>3
    <2> QED  BY <1>1, <1>5, <2>1, WrappedBy
  <1>8. nt \in 0 .. N - 1 /\ (IF h >= nt THEN h - nt ELSE N - nt + h) = n - k
    BY <1>1, <1>2, <1>3, <1>a
  <1>9. IsRing(q, N)
    BY <1>1, <1>6, <1>8, Zenon DEF IsRing
  <1>10. len(q, N) = n - k
    BY <1>1, <1>6, <1>8 DEF len
  <1>11. Contents(q, N) = [i \in 1 .. n - k |-> r.buffer[(nt + i - 1) % N]]
    BY <1>6, <1>10 DEF Contents
  <1>12. ASSUME NEW i \in 1 .. n - k PROVE c[i + k] = r.buffer[(nt + i - 1) % N]
    <2>1. i \in 1 .. N - k /\ k \in 0 .. N - 1 /\ i + k \in 1 .. n
      BY <1>3
    <2>2. (nt + i - 1) % N = (t + (i + k) - 1) % N
      <3>1. nt \in 0 .. N - 1 /\ i \in 1 .. N /\ i + k \in 1 .. N
        BY <1>3, <1>8, <2>1
      <3>2. (nt + i - 1) % N = IF nt + i - 1 < N THEN nt + i - 1 ELSE nt + i - 1 - N
        BY <3>1, Wrapped
      <3>3. PICK j \in 1 .. N : j = i + k
        BY <3>1
      <3>4. (t + j - 1) % N = IF t + j - 1 < N THEN t + j - 1 ELSE t + j - 1 - N
        BY <1>1, Wrapped, ZenonT(40)
      <3>5. (IF nt + i - 1 < N THEN nt + i - 1 ELSE nt + i - 1 - N)
              = (IF t + j - 1 < N THEN t + j - 1 ELSE t + j - 1 - N)
        BY <1>1, <1>a, <2>1, <3>3
      <3> QED  BY <3>2, <3>3, <3>4, <3>5, Zenon
    <2> QED  BY <1>4, <2>1, <2>2
  <1>13. SubSeq(c, k + 1, n) = [i \in 1 .. n - k |-> c[i + k]]
    <2>1. k \in 0 .. Len(c)
      BY <1>3, <1>7
    <2>2. SubSeq(c, k + 1, Len(c)) = [i \in 1 .. Len(c) - k |-> c[i + k]]
      BY <1>7, <2>1, DropFacts
    <2> QED  BY <1>7, <2>2, Zenon
  <1>14. Contents(q, N) = SubSeq(c, k + 1, n)
    BY <1>11, <1>12, <1>13, Zenon
  <1> QED  BY <1>7, <1>9, <1>14, Zenon DEF c, q

---------------------------------------------------------------------------
(* The buffers in the kernel: filled by the handlers, emptied by polls.    *)

Byte == 0 .. 255
Item == [aux : BOOLEAN, byte : Byte]

(* The part of the types that the buffers need.                            *)
BuffersOK ==
    /\ program \in Programs
    /\ controller \in Seq(Item)
    /\ IsRing(keyboard_buffer, KEYBOARD_BUFFER_SIZE)
    /\ IsRing(mouse_buffer, MOUSE_BUFFER_SIZE)

(* The devices send bytes.                                                 *)
LEMMA KeyBytesType ==
  ASSUME NEW p \in Programs, NEW k \in Keys[p], NEW pressed \in BOOLEAN
  PROVE  KeyBytes(k, pressed) \in Seq(Item)
  <1>1. k.ext \in BOOLEAN /\ k.code \in 1 .. 127
    BY KeysAssumption
  <1>2. PICK b \in Byte : b = IF pressed THEN k.code ELSE k.code + 128
    BY <1>1, SMTT(60) DEF Byte
  <1>3. Key(b) \in Item /\ Key(EXTENDED_PREFIX) \in Item
    BY DEF Item, Key, Byte, EXTENDED_PREFIX
  <1>4. KeyBytes(k, pressed) = (IF k.ext THEN <<Key(EXTENDED_PREFIX)>> ELSE <<>>) \o <<Key(b)>>
    BY <1>2, Zenon DEF KeyBytes
  <1> QED  BY <1>1, <1>3, <1>4

(* So does the mouse, three for a movement.                                *)
LEMMA PacketBytesType ==
  ASSUME NEW p \in Programs, NEW m \in Motions[p]
  PROVE  PacketBytes(m) \in Seq(Item)
  <1>1. m.left \in BOOLEAN /\ m.dx \in Int /\ m.dy \in Int
    BY MotionsAssumption
  <1> DEFINE f == 8 + Flag(m.left, 1) + Flag(m.dx < 0, 16) + Flag(m.dy < 0, 32)
                    + Flag(Large(m.dx), 64) + Flag(Large(m.dy), 128)
  <1>2. f \in Byte
    BY SMTT(90) DEF Flag, Byte
  <1>3. m.dx % 256 \in Byte /\ m.dy % 256 \in Byte
    BY <1>1, SMTT(60) DEF Byte
  <1>4. PacketBytes(m) = <<Aux(f), Aux(m.dx % 256), Aux(m.dy % 256)>>
    BY Zenon DEF PacketBytes
  <1> HIDE DEF f
  <1>5. Aux(f) \in Item /\ Aux(m.dx % 256) \in Item /\ Aux(m.dy % 256) \in Item
    BY <1>2, <1>3 DEF Aux, Item
  <1> QED  BY <1>4, <1>5

(* A byte waits at the port, and what is behind it.                        *)
LEMMA AtPortType ==
  BuffersOK /\ controller # <<>> =>
      AtPort \in Item /\ AtPort.byte \in Byte /\ AtPort.aux \in BOOLEAN /\ Tail(controller) \in Seq(Item)
  <1> SUFFICES ASSUME BuffersOK, controller # <<>>
               PROVE  /\ AtPort \in Item /\ AtPort.byte \in Byte /\ AtPort.aux \in BOOLEAN
                      /\ Tail(controller) \in Seq(Item)
    OBVIOUS
  <1>1. AtPort \in Item /\ Tail(controller) \in Seq(Item)
    BY DEF BuffersOK, AtPort
  <1>2. AtPort.byte \in Byte /\ AtPort.aux \in BOOLEAN
    BY <1>1 DEF Item
  <1> QED  BY <1>1, <1>2

(* The sizes of the buffers.                                               *)
LEMMA Sizes ==
  KEYBOARD_BUFFER_SIZE \in Nat \ {0} /\ MOUSE_BUFFER_SIZE \in Nat \ {0} /\ DRAIN \in Nat \ {0}
  BY InputAssumption

(* push for a byte at the port.                                            *)
LEMMA PushFacts ==
  ASSUME NEW N \in Nat \ {0}, NEW r, IsRing(r, N), NEW b \in Byte
  PROVE  /\ IsRing(push(r, N, b).ring, N)
         /\ Contents(r, N) \in Seq(Byte) /\ Len(Contents(r, N)) \in 0 .. N - 1
         /\ push(r, N, b).stored <=> Len(Contents(r, N)) < N - 1
         /\ push(r, N, b).stored => Contents(push(r, N, b).ring, N) = Append(Contents(r, N), b)
         /\ ~push(r, N, b).stored => push(r, N, b).ring = r
  <1>1. Contents(r, N) \in Seq(Byte) /\ Len(Contents(r, N)) \in 0 .. N - 1
    BY ContentsType, Positions DEF Byte
  <1>2. b \in 0 .. 255
    BY DEF Byte
  <1>3. LET p == push(r, N, b) IN
         /\ IsRing(p.ring, N)
         /\ p.stored <=> Len(Contents(r, N)) < N - 1
         /\ p.stored => Contents(p.ring, N) = Append(Contents(r, N), b)
         /\ ~p.stored => p.ring = r
    BY <1>2, PushAppends, ZenonT(60)
  <1> QED  BY <1>1, <1>3, Zenon

(* pop on a buffer that is not empty.                                      *)
LEMMA PopFacts ==
  ASSUME NEW N \in Nat \ {0}, NEW r, IsRing(r, N), ~is_empty(r)
  PROVE  /\ IsRing(pop(r, N), N)
         /\ Contents(r, N) \in Seq(Byte) /\ Contents(r, N) # <<>>
         /\ front(r) = Head(Contents(r, N)) /\ front(r) \in Byte
         /\ Contents(pop(r, N), N) = Tail(Contents(r, N))
  <1>1. Contents(r, N) \in Seq(Byte)
    BY ContentsType DEF Byte
  <1>2. /\ Contents(r, N) # <<>> /\ IsRing(pop(r, N), N) /\ front(r) = Head(Contents(r, N))
        /\ Contents(pop(r, N), N) = Tail(Contents(r, N))
    BY PopTakesOldest, Zenon
  <1>3. Head(Contents(r, N)) \in Byte
    BY <1>1, <1>2
  <1> QED  BY <1>1, <1>2, <1>3


(* Both buffers start empty.                                               *)
LEMMA NewRing ==
  ASSUME NEW N \in Nat \ {0}
  PROVE  IsRing(new_ring(N), N) /\ Contents(new_ring(N), N) = <<>>
  <1>1. /\ new_ring(N).buffer = [i \in 0 .. N - 1 |-> 0]
        /\ new_ring(N).head = 0 /\ new_ring(N).tail = 0
    BY DEF new_ring
  <1>2. IsRing(new_ring(N), N)
    <2>1. [i \in 0 .. N - 1 |-> 0] \in [0 .. N - 1 -> 0 .. 255] /\ 0 \in 0 .. N - 1
      OBVIOUS
    <2> QED  BY <2>1 DEF IsRing, new_ring
  <1>3. is_empty(new_ring(N))
    BY <1>1 DEF is_empty
  <1> QED  BY <1>2, <1>3, PopTakesOldest, Zenon

(* What poll_mouse_event takes: some of the bytes, at least one.           *)
LEMMA DrainFacts ==
  ASSUME NEW N \in Nat \ {0}, NEW r, IsRing(r, N), ~is_empty(r), NEW D \in Nat \ {0},
         NEW k, k = (IF len(r, N) < D THEN len(r, N) ELSE D)
  PROVE  /\ Contents(r, N) \in Seq(Byte) /\ k \in 1 .. Len(Contents(r, N))
         /\ IsRing([r EXCEPT !.tail = (@ + k) % N], N)
         /\ Contents([r EXCEPT !.tail = (@ + k) % N], N)
              = SubSeq(Contents(r, N), k + 1, Len(Contents(r, N)))
  <1>1. Contents(r, N) \in Seq(Byte) /\ Len(Contents(r, N)) = len(r, N)
    BY ContentsType DEF Byte
  <1>2. Contents(r, N) # <<>>
    BY PopTakesOldest, Zenon
  <1>3. len(r, N) \in Nat \ {0}
    BY <1>1, <1>2
  <1>4. k \in 1 .. len(r, N) /\ k \in 0 .. len(r, N)
    BY <1>3
  <1>5. LET q == [r EXCEPT !.tail = (@ + k) % N]
            c == Contents(r, N)
        IN  IsRing(q, N) /\ Contents(q, N) = SubSeq(c, k + 1, Len(c))
    BY <1>4, DrainTakesOldest, Zenon
  <1> QED  BY <1>1, <1>4, <1>5, Zenon

LEMMA BuffersInit == Init => BuffersOK
  BY NewRing, Sizes DEF Init, BuffersOK

(* The types of the buffers, action by action.                             *)
LEMMA BuffersStep == BuffersOK /\ [Next]_vars => BuffersOK'
  <1> SUFFICES ASSUME BuffersOK, [Next]_vars PROVE BuffersOK'
    OBVIOUS
  <1>1. ASSUME NEW k \in Keys[program], NEW pressed \in BOOLEAN, UseKey(k, pressed)
        PROVE  BuffersOK'
    <2>1. KeyBytes(k, pressed) \in Seq(Item) /\ controller \in Seq(Item)
      BY KeyBytesType DEF BuffersOK
    <2>2. controller' \in Seq(Item)
      BY <1>1, <2>1 DEF UseKey
    <2> QED  BY <1>1, <2>2 DEF UseKey, BuffersOK, mouse_vars
  <1>2. ASSUME NEW m \in Motions[program], MouseMove(m) PROVE BuffersOK'
    <2>1. PacketBytes(m) \in Seq(Item) /\ controller \in Seq(Item)
      BY PacketBytesType DEF BuffersOK
    <2>2. controller' \in Seq(Item)
      BY <1>2, <2>1 DEF MouseMove
    <2> QED  BY <1>2, <2>2 DEF MouseMove, BuffersOK, key_vars
  <1>3. CASE TakeIrq
    BY <1>3 DEF TakeIrq, BuffersOK, key_vars, mouse_vars
  <1>4. CASE on_keyboard_irq
    <2>1. controller' \in Seq(Item) /\ AtPort.byte \in Byte
      BY <1>4, AtPortType DEF on_keyboard_irq, Waiting
    <2>2. IsRing(keyboard_buffer', KEYBOARD_BUFFER_SIZE)
      BY <1>4, <2>1, Sizes, PushFacts DEF on_keyboard_irq, BuffersOK
    <2> QED  BY <1>4, <2>1, <2>2 DEF on_keyboard_irq, BuffersOK, mouse_vars
  <1>5. CASE on_mouse_irq
    <2>1. controller' \in Seq(Item) /\ AtPort.byte \in Byte
      BY <1>5, AtPortType DEF on_mouse_irq, Waiting
    <2>2. IsRing(mouse_buffer', MOUSE_BUFFER_SIZE)
      BY <1>5, <2>1, Sizes, PushFacts DEF on_mouse_irq, BuffersOK
    <2> QED  BY <1>5, <2>1, <2>2 DEF on_mouse_irq, BuffersOK, key_vars
  <1>6. CASE EndIrq
    BY <1>6 DEF EndIrq, BuffersOK, key_vars, mouse_vars
  <1>7. ASSUME NEW t \in Threads, NEW i \in ALLOWED_IRQS,
               sys_register_irq_handler(t, i) \/ sys_unregister_irq_handler(t, i)
        PROVE  BuffersOK'
    BY <1>7 DEF sys_register_irq_handler, sys_unregister_irq_handler, BuffersOK, key_vars,
                mouse_vars
  <1>8. CASE keyboard_poll
    <2>1. IsRing(keyboard_buffer', KEYBOARD_BUFFER_SIZE)
      BY <1>8, Sizes, PopFacts DEF keyboard_poll, BuffersOK
    <2> QED  BY <1>8, <2>1 DEF keyboard_poll, BuffersOK, mouse_vars
  <1>9. CASE poll_key_event
    <2> DEFINE rest == pop(keyboard_buffer, KEYBOARD_BUFFER_SIZE)
    <2>1. IsRing(rest, KEYBOARD_BUFFER_SIZE)
      BY <1>9, Sizes, PopFacts DEF poll_key_event, BuffersOK
    <2>2. ~is_empty(rest) => IsRing(pop(rest, KEYBOARD_BUFFER_SIZE), KEYBOARD_BUFFER_SIZE)
      BY <2>1, Sizes, PopFacts
    <2>3. keyboard_buffer' = rest \/ (~is_empty(rest) /\ keyboard_buffer' = pop(rest, KEYBOARD_BUFFER_SIZE))
      BY <1>9 DEF poll_key_event
    <2>4. IsRing(keyboard_buffer', KEYBOARD_BUFFER_SIZE)
      BY <2>1, <2>2, <2>3
    <2> QED  BY <1>9, <2>4 DEF poll_key_event, BuffersOK, mouse_vars
  <1>10. CASE ClientDrain \/ ClientWakes
    <2>1. IsRing(keyboard_buffer', KEYBOARD_BUFFER_SIZE)
      BY <1>10, Sizes, PopFacts DEF ClientDrain, ClientWakes, BuffersOK, key_vars
    <2> QED  BY <1>10, <2>1 DEF ClientDrain, ClientWakes, BuffersOK, mouse_vars
  <1>11. CASE poll_mouse_event
    <2> DEFINE stored == len(mouse_buffer, MOUSE_BUFFER_SIZE)
               count == IF stored < DRAIN THEN stored ELSE DRAIN
    <2>1. ~is_empty(mouse_buffer) /\ IsRing(mouse_buffer, MOUSE_BUFFER_SIZE)
      BY <1>11 DEF poll_mouse_event, BuffersOK
    <2>2. mouse_buffer' = [mouse_buffer EXCEPT !.tail = (@ + count) % MOUSE_BUFFER_SIZE]
      BY <1>11, Zenon DEF poll_mouse_event
    <2>3. PICK k : k = count
      OBVIOUS
    <2>4. IsRing([mouse_buffer EXCEPT !.tail = (@ + k) % MOUSE_BUFFER_SIZE], MOUSE_BUFFER_SIZE)
      BY <2>1, <2>3, Sizes, DrainFacts, Zenon
    <2>5. IsRing(mouse_buffer', MOUSE_BUFFER_SIZE)
      BY <2>2, <2>3, <2>4, Zenon
    <2> QED  BY <1>11, <2>5 DEF poll_mouse_event, BuffersOK, key_vars
  <1>12. CASE mouse_poll_byte
    <2>1. IsRing(mouse_buffer', MOUSE_BUFFER_SIZE)
      BY <1>12, Sizes, PopFacts DEF mouse_poll_byte, BuffersOK
    <2> QED  BY <1>12, <2>1 DEF mouse_poll_byte, BuffersOK, key_vars
  <1>13. CASE aux_data_available
    BY <1>13 DEF aux_data_available, BuffersOK, key_vars, mouse_vars
  <1>14. CASE read_data
    <2>1. controller' \in Seq(Item)
      BY <1>14, AtPortType DEF read_data
    <2> QED  BY <1>14, <2>1 DEF read_data, BuffersOK, key_vars
  <1>15. CASE UNCHANGED vars
    BY <1>15 DEF vars, BuffersOK, key_vars, mouse_vars
  <1> QED
    BY <1>1, <1>2, <1>3, <1>4, <1>5, <1>6, <1>7, <1>8, <1>9, <1>10, <1>11, <1>12, <1>13, <1>14,
       <1>15 DEF Next, Interrupt, PollsKeys, PollsMouse


(* A step that leaves the keyboard buffer and its losses alone.            *)
LEMMA KeyboardIdle ==
  ASSUME keyboard_buffer' = keyboard_buffer, "keys_lost" \in caveats' <=> "keys_lost" \in caveats
  PROVE  KeyboardFifo!Next
  <1>1. ("keys_lost" \in caveats)' = ("keys_lost" \in caveats)
    OBVIOUS
  <1>2. Contents(keyboard_buffer, KEYBOARD_BUFFER_SIZE)' = Contents(keyboard_buffer, KEYBOARD_BUFFER_SIZE)
    BY Zenon
  <1> QED  BY <1>1, <1>2, Zenon DEF KeyboardFifo!Next, KeyboardFifo!Change

(* A poll that takes the n oldest bytes of the keyboard buffer.            *)
LEMMA KeyboardGet ==
  ASSUME irq = 0, irq' = 0, caveats' = caveats,
         NEW n \in 1 .. Len(Contents(keyboard_buffer, KEYBOARD_BUFFER_SIZE)),
         Contents(keyboard_buffer, KEYBOARD_BUFFER_SIZE)'
           = SubSeq(Contents(keyboard_buffer, KEYBOARD_BUFFER_SIZE), n + 1,
                    Len(Contents(keyboard_buffer, KEYBOARD_BUFFER_SIZE)))
  PROVE  KeyboardFifo!Next
  <1>1. Offer(1) = <<>> /\ Offer(1)' = <<>>
    BY DEF Offer
  <1>2. ("keys_lost" \in caveats)' = ("keys_lost" \in caveats)
    OBVIOUS
  <1>3. KeyboardFifo!Get
    BY <1>1, <1>2, Zenon DEF KeyboardFifo!Get
  <1> QED  BY <1>3, Zenon DEF KeyboardFifo!Next

(* The tail of a sequence, and the tail of that, as ByteFifo writes them.  *)
LEMMA TailIsDrop ==
  ASSUME NEW S, NEW c \in Seq(S), c # <<>>
  PROVE  /\ 1 \in 1 .. Len(c) /\ Tail(c) = SubSeq(c, 1 + 1, Len(c))
         /\ Tail(c) # <<>> => 2 \in 1 .. Len(c) /\ Tail(Tail(c)) = SubSeq(c, 2 + 1, Len(c))
  <1>1. Len(c) \in Nat /\ Len(c) >= 1 /\ Tail(c) \in Seq(S) /\ Len(Tail(c)) = Len(c) - 1
    OBVIOUS
  <1>2. Tail(c) = SubSeq(c, 1 + 1, Len(c))
    <2>1. 1 \in 0 .. Len(c)
      BY <1>1
    <2>c. /\ SubSeq(c, 1 + 1, Len(c)) \in Seq(S)
          /\ SubSeq(c, 1 + 1, Len(c)) = [i \in 1 .. Len(c) - 1 |-> c[i + 1]]
          /\ Len(SubSeq(c, 1 + 1, Len(c))) = Len(c) - 1
      BY <2>1, DropFacts, Zenon
    <2>2. PICK m \in Seq(S) : m = SubSeq(c, 1 + 1, Len(c)) /\ Len(m) = Len(c) - 1
                              /\ m = [i \in 1 .. Len(c) - 1 |-> c[i + 1]]
      BY <2>c, Zenon
    <2>3. \A i \in 1 .. Len(c) - 1 : m[i] = Tail(c)[i]
      BY <1>1, <2>2
    <2>4. m = Tail(c)
      BY <1>1, <2>2, <2>3, SameElements
    <2> QED  BY <2>2, <2>4
  <1>3. ASSUME Tail(c) # <<>> PROVE 2 \in 1 .. Len(c) /\ Tail(Tail(c)) = SubSeq(c, 2 + 1, Len(c))
    <2>1. 2 \in 1 .. Len(c) /\ 2 \in 0 .. Len(c)
      BY <1>1, <1>3
    <2>c. /\ SubSeq(c, 2 + 1, Len(c)) \in Seq(S)
          /\ SubSeq(c, 2 + 1, Len(c)) = [i \in 1 .. Len(c) - 2 |-> c[i + 2]]
          /\ Len(SubSeq(c, 2 + 1, Len(c))) = Len(c) - 2
      BY <2>1, DropFacts, Zenon
    <2>2. PICK m \in Seq(S) : m = SubSeq(c, 2 + 1, Len(c)) /\ Len(m) = Len(c) - 2
                              /\ m = [i \in 1 .. Len(c) - 2 |-> c[i + 2]]
      BY <2>c, Zenon
    <2>3. PICK d \in Seq(S) : d = Tail(c)
      BY <1>1, Zenon
    <2>4. Len(d) = Len(c) - 1 /\ \A i \in 1 .. Len(c) - 1 : d[i] = c[i + 1]
      BY <1>1, <2>3
    <2>a. d # <<>>
      BY <1>3, <2>3
    <2>5. Tail(d) \in Seq(S) /\ Len(Tail(d)) = Len(d) - 1 /\ \A i \in 1 .. Len(Tail(d)) : Tail(d)[i] = d[i + 1]
      BY <2>a
    <2>b. PICK e \in Seq(S) : e = Tail(d)
      BY <2>5, ZenonT(40)
    <2>6. Len(e) = Len(c) - 2 /\ \A i \in 1 .. Len(c) - 2 : e[i] = d[i + 1]
      <3>1. Len(e) = Len(d) - 1 /\ \A i \in 1 .. Len(e) : e[i] = d[i + 1]
        BY <2>5, <2>b, Zenon
      <3>2. Len(e) = Len(c) - 2
        BY <1>1, <2>4, <3>1
      <3> QED  BY <3>1, <3>2
    <2>7. \A i \in 1 .. Len(c) - 2 : m[i] = e[i]
      BY <1>1, <2>2, <2>4, <2>6
    <2>8. m = e
      BY <2>2, <2>6, <2>7, SameElements
    <2> QED  BY <2>1, <2>2, <2>3, <2>b, <2>8
  <1> QED  BY <1>1, <1>2, <1>3

(* Every step is one of the FIFO that the keyboard buffer should be.       *)
LEMMA KeyboardStep == BuffersOK /\ [Next]_vars => KeyboardFifo!Next
  <1> SUFFICES ASSUME BuffersOK, [Next]_vars PROVE KeyboardFifo!Next
    OBVIOUS
  <1> DEFINE N == KEYBOARD_BUFFER_SIZE
             c == Contents(keyboard_buffer, N)
  <1>0. N \in Nat \ {0} /\ IsRing(keyboard_buffer, N)
    BY Sizes DEF BuffersOK
  <1>1. ASSUME NEW k \in Keys[program], NEW pressed \in BOOLEAN, UseKey(k, pressed)
        PROVE  KeyboardFifo!Next
    <2>1. "keys_lost" \in caveats' <=> "keys_lost" \in caveats
      BY <1>1 DEF UseKey, KeyCaveats
    <2>2. keyboard_buffer' = keyboard_buffer
      BY <1>1 DEF UseKey
    <2> QED  BY <2>1, <2>2, KeyboardIdle
  <1>2. ASSUME NEW m \in Motions[program], MouseMove(m) PROVE KeyboardFifo!Next
    BY <1>2, KeyboardIdle DEF MouseMove, key_vars
  <1>4. CASE on_keyboard_irq
    <2> DEFINE b == AtPort.byte
               p == push(keyboard_buffer, N, b)
    <2>1. b \in Byte /\ irq = 1 /\ Waiting(FALSE)
      BY <1>4, AtPortType DEF on_keyboard_irq, Waiting
    <2>2. keyboard_buffer' = p.ring /\ caveats' = IF p.stored THEN caveats ELSE caveats \cup {"keys_lost"}
      BY <1>4, Zenon DEF on_keyboard_irq
    <2>3. /\ c \in Seq(Byte) /\ Len(c) \in 0 .. N - 1
          /\ p.stored <=> Len(c) < N - 1
          /\ p.stored => Contents(p.ring, N) = Append(c, b)
          /\ ~p.stored => p.ring = keyboard_buffer
      BY <1>0, <2>1, PushFacts, Zenon
    <2>4. Offer(1) = <<b>>
      <3>1. (1 = 12) = FALSE
        OBVIOUS
      <3> QED  BY <2>1, <3>1, Zenon DEF Offer
    <2> HIDE DEF b
    <2>5. Offer(1) # <<>> /\ Offer(1)[1] = b
      BY <2>1, <2>4
    <2>6. CASE p.stored
      <3>1. ("keys_lost" \in caveats)' = ("keys_lost" \in caveats)
        BY <2>2, <2>6
      <3>2. Contents(keyboard_buffer, N)' = Append(c, Offer(1)[1])
        BY <2>2, <2>3, <2>5, <2>6, Zenon
      <3>3. KeyboardFifo!Accept
        BY <2>3, <2>5, <2>6, <3>1, <3>2, Zenon DEF KeyboardFifo!Accept
      <3> QED  BY <3>3, Zenon DEF KeyboardFifo!Next
    <2>7. CASE ~p.stored
      <3>1. ("keys_lost" \in caveats)' = TRUE
        BY <2>2, <2>7
      <3>2. Len(c) = N - 1
        BY <1>0, <2>3, <2>7
      <3>3. Contents(keyboard_buffer, N)' = c
        BY <2>2, <2>3, <2>7, Zenon
      <3>4. KeyboardFifo!Refuse
        BY <2>5, <3>1, <3>2, <3>3, Zenon DEF KeyboardFifo!Refuse
      <3> QED  BY <3>4, Zenon DEF KeyboardFifo!Next
    <2> QED  BY <2>6, <2>7
  <1>5. CASE on_mouse_irq
    <2>1. "keys_lost" \in caveats' <=> "keys_lost" \in caveats
      BY <1>5 DEF on_mouse_irq
    <2>2. keyboard_buffer' = keyboard_buffer
      BY <1>5 DEF on_mouse_irq, key_vars
    <2> QED  BY <2>1, <2>2, KeyboardIdle
  <1>6. CASE TakeIrq \/ EndIrq \/ aux_data_available \/ ClientWakes
    BY <1>6, KeyboardIdle, Zenon DEF TakeIrq, EndIrq, aux_data_available, ClientWakes, key_vars
  <1>7. ASSUME NEW t \in Threads, NEW i \in ALLOWED_IRQS,
               sys_register_irq_handler(t, i) \/ sys_unregister_irq_handler(t, i)
        PROVE  KeyboardFifo!Next
    BY <1>7, KeyboardIdle DEF sys_register_irq_handler, sys_unregister_irq_handler, key_vars
  <1>8. ASSUME ~is_empty(keyboard_buffer), irq = 0, irq' = 0, caveats' = caveats,
               keyboard_buffer' = pop(keyboard_buffer, N)
        PROVE  KeyboardFifo!Next
    <2>1. c \in Seq(Byte) /\ c # <<>> /\ Contents(keyboard_buffer, N)' = Tail(c)
      BY <1>0, <1>8, PopFacts
    <2>2. 1 \in 1 .. Len(c) /\ Contents(keyboard_buffer, N)' = SubSeq(c, 1 + 1, Len(c))
      BY <2>1, TailIsDrop
    <2> QED  BY <1>8, <2>2, KeyboardGet, Zenon
  <1>9. CASE keyboard_poll
    BY <1>8, <1>9 DEF keyboard_poll
  <1>10. CASE poll_key_event
    <2> DEFINE rest == pop(keyboard_buffer, N)
    <2>1. ~is_empty(keyboard_buffer) /\ irq = 0 /\ irq' = 0 /\ caveats' = caveats
      BY <1>10 DEF poll_key_event
    <2>2. CASE keyboard_buffer' = rest
      BY <1>8, <2>1, <2>2
    <2>3. CASE keyboard_buffer' # rest
      <3>1. ~is_empty(rest) /\ keyboard_buffer' = pop(rest, N)
        BY <1>10, <2>3 DEF poll_key_event
      <3>2. c \in Seq(Byte) /\ c # <<>> /\ IsRing(rest, N) /\ Contents(rest, N) = Tail(c)
        BY <1>0, <2>1, PopFacts
      <3>3. Tail(c) # <<>> /\ Contents(keyboard_buffer, N)' = Tail(Tail(c))
        BY <1>0, <3>1, <3>2, PopFacts, ZenonT(40)
      <3>4. 2 \in 1 .. Len(c) /\ Contents(keyboard_buffer, N)' = SubSeq(c, 2 + 1, Len(c))
        BY <3>2, <3>3, TailIsDrop
      <3> QED  BY <2>1, <3>4, KeyboardGet, Zenon
    <2> QED  BY <2>2, <2>3
  <1>11. CASE ClientDrain
    <2>1. CASE is_empty(keyboard_buffer)
      BY <1>11, <2>1, KeyboardIdle DEF ClientDrain
    <2>2. CASE ~is_empty(keyboard_buffer)
      BY <1>8, <1>11, <2>2 DEF ClientDrain
    <2> QED  BY <2>1, <2>2
  <1>12. CASE poll_mouse_event
    <2>1. "keys_lost" \in caveats' <=> "keys_lost" \in caveats
      BY <1>12 DEF poll_mouse_event
    <2>2. keyboard_buffer' = keyboard_buffer
      BY <1>12 DEF poll_mouse_event, key_vars
    <2> QED  BY <2>1, <2>2, KeyboardIdle
  <1>13. CASE mouse_poll_byte \/ read_data
    <2>1. "keys_lost" \in caveats' <=> "keys_lost" \in caveats
      BY <1>13, Zenon DEF mouse_poll_byte, read_data
    <2>2. keyboard_buffer' = keyboard_buffer
      BY <1>13, Zenon DEF mouse_poll_byte, read_data, key_vars
    <2> QED  BY <2>1, <2>2, KeyboardIdle
  <1>14. CASE UNCHANGED vars
    BY <1>14, KeyboardIdle DEF vars, key_vars
  <1> QED
    BY <1>1, <1>2, <1>4, <1>5, <1>6, <1>7, <1>9, <1>10, <1>11, <1>12, <1>13, <1>14
    DEF Next, Interrupt, PollsKeys, PollsMouse


(* A step that leaves the mouse buffer and its losses alone.               *)
LEMMA MouseIdle ==
  ASSUME mouse_buffer' = mouse_buffer, "motions_lost" \in caveats' <=> "motions_lost" \in caveats
  PROVE  MouseFifo!Next
  <1>1. ("motions_lost" \in caveats)' = ("motions_lost" \in caveats)
    OBVIOUS
  <1>2. Contents(mouse_buffer, MOUSE_BUFFER_SIZE)' = Contents(mouse_buffer, MOUSE_BUFFER_SIZE)
    BY Zenon
  <1> QED  BY <1>1, <1>2, Zenon DEF MouseFifo!Next, MouseFifo!Change

(* A poll that takes the n oldest bytes of the mouse buffer.               *)
LEMMA MouseGet ==
  ASSUME irq = 0, irq' = 0, "motions_lost" \in caveats' <=> "motions_lost" \in caveats,
         NEW n \in 1 .. Len(Contents(mouse_buffer, MOUSE_BUFFER_SIZE)),
         Contents(mouse_buffer, MOUSE_BUFFER_SIZE)'
           = SubSeq(Contents(mouse_buffer, MOUSE_BUFFER_SIZE), n + 1,
                    Len(Contents(mouse_buffer, MOUSE_BUFFER_SIZE)))
  PROVE  MouseFifo!Next
  <1>1. Offer(12) = <<>> /\ Offer(12)' = <<>>
    BY DEF Offer
  <1>2. ("motions_lost" \in caveats)' = ("motions_lost" \in caveats)
    OBVIOUS
  <1>3. MouseFifo!Get
    BY <1>1, <1>2, Zenon DEF MouseFifo!Get
  <1> QED  BY <1>3, Zenon DEF MouseFifo!Next

(* Every step is one of the FIFO that the mouse buffer should be.          *)
LEMMA MouseStep == BuffersOK /\ [Next]_vars => MouseFifo!Next
  <1> SUFFICES ASSUME BuffersOK, [Next]_vars PROVE MouseFifo!Next
    OBVIOUS
  <1> DEFINE N == MOUSE_BUFFER_SIZE
             c == Contents(mouse_buffer, N)
  <1>0. N \in Nat \ {0} /\ IsRing(mouse_buffer, N)
    BY Sizes DEF BuffersOK
  <1>1. ASSUME NEW k \in Keys[program], NEW pressed \in BOOLEAN, UseKey(k, pressed)
        PROVE  MouseFifo!Next
    <2>1. "motions_lost" \in caveats' <=> "motions_lost" \in caveats
      BY <1>1 DEF UseKey, KeyCaveats
    <2>2. mouse_buffer' = mouse_buffer
      BY <1>1 DEF UseKey, mouse_vars
    <2> QED  BY <2>1, <2>2, MouseIdle
  <1>2. ASSUME NEW m \in Motions[program], MouseMove(m) PROVE MouseFifo!Next
    <2>1. "motions_lost" \in caveats' <=> "motions_lost" \in caveats
      BY <1>2 DEF MouseMove
    <2>2. mouse_buffer' = mouse_buffer
      BY <1>2 DEF MouseMove
    <2> QED  BY <2>1, <2>2, MouseIdle
  <1>4. CASE on_keyboard_irq
    <2>1. "motions_lost" \in caveats' <=> "motions_lost" \in caveats
      BY <1>4 DEF on_keyboard_irq
    <2>2. mouse_buffer' = mouse_buffer
      BY <1>4 DEF on_keyboard_irq, mouse_vars
    <2> QED  BY <2>1, <2>2, MouseIdle
  <1>5. CASE on_mouse_irq
    <2> DEFINE b == AtPort.byte
               p == push(mouse_buffer, N, b)
    <2>1. b \in Byte /\ irq = 12 /\ Waiting(TRUE)
      BY <1>5, AtPortType DEF on_mouse_irq, Waiting
    <2>2. mouse_buffer' = p.ring /\ ("motions_lost" \in caveats' <=> "motions_lost" \in caveats \/ ~p.stored)
      BY <1>5 DEF on_mouse_irq
    <2>3. /\ c \in Seq(Byte) /\ Len(c) \in 0 .. N - 1
          /\ p.stored <=> Len(c) < N - 1
          /\ p.stored => Contents(p.ring, N) = Append(c, b)
          /\ ~p.stored => p.ring = mouse_buffer
      BY <1>0, <2>1, PushFacts, Zenon
    <2>4. Offer(12) = <<b>>
      <3>1. (12 = 12) = TRUE
        OBVIOUS
      <3> QED  BY <2>1, <3>1, Zenon DEF Offer
    <2> HIDE DEF b
    <2>5. Offer(12) # <<>> /\ Offer(12)[1] = b
      BY <2>1, <2>4
    <2>6. CASE p.stored
      <3>1. ("motions_lost" \in caveats)' = ("motions_lost" \in caveats)
        BY <2>2, <2>6
      <3>2. Contents(mouse_buffer, N)' = Append(c, Offer(12)[1])
        BY <2>2, <2>3, <2>5, <2>6, Zenon
      <3>3. MouseFifo!Accept
        BY <2>3, <2>5, <2>6, <3>1, <3>2, Zenon DEF MouseFifo!Accept
      <3> QED  BY <3>3, Zenon DEF MouseFifo!Next
    <2>7. CASE ~p.stored
      <3>1. ("motions_lost" \in caveats)' = TRUE
        BY <2>2, <2>7
      <3>2. Len(c) = N - 1
        BY <1>0, <2>3, <2>7
      <3>3. Contents(mouse_buffer, N)' = c
        BY <2>2, <2>3, <2>7, Zenon
      <3>4. MouseFifo!Refuse
        BY <2>5, <3>1, <3>2, <3>3, Zenon DEF MouseFifo!Refuse
      <3> QED  BY <3>4, Zenon DEF MouseFifo!Next
    <2> QED  BY <2>6, <2>7
  <1>6. CASE TakeIrq \/ EndIrq \/ aux_data_available \/ ClientWakes \/ ClientDrain
    BY <1>6, MouseIdle, Zenon DEF TakeIrq, EndIrq, aux_data_available, ClientWakes, ClientDrain, mouse_vars
  <1>7. ASSUME NEW t \in Threads, NEW i \in ALLOWED_IRQS,
               sys_register_irq_handler(t, i) \/ sys_unregister_irq_handler(t, i)
        PROVE  MouseFifo!Next
    BY <1>7, MouseIdle, SMTT(30) DEF sys_register_irq_handler, sys_unregister_irq_handler, mouse_vars
  <1>8. CASE keyboard_poll \/ poll_key_event
    BY <1>8, MouseIdle, Zenon DEF keyboard_poll, poll_key_event, mouse_vars
  <1>9. CASE poll_mouse_event
    <2> DEFINE stored == len(mouse_buffer, N)
               count == IF stored < DRAIN THEN stored ELSE DRAIN
    <2>1. ~is_empty(mouse_buffer) /\ irq = 0 /\ irq' = 0
          /\ ("motions_lost" \in caveats' <=> "motions_lost" \in caveats)
      BY <1>9 DEF poll_mouse_event
    <2>2. mouse_buffer' = [mouse_buffer EXCEPT !.tail = (@ + count) % N]
      BY <1>9, Zenon DEF poll_mouse_event
    <2>3. PICK k : k = count
      OBVIOUS
    <2>4. /\ k \in 1 .. Len(c)
          /\ Contents([mouse_buffer EXCEPT !.tail = (@ + k) % N], N) = SubSeq(c, k + 1, Len(c))
      BY <1>0, <2>1, <2>3, Sizes, DrainFacts, Zenon
    <2>5. Contents(mouse_buffer, N)' = SubSeq(c, k + 1, Len(c))
      BY <2>2, <2>3, <2>4, Zenon
    <2> QED  BY <2>1, <2>4, <2>5, MouseGet, Zenon
  <1>10. CASE mouse_poll_byte
    <2>1. ~is_empty(mouse_buffer) /\ irq = 0 /\ irq' = 0 /\ caveats' = caveats
          /\ mouse_buffer' = pop(mouse_buffer, N)
      BY <1>10 DEF mouse_poll_byte
    <2>2. c \in Seq(Byte) /\ c # <<>> /\ Contents(mouse_buffer, N)' = Tail(c)
      BY <1>0, <2>1, PopFacts
    <2>3. 1 \in 1 .. Len(c) /\ Contents(mouse_buffer, N)' = SubSeq(c, 1 + 1, Len(c))
      BY <2>2, TailIsDrop
    <2> QED  BY <2>1, <2>3, MouseGet, Zenon
  <1>11. CASE read_data
    <2>1. "motions_lost" \in caveats' <=> "motions_lost" \in caveats
      BY <1>11 DEF read_data
    <2>2. mouse_buffer' = mouse_buffer
      BY <1>11 DEF read_data
    <2> QED  BY <2>1, <2>2, MouseIdle
  <1>12. CASE UNCHANGED vars
    BY <1>12, MouseIdle DEF vars, mouse_vars
  <1> QED
    BY <1>1, <1>2, <1>4, <1>5, <1>6, <1>7, <1>8, <1>9, <1>10, <1>11, <1>12, Zenon
    DEF Next, Interrupt, PollsKeys, PollsMouse

(***************************************************************************)
(* The kernel's input buffers are bounded FIFOs, whatever their sizes, the *)
(* programs that poll and the bytes that arrive: the handlers of IRQ 1 and *)
(* IRQ 12 append, polls of one byte or of many take the oldest, and a byte *)
(* is refused only when N - 1 are stored (input.rs).                       *)
(***************************************************************************)
THEOREM InputBuffersAreFifos == Spec => BuffersAreFifos
  <1>1. Init => KeyboardFifo!Init /\ MouseFifo!Init
    <2> SUFFICES ASSUME Init PROVE KeyboardFifo!Init /\ MouseFifo!Init
      OBVIOUS
    <2>1. Offer(1) = <<>> /\ Offer(12) = <<>>
      BY SMTT(60) DEF Init, Offer
    <2>2. ("keys_lost" \in caveats) = FALSE /\ ("motions_lost" \in caveats) = FALSE
      BY SMTT(60) DEF Init
    <2>3. /\ Contents(keyboard_buffer, KEYBOARD_BUFFER_SIZE) = <<>>
          /\ Contents(mouse_buffer, MOUSE_BUFFER_SIZE) = <<>>
      BY NewRing, Sizes, Zenon DEF Init
    <2> QED  BY <2>1, <2>2, <2>3, Zenon DEF KeyboardFifo!Init, MouseFifo!Init
  <1> QED
    BY <1>1, BuffersInit, BuffersStep, KeyboardStep, MouseStep, PTL
    DEF Spec, BuffersAreFifos, KeyboardFifo!Spec, MouseFifo!Spec

=============================================================================
