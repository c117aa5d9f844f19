----------------------------- MODULE SeqLemmas ----------------------------
(* Facts about the elements of sequences, about remainders and about       *)
(* iteration, for the proofs of the project.                               *)
EXTENDS Integers, Sequences, Functions, WellFoundedInduction, TLAPS

(* The elements of a concatenation.                                        *)
LEMMA RangeConcat ==
  ASSUME NEW s \in Seq(Nat), NEW t \in Seq(Nat)
  PROVE  Range(s \o t) = Range(s) \cup Range(t)
  <1>1. ASSUME NEW e \in Range(s \o t) PROVE e \in Range(s) \cup Range(t)
    BY <1>1 DEF Range
  <1>2. ASSUME NEW e \in Range(s) PROVE e \in Range(s \o t)
    BY <1>2 DEF Range
  <1>3. ASSUME NEW e \in Range(t) PROVE e \in Range(s \o t)
    <2>1. PICK i \in DOMAIN t : e = t[i]
      BY <1>3 DEF Range
    <2>2. Len(s) + i \in DOMAIN (s \o t) /\ (s \o t)[Len(s) + i] = e
      BY <2>1
    <2> QED BY <2>2 DEF Range
  <1> QED BY <1>1, <1>2, <1>3

(* The elements of a queue: its head and what a pop leaves.                *)
LEMMA RangeTail ==
  ASSUME NEW s \in Seq(Nat), s # <<>>
  PROVE  Range(s) = {Head(s)} \cup Range(Tail(s))
  <1>1. ASSUME NEW e \in Range(s) PROVE e = Head(s) \/ e \in Range(Tail(s))
    <2>1. PICK i \in DOMAIN s : e = s[i]
      BY <1>1 DEF Range
    <2>2. CASE i = 1
      BY <2>1, <2>2
    <2>3. CASE i # 1
      <3>1. i - 1 \in DOMAIN Tail(s) /\ Tail(s)[i - 1] = e
        BY <2>1, <2>3
      <3> QED BY <3>1 DEF Range
    <2> QED BY <2>2, <2>3
  <1>2. Head(s) \in Range(s)
    BY DEF Range
  <1>3. ASSUME NEW e \in Range(Tail(s)) PROVE e \in Range(s)
    <2>1. PICK i \in DOMAIN Tail(s) : e = Tail(s)[i]
      BY <1>3 DEF Range
    <2>2. i + 1 \in DOMAIN s /\ s[i + 1] = e
      BY <2>1
    <2> QED BY <2>2 DEF Range
  <1> QED BY <1>1, <1>2, <1>3

(* The elements of a queue after a push at its back.                       *)
LEMMA RangeAppend ==
  ASSUME NEW s \in Seq(Nat), NEW e \in Nat
  PROVE  Range(Append(s, e)) = Range(s) \cup {e}
  <1>1. ASSUME NEW x \in Range(Append(s, e)) PROVE x \in Range(s) \cup {e}
    BY <1>1 DEF Range
  <1>2. ASSUME NEW x \in Range(s) PROVE x \in Range(Append(s, e))
    BY <1>2 DEF Range
  <1>3. e \in Range(Append(s, e))
    <2>1. Len(s) + 1 \in DOMAIN Append(s, e) /\ Append(s, e)[Len(s) + 1] = e
      OBVIOUS
    <2> QED BY <2>1 DEF Range
  <1> QED BY <1>1, <1>2, <1>3

(* Sequences of one length with the same elements are one.                 *)
LEMMA SameElements ==
  ASSUME NEW S, NEW s \in Seq(S), NEW t \in Seq(S), Len(s) = Len(t),
         \A i \in 1 .. Len(s) : s[i] = t[i]
  PROVE  s = t
  OBVIOUS

(* What is at each place of a sequence put together or cut.                *)
LEMMA AppendElements ==
  ASSUME NEW S, NEW s \in Seq(S), NEW e \in S
  PROVE  /\ Append(s, e) \in Seq(S) /\ Append(s, e) # <<>> /\ Len(Append(s, e)) = Len(s) + 1
         /\ \A i \in 1 .. Len(s) : Append(s, e)[i] = s[i]
         /\ Append(s, e)[Len(s) + 1] = e
  OBVIOUS

LEMMA ConcatElements ==
  ASSUME NEW S, NEW s \in Seq(S), NEW t \in Seq(S)
  PROVE  /\ s \o t \in Seq(S) /\ Len(s \o t) = Len(s) + Len(t)
         /\ \A i \in 1 .. Len(s) + Len(t) :
               (s \o t)[i] = IF i <= Len(s) THEN s[i] ELSE t[i - Len(s)]
  OBVIOUS

LEMMA SubSeqElements ==
  ASSUME NEW S, NEW s, NEW m \in Int, NEW n \in Int, \A i \in m .. n : s[i] \in S
  PROVE  /\ SubSeq(s, m, n) \in Seq(S)
         /\ Len(SubSeq(s, m, n)) = IF m <= n THEN n - m + 1 ELSE 0
         /\ \A i \in 1 .. n - m + 1 : SubSeq(s, m, n)[i] = s[m + i - 1]
  OBVIOUS

(* A sequence over a set is one over any larger set.                       *)
LEMMA SeqOfSubset ==
  ASSUME NEW S, NEW T, S \subseteq T, NEW s \in Seq(S)
  PROVE  s \in Seq(T)
  OBVIOUS

(* Moving the head of a sequence to its end.                               *)
LEMMA RotateFacts ==
  ASSUME NEW S, S \subseteq Nat, NEW s \in Seq(S), s # <<>>
  PROVE  /\ Head(s) \in S
         /\ Append(Tail(s), Head(s)) \in Seq(S)
         /\ Range(Append(Tail(s), Head(s))) = Range(s)
  <1>1. Head(s) \in S /\ Tail(s) \in Seq(S)
    OBVIOUS
  <1>2. Append(Tail(s), Head(s)) \in Seq(S)
    BY <1>1
  <1>3. s \in Seq(Nat) /\ Tail(s) \in Seq(Nat) /\ Head(s) \in Nat
    BY <1>1, SeqOfSubset, Zenon
  <1> QED BY <1>1, <1>2, <1>3, RangeTail, RangeAppend, ZenonT(120)

(* Division with remainder.                                                *)
LEMMA ModSplit ==
  ASSUME NEW i \in Nat, NEW C \in Nat \ {0}
  PROVE  /\ i % C \in 0 .. C - 1 /\ i \div C \in Nat
         /\ i = C * (i \div C) + (i % C)
  OBVIOUS

(* A multiple of C is 0 or less, or C or more.                             *)
LEMMA MultipleBounds ==
  ASSUME NEW C \in Nat \ {0}, NEW d \in Int
  PROVE  (d <= 0 => C * d <= 0) /\ (d >= 1 => C * d >= C)
  OBVIOUS

(* Numbers less than C apart fall into different slots of a ring of C.     *)
LEMMA ModDistinct ==
  ASSUME NEW C \in Nat \ {0}, NEW i \in Nat, NEW j \in Nat, i < j, j - i < C
  PROVE  i % C # j % C
  <1> SUFFICES ASSUME i % C = j % C PROVE FALSE
    OBVIOUS
  <1> DEFINE a == i \div C
             b == j \div C
             r == i % C
  <1>1. a \in Nat /\ r \in 0 .. C - 1 /\ i = C * a + r
    BY ModSplit, Zenon
  <1>2. b \in Nat /\ j = C * b + r
    BY ModSplit, Zenon
  <1> HIDE DEF a, b, r
  <1>3. j - i = C * (b - a) /\ b - a \in Int
    BY <1>1, <1>2
  <1> QED BY <1>3, MultipleBounds

(* The slot after a slot of a ring.                                        *)
LEMMA ModNext ==
  ASSUME NEW N \in Nat \ {0}, NEW i \in 0 .. N - 1
  PROVE  (i + 1) % N = IF i + 1 = N THEN 0 ELSE i + 1
  OBVIOUS

(* The slot of an index that has gone round the ring at most once.         *)
LEMMA ModWrap ==
  ASSUME NEW N \in Nat \ {0}, NEW i \in 0 .. 2 * N - 1
  PROVE  i % N = IF i < N THEN i ELSE i - N
  OBVIOUS

(* A set of numbers has a least one.  With it an argument about the first  *)
(* counterexample replaces an induction.                                   *)
LEMMA LeastNumber ==
  ASSUME NEW T \in SUBSET Nat, T # {}
  PROVE  \E x \in T : \A y \in T : x <= y
  <1> DEFINE R == {pair \in Nat \X Nat : pair[1] < pair[2]}
  <1>1. IsWellFoundedOn(R, Nat)
    BY NatLessThanWellFounded, Zenon DEF OpToRel
  <1>2. PICK x \in T : \A y \in T : ~(<<y, x>> \in R)
    <2> HIDE DEF R
    <2> QED  BY <1>1, WFMin, Zenon
  <1>3. \A y \in T : <<y, x>> \in Nat \X Nat /\ <<y, x>>[1] = y /\ <<y, x>>[2] = x
    OBVIOUS
  <1>4. ASSUME NEW y \in T PROVE x <= y
    <2>1. ~(<<y, x>>[1] < <<y, x>>[2])
      BY <1>2, <1>3, Zenon
    <2> QED  BY <2>1
  <1> QED  BY <1>4

(* f is the first m steps from c on.                                       *)
Iterates(f, step, c, m) == f[0] = c /\ \A n \in 1..m : f[n] = step[f[n - 1]]

(* A step can be iterated any number of times.                             *)
LEMMA IterateExists ==
  ASSUME NEW S, NEW step, step \in [S -> S], NEW c, c \in S, NEW m, m \in Nat
  PROVE  \E f \in [0..m -> S] : Iterates(f, step, c, m)
  <1> USE DEF Iterates
  <1> DEFINE Runs(k, f) == f[0] = c /\ \A n \in 1..k : f[n] = step[f[n - 1]]
             T == {k \in 0..m : ~\E f \in [0..k -> S] : Runs(k, f)}
  <1>1. SUFFICES T = {}
    BY <1>1
  <1>2. SUFFICES ASSUME T # {} PROVE FALSE
    OBVIOUS
  <1>3. T \in SUBSET Nat
    OBVIOUS
  <1>4. PICK x \in T : \A y \in T : x <= y
    BY <1>2, <1>3, LeastNumber, Zenon
  <1>5. CASE x = 0
    <2> DEFINE g == [n \in 0..0 |-> c]
    <2>1. g \in [0..0 -> S] /\ g[0] = c
      OBVIOUS
    <2>2. Runs(0, g)
      BY <2>1
    <2> QED BY <1>4, <1>5, <2>1, <2>2, Zenon
  <1>6. CASE x # 0
    <2>1. x \in Nat /\ x \in 1..m /\ x - 1 \in 0..m /\ ~(x <= x - 1) /\ x - 1 \in Nat
      BY <1>4, <1>6
    <2>2. x - 1 \notin T
      BY <1>4, <2>1, Zenon
    <2>3. PICK f \in [0..(x - 1) -> S] : Runs(x - 1, f)
      BY <2>1, <2>2
    <2> DEFINE g == [n \in 0..x |-> IF n = x THEN step[f[x - 1]] ELSE f[n]]
    <2>4. f[x - 1] \in S
      BY <2>1
    <2>5. g \in [0..x -> S]
      BY <2>1, <2>4
    <2>6. g[0] = c
      BY <2>1, <2>3
    <2>7. ASSUME NEW n \in 1..x PROVE g[n] = step[g[n - 1]]
      <3>1. n - 1 \in 0..x /\ n - 1 # x /\ n \in 0..x
        BY <2>1
      <3>2. g[n - 1] = f[n - 1]
        BY <3>1
      <3>3. n # x => n \in 1..(x - 1)
        BY <2>1
      <3> QED BY <2>3, <3>1, <3>2, <3>3
    <2> QED BY <1>4, <2>5, <2>6, <2>7, Zenon
  <1> QED BY <1>5, <1>6
===========================================================================
