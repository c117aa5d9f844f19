------------------------ MODULE KernelLocksProofs -------------------------
(***************************************************************************)
(* Proofs about module KernelLocks, for any number of threads.             *)
(*                                                                         *)
(* All the code is put together from pieces.  Piece says what a piece      *)
(* keeps to by itself, and is preserved by concatenation, by Within and by *)
(* without_interrupts; so it holds of every call and every handler.  Rest  *)
(* is what that leaves for the part of a call that is still to be run: it  *)
(* is preserved by Tail.  The invariant relates the locks and the flag to  *)
(* the rest of the code that runs and of the calls that were switched out. *)
(***************************************************************************)
EXTENDS KernelLocks, SequenceTheorems, TLAPS

Lock(l) == <<"lock", l>>
Unlock(l) == <<"unlock", l>>
Mask == <<"mask">>
Unmask == <<"unmask">>

(* The operations the code performs.                                       *)
Op ==
  UNION {{"lock", "unlock"} \X LockName, {"flag"} \X BOOLEAN,
         {"remove"} \X SUBSET Thread, {"switch"} \X Thread,
         {<<n>> : n \in {"mask", "unmask", "insert", "register", "create"}}}

Serial == "serial"

(* Every lock taken is released, before it is taken again.                 *)
Releases(c) ==
  \A i \in 1..Len(c), l \in LockName : c[i] = Lock(l) =>
    \E j \in (i + 1)..Len(c) :
      c[j] = Unlock(l) /\ \A k \in (i + 1)..(j - 1) : c[k] # Lock(l)

(* A lock is released only after it was taken, and unless it is            *)
(* THREAD_LIST's without a switch in between.                              *)
Acquires(c) ==
  \A j \in 1..Len(c), l \in LockName : c[j] = Unlock(l) =>
    \E k \in 1..(j - 1) :
      /\ c[k] = Lock(l)
      /\ l # "threads" => \A i \in (k + 1)..(j - 1) : c[i][1] # "switch"

(* The serial port's lock is taken right behind a cli and released next.   *)
SerialMasked(c) ==
  \A i \in 1..Len(c) :
    /\ c[i] = Lock(Serial) => /\ i > 1 /\ c[i - 1] = <<"flag", FALSE>>
                              /\ i < Len(c) /\ c[i + 1] = Unlock(Serial)
    /\ c[i] = Unlock(Serial) => i > 1 /\ c[i - 1] = Lock(Serial)

(* without_interrupts encloses nothing that sets the flag.                 *)
MaskHolds(c) ==
  \A j \in 1..Len(c) : c[j] = Unmask =>
    \E k \in 1..(j - 1) :
      c[k] = Mask /\ \A i \in (k + 1)..(j - 1) : c[i][1] \notin {"flag", "unmask"}

(* A piece of code that takes locks of L and switches to threads of T.     *)
Piece(c, L, T) ==
  /\ c \in Seq(Op)
  /\ \A i \in 1..Len(c) : /\ \A l \in LockName : c[i] = Lock(l) => l \in L
                          /\ c[i][1] = "switch" => c[i][2] \in T
  /\ Releases(c) /\ Acquires(c) /\ SerialMasked(c) /\ MaskHolds(c)

(* What is left of Acquires, SerialMasked and MaskHolds in the middle of a *)
(* piece.                                                                  *)
Rest(c) ==
  /\ c \in Seq(Op)
  /\ Releases(c)
  /\ \A i, j \in 1..Len(c), l \in LockName :
       i < j /\ c[i][1] = "switch" /\ c[j] = Unlock(l) /\ l # "threads" =>
         \E k \in (i + 1)..(j - 1) : c[k] = Lock(l)
  /\ \A i \in 1..Len(c) :
       /\ c[i] = Lock(Serial) => /\ i > 1 => c[i - 1] = <<"flag", FALSE>>
                                 /\ i < Len(c) /\ c[i + 1] = Unlock(Serial)
       /\ c[i] = Unlock(Serial) /\ i > 1 => c[i - 1] = Lock(Serial)
  /\ \A i, j \in 1..Len(c) :
       i < j /\ c[i][1] \in {"flag", "unmask"} /\ c[j] = Unmask =>
         \E k \in (i + 1)..(j - 1) : c[k] = Mask

(* The code c is inside a section of the lock l.                           *)
Inside(c, l) ==
  \E j \in 1..Len(c) : c[j] = Unlock(l) /\ \A k \in 1..(j - 1) : c[k] # Lock(l)

(* The code c is inside without_interrupts.                                *)
InsideMask(c) ==
  \E j \in 1..Len(c) : c[j] = Unmask /\ \A k \in 1..(j - 1) : c[k] # Mask

(* The code c is not at the serial port's lock.                            *)
Calm(c) == c # <<>> => Head(c) \notin {Lock(Serial), Unlock(Serial)}

---------------------------------------------------------------------------
(* The invariant                                                           *)

TypeOK ==
  /\ program \in [Thread -> Seq(Op)] /\ handler \in Seq(Op)
  /\ running \in threads /\ threads \subseteq Thread
  /\ fresh \subseteq threads \ {running} /\ InitThread \notin fresh
  /\ interrupts \in BOOLEAN /\ saved \in [Thread -> BOOLEAN]
  /\ holder \in [LockName -> Thread \cup {Isr, Free}]
  /\ waiters \subseteq Thread /\ registered \in BOOLEAN

(* What is left of calls and handlers; a handler does not switch, a call   *)
(* switches to other threads, and a thread that has not run has no call.   *)
CodeInv ==
  /\ Rest(handler) /\ \A i \in 1..Len(handler) : handler[i][1] # "switch"
  /\ \A t \in Thread :
       /\ Rest(program[t])
       /\ \A i \in 1..Len(program[t]) :
            program[t][i][1] = "switch" => program[t][i][2] \in threads \ {t}
       /\ t \in fresh \/ t \notin threads => program[t] = <<>>

(* Who holds a lock will release it, and a thread that is switched out is  *)
(* inside no section but THREAD_LIST's.                                    *)
HoldInv ==
  \A l \in LockName :
    /\ holder[l] = Isr => Inside(handler, l)
    /\ \A t \in Thread : /\ holder[l] = t => Inside(program[t], l)
                         /\ t # running /\ Inside(program[t], l) => l = "threads"

(* Whoever is at the serial port's lock runs with interrupts masked, and   *)
(* the lock is held only by who is about to release it.                    *)
SerialInv ==
  /\ \A t \in Thread : t # running \/ handler # <<>> => Calm(program[t])
  /\ ~Calm(Code) => ~interrupts
  /\ holder[Serial] # Free => Code # <<>> /\ Head(Code) = Unlock(Serial)

(* Interrupts are masked in without_interrupts, for a thread that was      *)
(* switched out there as soon as it continues.                             *)
MaskInv ==
  /\ InsideMask(program[running]) => ~interrupts /\ handler = <<>>
  /\ \A t \in Thread \ {running} : InsideMask(program[t]) => ~saved[t] /\ t \notin fresh

Inv == TypeOK /\ CodeInv /\ HoldInv /\ SerialInv /\ MaskInv

---------------------------------------------------------------------------
(* Operations                                                              *)

(* Operations with different names are different, and so are operations on *)
(* different locks.                                                        *)
LEMMA OpFacts ==
  /\ \A l : Lock(l)[1] = "lock" /\ Lock(l)[2] = l
  /\ \A l : Unlock(l)[1] = "unlock" /\ Unlock(l)[2] = l
  /\ Mask[1] = "mask" /\ Unmask[1] = "unmask"
  /\ \A b : <<"flag", b>>[1] = "flag" /\ <<"flag", b>>[2] = b
  /\ \A t : <<"switch", t>>[1] = "switch" /\ <<"switch", t>>[2] = t
  /\ \A w : <<"remove", w>>[1] = "remove" /\ <<"remove", w>>[2] = w
  /\ <<"insert">>[1] = "insert" /\ <<"register">>[1] = "register"
  /\ <<"create">>[1] = "create"
  BY DEF Lock, Unlock, Mask, Unmask

(* Every operation the code uses is one of Op.                             *)
LEMMA OpIn ==
  /\ \A l \in LockName : Lock(l) \in Op /\ Unlock(l) \in Op
  /\ Mask \in Op /\ Unmask \in Op
  /\ \A b \in BOOLEAN : <<"flag", b>> \in Op
  /\ \A t \in Thread : <<"switch", t>> \in Op
  /\ \A w \in SUBSET Thread : <<"remove", w>> \in Op
  /\ <<"insert">> \in Op /\ <<"register">> \in Op /\ <<"create">> \in Op
  BY DEF Lock, Unlock, Mask, Unmask, Op

(* An operation is known by its name and its argument.                     *)
LEMMA OpCases ==
  ASSUME NEW op \in Op
  PROVE  /\ op[1] = "lock" => op[2] \in LockName /\ op = Lock(op[2])
         /\ op[1] = "unlock" => op[2] \in LockName /\ op = Unlock(op[2])
         /\ op[1] = "flag" => op[2] \in BOOLEAN /\ op = <<"flag", op[2]>>
         /\ op[1] = "switch" => op[2] \in Thread
         /\ op[1] = "remove" => op[2] \in SUBSET Thread
         /\ op[1] = "mask" => op = Mask
         /\ op[1] = "unmask" => op = Unmask
  BY DEF Lock, Unlock, Mask, Unmask, Op

---------------------------------------------------------------------------
(* Pieces                                                                  *)

(* The operations of two pieces, one after the other.                      *)
LEMMA ConcatAt ==
  ASSUME NEW a \in Seq(Op), NEW b \in Seq(Op)
  PROVE  /\ a \o b \in Seq(Op) /\ Len(a \o b) = Len(a) + Len(b)
         /\ Len(a) \in Nat /\ Len(b) \in Nat
         /\ \A i \in 1..Len(a) : (a \o b)[i] = a[i]
         /\ \A i \in 1..Len(b) : (a \o b)[Len(a) + i] = b[i]
  <1>1. /\ a \o b \in Seq(Op) /\ Len(a \o b) = Len(a) + Len(b)
        /\ \A i \in 1..(Len(a) + Len(b)) : (a \o b)[i] =
              IF i <= Len(a) THEN a[i] ELSE b[i - Len(a)]
    BY ConcatProperties
  <1>2. Len(a) \in Nat /\ Len(b) \in Nat
    OBVIOUS
  <1>3. ASSUME NEW i \in 1..Len(b) PROVE (a \o b)[Len(a) + i] = b[i]
    <2>1. Len(a) + i \in 1..(Len(a) + Len(b)) /\ ~(Len(a) + i <= Len(a))
          /\ (Len(a) + i) - Len(a) = i
      BY <1>2
    <2> QED BY <1>1, <2>1
  <1> QED BY <1>1, <1>2, <1>3

(* An index into two pieces is an index into one of them.                  *)
LEMMA ConcatIndex ==
  ASSUME NEW m \in Nat, NEW n \in Nat, NEW i \in 1..(m + n)
  PROVE  i \in 1..m \/ \E h \in 1..n : i = m + h
  <1>1. CASE i > m
    <2>1. i - m \in 1..n /\ i = m + (i - m)
      BY <1>1
    <2> QED BY <2>1
  <1> QED BY <1>1

(* Pieces one after the other are a piece.                                 *)
LEMMA PieceConcat ==
  ASSUME NEW L, NEW T, NEW a, NEW b, Piece(a, L, T), Piece(b, L, T)
  PROVE  Piece(a \o b, L, T)
  <1> DEFINE c == a \o b
             m == Len(a)
             n == Len(b)
  <1>0. a \in Seq(Op) /\ b \in Seq(Op)
    BY DEF Piece
  <1>1. /\ c \in Seq(Op) /\ Len(c) = m + n /\ m \in Nat /\ n \in Nat
        /\ \A i \in 1..m : c[i] = a[i]
        /\ \A i \in 1..n : c[m + i] = b[i]
    BY <1>0, ConcatAt
  <1> HIDE DEF c, m, n
  <1>2. \A i \in 1..(m + n) : i \in 1..m \/ \E h \in 1..n : i = m + h
    BY <1>1, ConcatIndex
  <1>3. ASSUME NEW i \in 1..Len(c)
        PROVE  /\ \A l \in LockName : c[i] = Lock(l) => l \in L
               /\ c[i][1] = "switch" => c[i][2] \in T
    <2>1. CASE i \in 1..m
      BY <1>1, <2>1 DEF Piece, m
    <2>2. ASSUME NEW h \in 1..n, i = m + h
          PROVE  /\ \A l \in LockName : c[i] = Lock(l) => l \in L
                 /\ c[i][1] = "switch" => c[i][2] \in T
      <3>1. c[i] = b[h]
        BY <1>1, <2>2
      <3> QED BY <3>1 DEF Piece, n
    <2> QED BY <1>1, <1>2, <2>1, <2>2
  <1>4. Releases(c)
    <2> SUFFICES ASSUME NEW i \in 1..Len(c), NEW l \in LockName, c[i] = Lock(l)
                 PROVE  \E j \in (i + 1)..Len(c) :
                          /\ c[j] = Unlock(l)
                          /\ \A k \in (i + 1)..(j - 1) : c[k] # Lock(l)
      BY DEF Releases
    <2>1. CASE i \in 1..m
      <3>1. PICK j \in (i + 1)..m : a[j] = Unlock(l) /\ \A k \in (i + 1)..(j - 1) : a[k] # Lock(l)
        BY <1>1, <2>1 DEF Piece, Releases, m
      <3> QED BY <1>1, <2>1, <3>1
    <2>2. ASSUME NEW h \in 1..n, i = m + h
          PROVE  \E j \in (i + 1)..Len(c) :
                   /\ c[j] = Unlock(l)
                   /\ \A k \in (i + 1)..(j - 1) : c[k] # Lock(l)
      <3>1. b[h] = Lock(l)
        BY <1>1, <2>2
      <3>2. PICK j \in (h + 1)..n : b[j] = Unlock(l) /\ \A k \in (h + 1)..(j - 1) : b[k] # Lock(l)
        BY <3>1 DEF Piece, Releases, n
      <3>3. m + j \in (i + 1)..Len(c) /\ c[m + j] = Unlock(l)
        <4>1. m + j \in (i + 1)..Len(c) /\ j \in 1..n
          BY <1>1, <2>2
        <4> QED BY <1>1, <3>2, <4>1
      <3>4. ASSUME NEW k \in (i + 1)..((m + j) - 1) PROVE c[k] # Lock(l)
        <4>1. k - m \in (h + 1)..(j - 1) /\ k - m \in 1..n /\ k = m + (k - m)
          BY <1>1, <2>2, <3>2
        <4> QED BY <1>1, <3>2, <4>1, ZenonT(120)
      <3> QED BY <3>3, <3>4
    <2> QED BY <1>1, <1>2, <2>1, <2>2
  <1>5. Acquires(c)
    <2> SUFFICES ASSUME NEW j \in 1..Len(c), NEW l \in LockName, c[j] = Unlock(l)
                 PROVE  \E k \in 1..(j - 1) :
                          /\ c[k] = Lock(l)
                          /\ l # "threads" => \A i \in (k + 1)..(j - 1) : c[i][1] # "switch"
      BY DEF Acquires
    <2>1. CASE j \in 1..m
      <3>1. PICK k \in 1..(j - 1) :
               /\ a[k] = Lock(l)
               /\ l # "threads" => \A i \in (k + 1)..(j - 1) : a[i][1] # "switch"
        BY <1>1, <2>1 DEF Piece, Acquires, m
      <3> QED BY <1>1, <2>1, <3>1
    <2>2. ASSUME NEW h \in 1..n, j = m + h
          PROVE  \E k \in 1..(j - 1) :
                   /\ c[k] = Lock(l)
                   /\ l # "threads" => \A i \in (k + 1)..(j - 1) : c[i][1] # "switch"
      <3>1. b[h] = Unlock(l)
        BY <1>1, <2>2
      <3>2. PICK k \in 1..(h - 1) :
               /\ b[k] = Lock(l)
               /\ l # "threads" => \A i \in (k + 1)..(h - 1) : b[i][1] # "switch"
        BY <3>1 DEF Piece, Acquires, n
      <3>3. m + k \in 1..(j - 1) /\ c[m + k] = Lock(l)
        BY <1>1, <2>2, <3>2, SMTT(60)
      <3>4. ASSUME NEW i \in ((m + k) + 1)..(j - 1), l # "threads" PROVE c[i][1] # "switch"
        <4>1. i - m \in (k + 1)..(h - 1) /\ i - m \in 1..n /\ i = m + (i - m)
          BY <1>1, <2>2, <3>2
        <4> QED BY <1>1, <3>2, <3>4, <4>1, SMTT(60)
      <3> QED BY <3>3, <3>4, Zenon
    <2> QED BY <1>1, <1>2, <2>1, <2>2
  <1>6. SerialMasked(c)
    <2> SUFFICES ASSUME NEW i \in 1..Len(c)
                 PROVE  /\ c[i] = Lock(Serial) => /\ i > 1 /\ c[i - 1] = <<"flag", FALSE>>
                                                  /\ i < Len(c) /\ c[i + 1] = Unlock(Serial)
                        /\ c[i] = Unlock(Serial) => i > 1 /\ c[i - 1] = Lock(Serial)
      BY Zenon DEF SerialMasked
    <2>1. CASE i \in 1..m
      <3>1. /\ i > 1 => i - 1 \in 1..m
            /\ i < m => i + 1 \in 1..m /\ i < Len(c)
        BY <1>1, <2>1
      <3>2. /\ c[i] = a[i]
            /\ i > 1 => c[i - 1] = a[i - 1]
            /\ i < m => c[i + 1] = a[i + 1]
        BY <1>1, <2>1, <3>1
      <3> QED BY <2>1, <3>1, <3>2, Zenon DEF Piece, SerialMasked, m
    <2>2. ASSUME NEW h \in 1..n, i = m + h
          PROVE  /\ c[i] = Lock(Serial) => /\ i > 1 /\ c[i - 1] = <<"flag", FALSE>>
                                           /\ i < Len(c) /\ c[i + 1] = Unlock(Serial)
                 /\ c[i] = Unlock(Serial) => i > 1 /\ c[i - 1] = Lock(Serial)
      <3>1. c[i] = b[h]
        BY <1>1, <2>2
      <3>2. h > 1 => i > 1 /\ c[i - 1] = b[h - 1]
        <4>1. h > 1 => h - 1 \in 1..n /\ i - 1 = m + (h - 1)
          BY <1>1, <2>2
        <4> QED BY <1>1, <2>2, <4>1
      <3>3. h < n => i < Len(c) /\ c[i + 1] = b[h + 1]
        <4>1. h < n => h + 1 \in 1..n /\ i + 1 = m + (h + 1)
          BY <1>1, <2>2
        <4> QED BY <1>1, <2>2, <4>1
      <3> QED BY <3>1, <3>2, <3>3, Zenon DEF Piece, SerialMasked, n
    <2> QED BY <1>1, <1>2, <2>1, <2>2, Zenon
  <1>7. MaskHolds(c)
    <2> SUFFICES ASSUME NEW j \in 1..Len(c), c[j] = Unmask
                 PROVE  \E k \in 1..(j - 1) :
                          /\ c[k] = Mask
                          /\ \A i \in (k + 1)..(j - 1) : c[i][1] \notin {"flag", "unmask"}
      BY DEF MaskHolds
    <2>1. CASE j \in 1..m
      <3>1. PICK k \in 1..(j - 1) :
               /\ a[k] = Mask
               /\ \A i \in (k + 1)..(j - 1) : a[i][1] \notin {"flag", "unmask"}
        BY <1>1, <2>1, Zenon DEF Piece, MaskHolds, m
      <3> QED BY <1>1, <2>1, <3>1
    <2>2. ASSUME NEW h \in 1..n, j = m + h
          PROVE  \E k \in 1..(j - 1) :
                   /\ c[k] = Mask
                   /\ \A i \in (k + 1)..(j - 1) : c[i][1] \notin {"flag", "unmask"}
      <3>1. b[h] = Unmask
        BY <1>1, <2>2
      <3>2. PICK k \in 1..(h - 1) :
               /\ b[k] = Mask
               /\ \A i \in (k + 1)..(h - 1) : b[i][1] \notin {"flag", "unmask"}
        BY <3>1, Zenon DEF Piece, MaskHolds, n
      <3>3. m + k \in 1..(j - 1) /\ c[m + k] = Mask
        BY <1>1, <2>2, <3>2
      <3>4. ASSUME NEW i \in ((m + k) + 1)..(j - 1) PROVE c[i][1] \notin {"flag", "unmask"}
        <4>1. i - m \in (k + 1)..(h - 1) /\ i - m \in 1..n /\ i = m + (i - m)
          BY <1>1, <2>2, <3>2
        <4> QED BY <1>1, <3>2, <4>1, ZenonT(60)
      <3> QED BY <3>3, <3>4
    <2> QED BY <1>1, <1>2, <2>1, <2>2, Zenon
  <1> QED BY <1>1, <1>3, <1>4, <1>5, <1>6, <1>7 DEF Piece, c

(* What takes more locks or switches to more threads is still a piece.     *)
LEMMA PieceWider ==
  ASSUME NEW L, NEW T, NEW M, NEW U, NEW c, Piece(c, L, T), L \subseteq M, T \subseteq U
  PROVE  Piece(c, M, U)
  BY DEF Piece

(* Code that does nothing.                                                 *)
LEMMA PieceEmpty ==
  ASSUME NEW L, NEW T
  PROVE  Piece(<<>>, L, T)
  <1>1. <<>> \in Seq(Op) /\ Len(<<>>) = 0 /\ 1..0 = {}
    OBVIOUS
  <1> QED BY <1>1 DEF Piece, Releases, Acquires, SerialMasked, MaskHolds

(* An operation by itself, other than on a lock or the end of              *)
(* without_interrupts.                                                     *)
LEMMA PieceOne ==
  ASSUME NEW L, NEW T, NEW op \in Op, op[1] \notin {"lock", "unlock", "unmask"},
         op[1] = "switch" => op[2] \in T
  PROVE  Piece(<<op>>, L, T)
  <1>1. <<op>> \in Seq(Op) /\ Len(<<op>>) = 1 /\ <<op>>[1] = op /\ 1..1 = {1}
    OBVIOUS
  <1>2. /\ \A l \in LockName : op # Lock(l) /\ op # Unlock(l)
        /\ op # Unmask /\ Serial \in LockName
    BY OpFacts DEF Serial, LockName
  <1> QED BY <1>1, <1>2, Zenon DEF Piece, Releases, Acquires, SerialMasked, MaskHolds

(* The operations of a piece between two others.                           *)
LEMMA WrapAt ==
  ASSUME NEW x \in Op, NEW y \in Op, NEW b \in Seq(Op), NEW c, c = <<x>> \o b \o <<y>>,
         NEW n, n = Len(b)
  PROVE  /\ c \in Seq(Op) /\ n \in Nat /\ Len(c) = n + 2
         /\ c[1] = x /\ c[n + 2] = y
         /\ \A i \in 1..n : c[i + 1] = b[i]
  <1> DEFINE h == <<x>> \o b
  <1>1. /\ <<x>> \in Seq(Op) /\ Len(<<x>>) = 1 /\ <<x>>[1] = x /\ 1 \in 1..1
        /\ <<y>> \in Seq(Op) /\ Len(<<y>>) = 1 /\ <<y>>[1] = y
    OBVIOUS
  <1>2. /\ h \in Seq(Op) /\ Len(h) = n + 1 /\ n \in Nat
        /\ h[1] = x /\ \A i \in 1..n : h[i + 1] = b[i]
    <2>1. /\ h \in Seq(Op) /\ Len(h) = 1 + n /\ n \in Nat
          /\ \A i \in 1..1 : h[i] = <<x>>[i]
          /\ \A i \in 1..n : h[1 + i] = b[i]
      BY <1>1, ConcatAt
    <2> QED BY <1>1, <2>1
  <1> HIDE DEF h
  <1>3. /\ c \in Seq(Op) /\ Len(c) = Len(h) + 1
        /\ \A i \in 1..Len(h) : c[i] = h[i]
        /\ \A i \in 1..1 : c[Len(h) + i] = <<y>>[i]
    <2>1. c = h \o <<y>>
      BY DEF h
    <2> QED BY <1>1, <1>2, <2>1, ConcatAt
  <1>4. c[1] = x /\ \A i \in 1..n : c[i + 1] = b[i]
    BY <1>2, <1>3
  <1>5. c[n + 2] = y
    <2>1. n + 2 = Len(h) + 1
      BY <1>2
    <2> QED BY <1>1, <1>3, <2>1
  <1> QED BY <1>2, <1>3, <1>4, <1>5

(* An index into a piece between two others.                               *)
LEMMA WrapIndex ==
  ASSUME NEW n \in Nat, NEW i \in 1..(n + 2)
  PROVE  i = 1 \/ i = n + 2 \/ \E h \in 1..n : i = h + 1
  <1>1. CASE i # 1 /\ i # n + 2
    <2>1. i - 1 \in 1..n /\ i = (i - 1) + 1
      BY <1>1
    <2> QED BY <2>1
  <1> QED BY <1>1

(* The body of a lock's section may not take that lock, nor switch unless  *)
(* the lock is THREAD_LIST's.                                              *)
LEMMA PieceWithin ==
  ASSUME NEW L, NEW T, NEW b, Piece(b, L, T),
         NEW l \in LockName, l # Serial, l \notin L, l = "threads" \/ T = {}
  PROVE  Piece(Within(l, b), L \cup {l}, T)
  <1> DEFINE c == Within(l, b)
             n == Len(b)
  <1>1. /\ c \in Seq(Op) /\ n \in Nat /\ Len(c) = n + 2
        /\ c[1] = Lock(l) /\ c[n + 2] = Unlock(l)
        /\ \A i \in 1..n : c[i + 1] = b[i]
    <2>1. b \in Seq(Op) /\ Lock(l) \in Op /\ Unlock(l) \in Op
      BY OpIn DEF Piece
    <2>2. c = <<Lock(l)>> \o b \o <<Unlock(l)>>
      BY DEF Within, Lock, Unlock
    <2> QED BY <2>1, <2>2, WrapAt
  <1> HIDE DEF c, n
  <1>2. \A i \in 1..(n + 2) : i = 1 \/ i = n + 2 \/ \E h \in 1..n : i = h + 1
    BY <1>1, WrapIndex
  <1>3. /\ \A k \in LockName : /\ Lock(l) = Lock(k) => k = l
                               /\ Unlock(l) = Unlock(k) => k = l
                               /\ Lock(l) # Unlock(k) /\ Unlock(l) # Lock(k)
        /\ Lock(l) # Unmask /\ Unlock(l) # Unmask /\ Serial \in LockName
        /\ Lock(l)[1] \notin {"switch", "flag", "unmask"}
        /\ Unlock(l)[1] \notin {"switch", "flag", "unmask"}
    BY OpFacts DEF Serial, LockName
  <1>4. \A i \in 1..n : b[i] # Lock(l) /\ (T = {} => b[i][1] # "switch")
    BY DEF Piece, n
  <1>5. ASSUME NEW i \in 1..Len(c)
        PROVE  /\ \A k \in LockName : c[i] = Lock(k) => k \in L \cup {l}
               /\ c[i][1] = "switch" => c[i][2] \in T
    <2>1. ASSUME NEW h \in 1..n, i = h + 1
          PROVE  /\ \A k \in LockName : c[i] = Lock(k) => k \in L \cup {l}
                 /\ c[i][1] = "switch" => c[i][2] \in T
      BY <1>1, <2>1 DEF Piece, n
    <2> QED BY <1>1, <1>2, <1>3, <2>1
  <1>6. Releases(c)
    <2> SUFFICES ASSUME NEW i \in 1..Len(c), NEW k \in LockName, c[i] = Lock(k)
                 PROVE  \E j \in (i + 1)..Len(c) :
                          c[j] = Unlock(k) /\ \A g \in (i + 1)..(j - 1) : c[g] # Lock(k)
      BY DEF Releases
    <2>1. CASE i = 1
      <3>1. k = l /\ n + 2 \in (i + 1)..Len(c) /\ c[n + 2] = Unlock(l)
        BY <1>1, <1>3, <2>1
      <3>2. ASSUME NEW g \in (i + 1)..((n + 2) - 1) PROVE c[g] # Lock(l)
        <4>1. g - 1 \in 1..n /\ g = (g - 1) + 1
          BY <1>1, <2>1
        <4> QED BY <1>1, <1>4, <4>1, ZenonT(120)
      <3> QED BY <3>1, <3>2
    <2>2. i # n + 2
      BY <1>1, <1>3
    <2>3. ASSUME NEW h \in 1..n, i = h + 1
          PROVE  \E j \in (i + 1)..Len(c) :
                   c[j] = Unlock(k) /\ \A g \in (i + 1)..(j - 1) : c[g] # Lock(k)
      <3>1. b[h] = Lock(k)
        BY <1>1, <2>3
      <3>2. PICK j \in (h + 1)..n : b[j] = Unlock(k) /\ \A g \in (h + 1)..(j - 1) : b[g] # Lock(k)
        BY <3>1 DEF Piece, Releases, n
      <3>3. j + 1 \in (i + 1)..Len(c) /\ j \in 1..n
        BY <1>1, <2>3
      <3>4. ASSUME NEW g \in (i + 1)..((j + 1) - 1) PROVE c[g] # Lock(k)
        <4>1. g - 1 \in (h + 1)..(j - 1) /\ g - 1 \in 1..n /\ g = (g - 1) + 1
          BY <1>1, <2>3, <3>2
        <4> QED BY <1>1, <3>2, <4>1, Zenon
      <3> QED BY <1>1, <3>2, <3>3, <3>4
    <2> QED BY <1>1, <1>2, <2>1, <2>2, <2>3
  <1>7. Acquires(c)
    <2> SUFFICES ASSUME NEW j \in 1..Len(c), NEW k \in LockName, c[j] = Unlock(k)
                 PROVE  \E g \in 1..(j - 1) :
                          /\ c[g] = Lock(k)
                          /\ k # "threads" => \A i \in (g + 1)..(j - 1) : c[i][1] # "switch"
      BY SMTT(60) DEF Acquires
    <2>1. j # 1
      BY <1>1, <1>3
    <2>2. CASE j = n + 2
      <3>1. k = l /\ 1 \in 1..(j - 1)
        BY <1>1, <1>3, <2>2
      <3>2. ASSUME l # "threads", NEW i \in (1 + 1)..(j - 1) PROVE c[i][1] # "switch"
        <4>1. i - 1 \in 1..n /\ i = (i - 1) + 1
          BY <1>1, <2>2
        <4> QED BY <1>1, <1>4, <3>2, <4>1, ZenonT(120)
      <3> QED BY <1>1, <3>1, <3>2
    <2>3. ASSUME NEW h \in 1..n, j = h + 1
          PROVE  \E g \in 1..(j - 1) :
                   /\ c[g] = Lock(k)
                   /\ k # "threads" => \A i \in (g + 1)..(j - 1) : c[i][1] # "switch"
      <3>1. b[h] = Unlock(k)
        BY <1>1, <2>3
      <3>2. PICK g \in 1..(h - 1) :
               /\ b[g] = Lock(k)
               /\ k # "threads" => \A i \in (g + 1)..(h - 1) : b[i][1] # "switch"
        BY <3>1 DEF Piece, Acquires, n
      <3>3. g + 1 \in 1..(j - 1) /\ g \in 1..n
        BY <1>1, <2>3
      <3>4. ASSUME k # "threads", NEW i \in ((g + 1) + 1)..(j - 1) PROVE c[i][1] # "switch"
        <4>1. i - 1 \in (g + 1)..(h - 1) /\ i - 1 \in 1..n /\ i = (i - 1) + 1
          BY <1>1, <2>3, <3>2
        <4>2. c[i] = b[i - 1]
          BY <1>1, <4>1
        <4> QED BY <3>2, <3>4, <4>1, <4>2
      <3> QED BY <1>1, <3>2, <3>3, <3>4
    <2> QED BY <1>1, <1>2, <2>1, <2>2, <2>3
  <1>8. SerialMasked(c)
    <2> SUFFICES ASSUME NEW i \in 1..Len(c)
                 PROVE  /\ c[i] = Lock(Serial) => /\ i > 1 /\ c[i - 1] = <<"flag", FALSE>>
                                                  /\ i < Len(c) /\ c[i + 1] = Unlock(Serial)
                        /\ c[i] = Unlock(Serial) => i > 1 /\ c[i - 1] = Lock(Serial)
      BY Zenon DEF SerialMasked
    <2>1. CASE i = 1 \/ i = n + 2
      BY <1>1, <1>3, <2>1, Zenon
    <2>2. ASSUME NEW h \in 1..n, i = h + 1
          PROVE  /\ c[i] = Lock(Serial) => /\ i > 1 /\ c[i - 1] = <<"flag", FALSE>>
                                           /\ i < Len(c) /\ c[i + 1] = Unlock(Serial)
                 /\ c[i] = Unlock(Serial) => i > 1 /\ c[i - 1] = Lock(Serial)
      <3>1. /\ h > 1 => h - 1 \in 1..n /\ i - 1 = (h - 1) + 1
            /\ h < n => h + 1 \in 1..n
            /\ i > 1 /\ i < Len(c)
        BY <1>1, <2>2
      <3>2. /\ c[i] = b[h]
            /\ h > 1 => c[i - 1] = b[h - 1]
            /\ h < n => c[i + 1] = b[h + 1]
        BY <1>1, <2>2, <3>1
      <3> QED BY <3>1, <3>2, Zenon DEF Piece, SerialMasked, n
    <2> QED BY <1>1, <1>2, <2>1, <2>2, Zenon
  <1>9. MaskHolds(c)
    <2> SUFFICES ASSUME NEW j \in 1..Len(c), c[j] = Unmask
                 PROVE  \E k \in 1..(j - 1) :
                          /\ c[k] = Mask
                          /\ \A i \in (k + 1)..(j - 1) : c[i][1] \notin {"flag", "unmask"}
      BY DEF MaskHolds
    <2>1. PICK h \in 1..n : j = h + 1
      BY <1>1, <1>2, <1>3
    <2>2. b[h] = Unmask
      BY <1>1, <2>1
    <2>3. PICK k \in 1..(h - 1) :
             /\ b[k] = Mask
             /\ \A i \in (k + 1)..(h - 1) : b[i][1] \notin {"flag", "unmask"}
      BY <2>2 DEF Piece, MaskHolds, n
    <2>4. k + 1 \in 1..(j - 1) /\ k \in 1..n
      BY <1>1, <2>1
    <2>5. ASSUME NEW i \in ((k + 1) + 1)..(j - 1) PROVE c[i][1] \notin {"flag", "unmask"}
      <3>1. n \in Nat
        BY <1>1
      <3>2. i - 1 \in (k + 1)..(h - 1) /\ i - 1 \in 1..n /\ i = (i - 1) + 1
        BY <2>1, <3>1
      <3>3. c[i] = b[i - 1]
        BY <1>1, <3>2
      <3> QED BY <2>3, <3>2, <3>3
    <2> QED BY <1>1, <2>3, <2>4, <2>5
  <1> QED BY <1>1, <1>5, <1>6, <1>7, <1>8, <1>9, SMTT(60) DEF Piece, c

(* A log line.                                                             *)
LEMMA PrintPiece ==
  ASSUME NEW T
  PROVE  Piece(_print, {Serial}, T)
  <1> DEFINE f == <<"flag", FALSE>>
             g == <<"flag", TRUE>>
             b == Brief("serial")
             c == _print
  <1>1. /\ f \in Op /\ g \in Op /\ f[1] = "flag" /\ g[1] = "flag"
        /\ c = <<f>> \o b \o <<g>>
    BY OpIn, OpFacts, Zenon DEF _print, cli, sti
  <1> HIDE DEF f, g
  <1>2. b \in Seq(Op) /\ Len(b) = 2 /\ b[1] = Lock(Serial) /\ b[2] = Unlock(Serial)
    <2>1. /\ Serial \in LockName /\ Lock(Serial) \in Op /\ Unlock(Serial) \in Op
          /\ <<>> \in Seq(Op) /\ Len(<<>>) = 0
      BY OpIn DEF Serial, LockName
    <2>2. b = <<Lock(Serial)>> \o <<>> \o <<Unlock(Serial)>>
      BY DEF Brief, Within, Lock, Unlock, Serial
    <2> HIDE DEF b
    <2>3. PICK e \in Seq(Op) : e = <<>> /\ Len(e) = 0
      BY <2>1, Zenon
    <2>4. /\ b \in Seq(Op) /\ Len(b) = Len(e) + 2
          /\ b[1] = Lock(Serial) /\ b[Len(e) + 2] = Unlock(Serial)
      BY <2>1, <2>2, <2>3, WrapAt
    <2> QED BY <2>3, <2>4
  <1> HIDE DEF b, c
  <1>3. /\ c \in Seq(Op) /\ Len(c) = 4 /\ 1..4 = {1, 2, 3, 4} /\ c[1] = f
        /\ c[2] = Lock(Serial) /\ c[3] = Unlock(Serial) /\ c[4] = g
    <2>1. /\ c \in Seq(Op) /\ Len(c) = 2 + 2 /\ c[1] = f /\ c[2 + 2] = g
          /\ \A i \in 1..2 : c[i + 1] = b[i]
      <3>1. /\ c \in Seq(Op) /\ Len(c) = Len(b) + 2 /\ c[1] = f /\ c[Len(b) + 2] = g
            /\ \A i \in 1..Len(b) : c[i + 1] = b[i]
        <4>1. b \in Seq(Op) /\ f \in Op /\ g \in Op
          BY <1>1, <1>2
        <4>2. c = <<f>> \o b \o <<g>>
          BY <1>1
        <4> QED BY <4>1, <4>2, WrapAt
      <3> QED BY <1>2, <3>1
    <2>2. c[1 + 1] = b[1] /\ c[2 + 1] = b[2]
      BY <2>1
    <2> QED BY <1>2, <2>1, <2>2
  <1>4. Serial \in LockName
    BY DEF Serial, LockName
  <1>4a. /\ \A l \in LockName : /\ c[1] # Lock(l) /\ c[3] # Lock(l) /\ c[4] # Lock(l)
                                /\ c[1] # Unlock(l) /\ c[2] # Unlock(l) /\ c[4] # Unlock(l)
                                /\ c[2] = Lock(l) => l = Serial
                                /\ c[3] = Unlock(l) => l = Serial
         /\ \A i \in 1..4 : c[i] # Unmask /\ c[i][1] # "switch"
    BY <1>1, <1>3, OpFacts, SMTT(60)
  <1>5. Releases(c)
    <2> SUFFICES ASSUME NEW i \in 1..Len(c), NEW l \in LockName, c[i] = Lock(l)
                 PROVE  \E j \in (i + 1)..Len(c) :
                          c[j] = Unlock(l) /\ \A k \in (i + 1)..(j - 1) : c[k] # Lock(l)
      BY DEF Releases
    <2>1. i = 2 /\ l = Serial
      BY <1>3, <1>4a
    <2> QED BY <1>3, <2>1
  <1>6. Acquires(c)
    <2> SUFFICES ASSUME NEW j \in 1..Len(c), NEW l \in LockName, c[j] = Unlock(l)
                 PROVE  \E k \in 1..(j - 1) :
                          /\ c[k] = Lock(l)
                          /\ l # "threads" => \A i \in (k + 1)..(j - 1) : c[i][1] # "switch"
      BY DEF Acquires
    <2>1. j = 3 /\ l = Serial
      BY <1>3, <1>4a
    <2> QED BY <1>3, <2>1
  <1>7. SerialMasked(c)
    <2> SUFFICES ASSUME NEW i \in 1..Len(c)
                 PROVE  /\ c[i] = Lock(Serial) => /\ i > 1 /\ c[i - 1] = f
                                                  /\ i < Len(c) /\ c[i + 1] = Unlock(Serial)
                        /\ c[i] = Unlock(Serial) => i > 1 /\ c[i - 1] = Lock(Serial)
      BY Zenon DEF SerialMasked, f
    <2> QED BY <1>3, <1>4, <1>4a
  <1>8. MaskHolds(c)
    BY <1>3, <1>4a DEF MaskHolds
  <1> QED BY <1>3, <1>4a, <1>5, <1>6, <1>7, <1>8 DEF Piece, c

(* perform_context_switch to a thread that has run, or is not init.        *)
LEMMA SwitchPiece ==
  ASSUME NEW T, NEW t \in Thread \cap T, ~(t = InitThread /\ t \in fresh)
  PROVE  Piece(perform_context_switch(t), {"threads"}, T)
  <1> DEFINE l0 == "threads"
             a == Brief(l0)
             b == Within(l0, <<<<"switch", t>>>>)
             c == perform_context_switch(t)
  <1>0. /\ l0 \in LockName /\ Lock(l0) \in Op /\ Unlock(l0) \in Op /\ Mask \in Op /\ Unmask \in Op
        /\ <<>> \in Seq(Op) /\ Len(<<>>) = 0 /\ <<"switch", t>> \in Op
    BY OpIn DEF LockName
  <1>1. a \in Seq(Op) /\ Len(a) = 2 /\ a[1] = Lock(l0) /\ a[2] = Unlock(l0)
    <2>1. a = <<Lock(l0)>> \o <<>> \o <<Unlock(l0)>>
      BY DEF Brief, Within, Lock, Unlock
    <2> HIDE DEF a
    <2>2. PICK e \in Seq(Op) : e = <<>> /\ Len(e) = 0
      BY <1>0, Zenon
    <2>3. /\ a \in Seq(Op) /\ Len(a) = Len(e) + 2 /\ a[1] = Lock(l0) /\ a[Len(e) + 2] = Unlock(l0)
      BY <1>0, <2>1, <2>2, WrapAt
    <2> QED BY <2>2, <2>3
  <1>2. /\ b \in Seq(Op) /\ Len(b) = 3
        /\ b[1] = Lock(l0) /\ b[2] = <<"switch", t>> /\ b[3] = Unlock(l0)
    <2> DEFINE s == <<<<"switch", t>>>>
    <2>1. s \in Seq(Op) /\ Len(s) = 1 /\ s[1] = <<"switch", t>>
      BY <1>0
    <2> HIDE DEF s
    <2>2. b = <<Lock(l0)>> \o s \o <<Unlock(l0)>>
      BY DEF Within, Lock, Unlock, s
    <2> HIDE DEF b
    <2>3. b \in Seq(Op) /\ Len(b) = 3 /\ b[1] = Lock(l0) /\ b[3] = Unlock(l0) /\ \A i \in 1..1 : b[i + 1] = s[i]
      <3>1. /\ b \in Seq(Op) /\ Len(b) = Len(s) + 2 /\ b[1] = Lock(l0) /\ b[Len(s) + 2] = Unlock(l0)
            /\ \A i \in 1..Len(s) : b[i + 1] = s[i]
        <4>1. s \in Seq(Op) /\ Lock(l0) \in Op /\ Unlock(l0) \in Op
          BY <1>0, <2>1
        <4> QED BY <2>2, <4>1, WrapAt
      <3> QED BY <2>1, <3>1
    <2>4. b[1 + 1] = s[1]
      BY <2>3
    <2> QED BY <2>1, <2>3, <2>4
  <1>2a. c = <<Mask>> \o (a \o b) \o <<Unmask>>
    <2>1. <<>> \o <<<<"switch", t>>>> = <<<<"switch", t>>>>
      BY <1>0, ConcatEmptySeq
    <2>2. c = ((<<Mask>> \o a) \o b) \o <<Unmask>>
      BY <2>1, Zenon DEF perform_context_switch, Mask, Unmask
    <2> HIDE DEF a, b, c
    <2>3. (<<Mask>> \o a) \o b = <<Mask>> \o (a \o b)
      BY <1>0, <1>1, <1>2, ConcatAssociative, SMTT(60)
    <2> QED BY <2>2, <2>3
  <1> HIDE DEF a, b, c
  <1>3. /\ c \in Seq(Op) /\ Len(c) = 7 /\ 1..7 = {1, 2, 3, 4, 5, 6, 7} /\ c[1] = Mask
        /\ c[2] = Lock(l0) /\ c[3] = Unlock(l0) /\ c[4] = Lock(l0)
        /\ c[5] = <<"switch", t>> /\ c[6] = Unlock(l0) /\ c[7] = Unmask
    <2> DEFINE d == a \o b
    <2>0. /\ d \in Seq(Op) /\ Len(d) = Len(a) + Len(b)
          /\ \A i \in 1..Len(a) : d[i] = a[i]
          /\ \A i \in 1..Len(b) : d[Len(a) + i] = b[i]
      BY <1>1, <1>2, ConcatAt, ZenonT(60)
    <2> HIDE DEF d
    <2>1. /\ d \in Seq(Op) /\ Len(d) = 5
          /\ \A i \in 1..2 : d[i] = a[i]
          /\ \A i \in 1..3 : d[2 + i] = b[i]
      BY <1>1, <1>2, <2>0
    <2>2. d[1] = a[1] /\ d[2] = a[2] /\ d[2 + 1] = b[1] /\ d[2 + 2] = b[2] /\ d[2 + 3] = b[3]
      BY <2>1
    <2>2a. c = <<Mask>> \o d \o <<Unmask>>
      BY <1>2a DEF d
    <2>3. /\ c \in Seq(Op) /\ Len(c) = 5 + 2 /\ c[1] = Mask /\ c[5 + 2] = Unmask
          /\ \A i \in 1..5 : c[i + 1] = d[i]
      <3>1. /\ c \in Seq(Op) /\ Len(c) = Len(d) + 2 /\ c[1] = Mask /\ c[Len(d) + 2] = Unmask
            /\ \A i \in 1..Len(d) : c[i + 1] = d[i]
        <4>1. d \in Seq(Op) /\ Mask \in Op /\ Unmask \in Op
          BY <1>0, <2>1
        <4> QED BY <2>2a, <4>1, WrapAt
      <3> QED BY <2>1, <3>1
    <2>4. /\ c[1 + 1] = d[1] /\ c[2 + 1] = d[2] /\ c[3 + 1] = d[3] /\ c[4 + 1] = d[4]
          /\ c[5 + 1] = d[5]
      BY <2>3
    <2> QED BY <1>1, <1>2, <2>2, <2>3, <2>4
  <1>4. /\ \A l \in LockName : /\ c[1] # Lock(l) /\ c[3] # Lock(l) /\ c[5] # Lock(l)
                               /\ c[6] # Lock(l) /\ c[7] # Lock(l)
                               /\ c[1] # Unlock(l) /\ c[2] # Unlock(l) /\ c[4] # Unlock(l)
                               /\ c[5] # Unlock(l) /\ c[7] # Unlock(l)
                               /\ c[2] = Lock(l) \/ c[4] = Lock(l) => l = l0
                               /\ c[3] = Unlock(l) \/ c[6] = Unlock(l) => l = l0
        /\ \A i \in 1..6 : c[i][1] \notin {"flag", "unmask"}
        /\ \A i \in 1..7 : c[i][1] = "switch" => i = 5
        /\ c[5][2] = t /\ l0 \in LockName /\ Serial \in LockName /\ l0 # Serial
    BY <1>3, OpFacts, SMTT(60) DEF Serial, LockName
  <1>5. Releases(c)
    <2> SUFFICES ASSUME NEW i \in 1..Len(c), NEW l \in LockName, c[i] = Lock(l)
                 PROVE  \E j \in (i + 1)..Len(c) :
                          c[j] = Unlock(l) /\ \A k \in (i + 1)..(j - 1) : c[k] # Lock(l)
      BY DEF Releases
    <2>1. i \in {2, 4} /\ l = l0
      BY <1>3, <1>4, ZenonT(60)
    <2>2. CASE i = 2
      <3>1. 3 \in (i + 1)..Len(c) /\ (i + 1)..(3 - 1) = {}
        BY <1>3, <2>2
      <3> QED BY <1>3, <2>1, <3>1
    <2>3. CASE i = 4
      <3>1. 6 \in (i + 1)..Len(c) /\ (i + 1)..(6 - 1) = {5}
        BY <1>3, <2>3
      <3> QED BY <1>3, <1>4, <2>1, <3>1
    <2> QED BY <2>1, <2>2, <2>3
  <1>6. Acquires(c)
    <2> SUFFICES ASSUME NEW j \in 1..Len(c), NEW l \in LockName, c[j] = Unlock(l)
                 PROVE  \E k \in 1..(j - 1) :
                          /\ c[k] = Lock(l)
                          /\ l # "threads" => \A i \in (k + 1)..(j - 1) : c[i][1] # "switch"
      BY DEF Acquires
    <2>1. j \in {3, 6} /\ l = l0
      BY <1>3, <1>4, ZenonT(120)
    <2>2. 2 \in 1..(j - 1)
      BY <2>1
    <2> QED BY <1>3, <2>1, <2>2
  <1>7. SerialMasked(c)
    BY <1>3, <1>4, Zenon DEF SerialMasked
  <1>8. MaskHolds(c)
    <2> SUFFICES ASSUME NEW j \in 1..Len(c), c[j] = Unmask
                 PROVE  \E k \in 1..(j - 1) :
                          /\ c[k] = Mask
                          /\ \A i \in (k + 1)..(j - 1) : c[i][1] \notin {"flag", "unmask"}
      BY DEF MaskHolds
    <2>1. j = 7
      BY <1>3, <1>4, OpFacts
    <2>2. 1 \in 1..(j - 1) /\ \A i \in (1 + 1)..(j - 1) : i \in 1..6
      BY <2>1
    <2> QED BY <1>3, <1>4, <2>2, Zenon
  <1>9. ASSUME NEW i \in 1..Len(c)
        PROVE  /\ \A l \in LockName : c[i] = Lock(l) => l \in {"threads"}
               /\ c[i][1] = "switch" => c[i][2] \in T
    BY <1>3, <1>4, Zenon
  <1> QED BY <1>3, <1>5, <1>6, <1>7, <1>8, <1>9 DEF Piece, c

---------------------------------------------------------------------------
(* The code                                                                *)

(* A part of a call that switches to threads of T, or of a handler.        *)
Part(c, T) == Piece(c, LockName, T)

(* Parts one after the other are a part.                                   *)
LEMMA PartConcat ==
  ASSUME NEW T
  PROVE  \A a, b : Part(a, T) /\ Part(b, T) => Part(a \o b, T)
  BY PieceConcat DEF Part

(* A section of a lock that its body does not take.                        *)
LEMMA PartWithin ==
  ASSUME NEW T, NEW l \in LockName \ {Serial}, NEW L, L \subseteq LockName \ {l},
         NEW b, Piece(b, L, {})
  PROVE  /\ Piece(Within(l, b), L \cup {l}, {})
         /\ Part(Within(l, b), T)
  <1>1. Piece(Within(l, b), L \cup {l}, {})
    BY PieceWithin
  <1> QED BY <1>1, PieceWider DEF Part

(* A lock that is taken and released at once.                              *)
LEMMA BriefPart ==
  ASSUME NEW T, NEW l \in LockName \ {Serial}
  PROVE  Piece(Brief(l), {l}, {}) /\ Part(Brief(l), T)
  <1>1. Piece(<<>>, {}, {})
    BY PieceEmpty
  <1>2. Piece(Within(l, <<>>), {} \cup {l}, {}) /\ Part(Within(l, <<>>), T)
    BY <1>1, PartWithin
  <1> QED BY <1>2 DEF Brief

(* Log lines, the flag, and nothing at all.                                *)
LEMMA PlainParts ==
  ASSUME NEW T
  PROVE  /\ Part(_print, T) /\ Piece(_print, {Serial}, {})
         /\ Part(sti, T) /\ Part(<<>>, T)
  <1>1. Serial \in LockName
    BY DEF Serial, LockName
  <1>2. Piece(_print, {Serial}, T) /\ Piece(_print, {Serial}, {})
    BY PrintPiece
  <1>3. Part(_print, T)
    BY <1>1, <1>2, PieceWider DEF Part
  <1>4. Part(sti, T)
    <2> DEFINE g == <<"flag", TRUE>>
    <2>1. g \in Op /\ g[1] = "flag" /\ sti = <<g>>
      BY OpIn, OpFacts, Zenon DEF sti
    <2> HIDE DEF g
    <2> QED BY <2>1, PieceOne DEF Part
  <1> QED BY <1>2, <1>3, <1>4, PieceEmpty DEF Part

(* The functions of the scheduler that do not switch.                      *)
LEMMA SchedulerParts ==
  ASSUME NEW T
  PROVE  /\ Part(set_thread_state, T) /\ Part(current_thread, T) /\ Part(get_priority, T)
         /\ Part(restore_priority, T) /\ Part(mark_ready, T)
         /\ \A t : Part(on_timer_tick(t), T)
  <1>1. {"threads", "current", "effective", "base", "ready"} \subseteq LockName \ {Serial}
    BY DEF LockName, Serial
  <1>2. /\ Part(set_thread_state, T) /\ Part(current_thread, T) /\ Part(get_priority, T)
        /\ Part(restore_priority, T) /\ Part(mark_ready, T)
    BY <1>1, BriefPart, PartConcat, Zenon
       DEF set_thread_state, current_thread, get_priority, restore_priority, mark_ready
  <1>3. Part(Within("ready", Within("current", get_priority \o _print \o _print)), T)
    <2> DEFINE L == {"effective", Serial}
    <2>1. Piece(get_priority, L, {}) /\ Piece(_print, L, {})
      <3>1. Piece(get_priority, {"effective"}, {}) /\ Piece(_print, {Serial}, {})
        BY <1>1, BriefPart, PlainParts, Zenon DEF get_priority
      <3> QED BY <3>1, PieceWider
    <2> HIDE DEF L
    <2>2. Piece(get_priority \o _print \o _print, L, {})
      BY <2>1, PieceConcat
    <2>3. Piece(Within("current", get_priority \o _print \o _print), L \cup {"current"}, {})
      BY <2>2, PartWithin, Zenon DEF L, LockName, Serial
    <2> QED BY <2>3, PartWithin, Zenon DEF L, LockName, Serial
  <1>4. ASSUME NEW t PROVE Part(on_timer_tick(t), T)
    <2>1. Part(IF t = running THEN <<>> ELSE set_thread_state, T)
      BY <1>2, PlainParts
    <2> QED BY <1>2, <1>3, <2>1, PartConcat DEF on_timer_tick
  <1> QED BY <1>2, <1>4

(* What a thread does that gives up the processor: it switches to another. *)
LEMMA ReschedulePart ==
  ASSUME threads \subseteq Thread, InitThread \notin fresh, NEW r \in reschedules
  PROVE  Part(r, threads \ {running})
  <1> DEFINE T == threads \ {running}
  <1>1. PICK t \in threads :
          r = on_timer_tick(t) \o (IF t = running THEN <<>> ELSE perform_context_switch(t))
    BY DEF reschedules
  <1>2. Part(IF t = running THEN <<>> ELSE perform_context_switch(t), T)
    <2>1. CASE t # running
      <3>1. Piece(perform_context_switch(t), {"threads"}, T)
        BY <2>1, SwitchPiece
      <3> QED BY <2>1, <3>1, PieceWider DEF Part, LockName
    <2> QED BY <2>1, PlainParts
  <1>3. Part(on_timer_tick(t), T)
    BY SchedulerParts
  <1> QED BY <1>1, <1>2, <1>3, PartConcat

(* The functions of the IPC manager.                                       *)
LEMMA IpcParts ==
  ASSUME NEW T
  PROVE  /\ Part(record_trace_event, T) /\ Part(send, T)
         /\ \A found \in BOOLEAN : Part(try_recv(found), T)
         /\ Part(detect_deadlock, T) /\ Part(block_recv, T)
         /\ \A w \in SUBSET Thread : /\ Part(Within("waiting", <<<<"remove", w>>>>), T)
                                     /\ Part(handle_timeouts(w), T)
         /\ \A n \in notify_irq_handler : Part(n, T)
  <1>1. {"trace", "ports", "waiting", "handlers"} \subseteq LockName \ {Serial}
    BY DEF LockName, Serial
  <1> DEFINE L == {"trace", Serial}
             M == {"ports", "trace", Serial}
  <1>2. /\ L \subseteq LockName \ {"ports"} /\ M \subseteq LockName \ {"handlers"}
        /\ M = L \cup {"ports"}
    BY DEF LockName, Serial
  <1>3. /\ Piece(Brief("trace"), {"trace"}, {}) /\ Piece(Brief("ports"), {"ports"}, {})
        /\ Piece(_print, {Serial}, {}) /\ Piece(Brief("waiting"), {"waiting"}, {})
    BY <1>1, BriefPart, PlainParts, Zenon
  <1>4. Piece(record_trace_event, L, {})
    <2>1. Piece(Brief("trace"), L, {}) /\ Piece(_print, L, {})
      BY <1>3, PieceWider
    <2> QED BY <2>1, PieceConcat DEF record_trace_event
  <1>5. Piece(Brief("ports") \o _print, M, {})
    <2>1. Piece(Brief("ports"), M, {}) /\ Piece(_print, M, {})
      BY <1>3, PieceWider
    <2> QED BY <2>1, PieceConcat
  <1> HIDE DEF L, M
  <1>6. Part(record_trace_event, T)
    BY <1>2, <1>4, PieceWider DEF Part
  <1>7. Piece(send, M, {}) /\ Part(send, T)
    BY <1>1, <1>2, <1>4, PartWithin DEF send
  <1>8. ASSUME NEW found \in BOOLEAN PROVE Part(try_recv(found), T)
    <2>1. Piece(IF found THEN record_trace_event ELSE <<>>, L, {})
      BY <1>4, PieceEmpty
    <2> QED BY <1>1, <1>2, <2>1, PartWithin, Zenon DEF try_recv
  <1>9. Part(detect_deadlock, T)
    <2>1. {"waiting"} \subseteq LockName \ {"ports"}
      BY <1>1
    <2> QED BY <1>1, <1>3, <2>1, PartWithin, Zenon DEF detect_deadlock
  <1>10. ASSUME NEW op \in Op, op[1] \in {"insert", "remove"}
         PROVE  Part(Within("waiting", <<op>>), T)
    <2>1. Piece(<<op>>, {}, {})
      BY <1>10, PieceOne
    <2> QED BY <1>1, <2>1, PartWithin, Zenon
  <1>11. Part(block_recv, T)
    <2>1. Part(Within("waiting", <<<<"insert">>>>), T)
      BY <1>10, OpIn, OpFacts
    <2> QED BY <1>1, <1>9, <2>1, BriefPart, PartConcat, Zenon DEF block_recv
  <1>12. ASSUME NEW w \in SUBSET Thread
         PROVE  /\ Part(Within("waiting", <<<<"remove", w>>>>), T)
                /\ Part(handle_timeouts(w), T)
    <2>1. Part(Within("waiting", <<<<"remove", w>>>>), T)
      BY <1>10, OpIn, OpFacts
    <2>2. Part(Brief("ports") \o Within("waiting", <<<<"remove", w>>>>)
               \o _print \o mark_ready \o restore_priority, T)
      BY <1>1, <2>1, BriefPart, PlainParts, SchedulerParts, PartConcat, Zenon
    <2> QED BY <1>1, <2>1, <2>2, BriefPart, PlainParts, PartConcat, Zenon DEF handle_timeouts
  <1>13. ASSUME NEW n \in notify_irq_handler PROVE Part(n, T)
    <2>1. Part(Within("handlers", send), T) /\ Part(Within("handlers", Brief("ports") \o _print), T)
      BY <1>1, <1>2, <1>5, <1>7, PartWithin, Zenon
    <2> QED BY <2>1, PlainParts DEF notify_irq_handler
  <1> QED BY <1>6, <1>7, <1>8, <1>9, <1>11, <1>12, <1>13

(* A syscall is a part that switches to other threads.                     *)
LEMMA SyscallPart ==
  ASSUME threads \subseteq Thread, InitThread \notin fresh, waiters \subseteq Thread,
         NEW p \in Syscalls
  PROVE  Part(p, threads \ {running})
  <1> DEFINE T == threads \ {running}
  <1>1. LockName \ {Serial} = {"threads", "entries", "ready", "current", "base", "effective",
          "ports", "waiting", "trace", "caps", "audit", "keyboard", "mouse", "packet", "handlers"}
    BY DEF LockName, Serial
  <1> HIDE DEF T
  <1>2. \A a, b : Part(a, T) /\ Part(b, T) => Part(a \o b, T)
    BY PartConcat
  <1>3. \A l \in LockName \ {Serial} : Part(Brief(l), T)
    BY BriefPart, Zenon
  <1>4. Part(_print, T) /\ Part(sti, T) /\ Part(<<>>, T)
    BY PlainParts
  <1>5. /\ Part(set_thread_state, T) /\ Part(current_thread, T) /\ Part(get_priority, T)
        /\ Part(restore_priority, T) /\ Part(mark_ready, T)
    BY SchedulerParts
  <1>6. /\ Part(send, T) /\ \A found \in BOOLEAN : Part(try_recv(found), T)
        /\ Part(detect_deadlock, T) /\ Part(block_recv, T)
        /\ \A w \in SUBSET Thread : Part(Within("waiting", <<<<"remove", w>>>>), T)
    BY IpcParts, SMTT(60)
  <1>7. \A r \in reschedules : Part(r, T)
    BY ReschedulePart DEF T
  <1>8. ASSUME NEW b \in sys_thread_yield \cup sys_thread_sleep PROVE Part(b, T)
    BY <1>2, <1>4, <1>5, <1>7, Zenon DEF sys_thread_yield, sys_thread_sleep
  <1>9. ASSUME NEW b \in sys_thread_create PROVE Part(b, T)
    <2>1. Part(Within("threads", <<<<"create">>>>), T)
      <3>1. Piece(<<<<"create">>>>, {}, {}) /\ "threads" \in LockName \ {Serial}
        BY <1>1, OpIn, OpFacts, PieceOne
      <3> QED BY <3>1, PartWithin, Zenon
    <2>2. Part(Brief("threads"), T) /\ Part(Brief("base"), T) /\ Part(Brief("effective"), T)
          /\ Part(Brief("ready"), T)
      BY <1>1, <1>3
    <2> QED BY <1>2, <1>4, <1>5, <2>1, <2>2, Zenon DEF sys_thread_create
  <1>10. ASSUME NEW b \in sys_ipc_recv PROVE Part(b, T)
    <2> DEFINE h == _print \o current_thread \o _print \o get_priority
    <2>1. Part(h, T)
      BY <1>2, <1>4, <1>5
    <2> HIDE DEF h
    <2>2. Part(h \o try_recv(TRUE) \o _print, T) /\ Part(h \o try_recv(FALSE) \o _print, T)
      BY <1>2, <1>4, <1>6, <2>1, Zenon
    <2>3. Part(Brief("ports"), T)
      BY <1>1, <1>3
    <2>4. ASSUME NEW e \in {_print, Brief("ports") \o _print}
          PROVE  Part(h \o try_recv(FALSE) \o _print \o Brief("ports") \o detect_deadlock \o e, T)
      <3>1. Part(e, T)
        BY <1>2, <1>4, <2>3, Zenon
      <3> QED BY <1>2, <1>6, <2>2, <2>3, <3>1, Zenon
    <2>5. ASSUME NEW r \in reschedules, NEW found \in BOOLEAN
          PROVE  Part(h \o try_recv(FALSE) \o _print \o block_recv \o set_thread_state
                      \o r \o try_recv(found) \o _print, T)
      <3>1. Part(r, T) /\ Part(try_recv(found), T)
        BY <1>6, <1>7
      <3> QED BY <1>2, <1>4, <1>5, <1>6, <2>2, <3>1, Zenon
    <2> DEFINE A == {h \o try_recv(TRUE) \o _print, h \o try_recv(FALSE) \o _print}
               B == {h \o try_recv(FALSE) \o _print \o Brief("ports") \o detect_deadlock \o e :
                       e \in {_print, Brief("ports") \o _print}}
               C(found) == {h \o try_recv(FALSE) \o _print \o block_recv \o set_thread_state
                              \o r \o try_recv(found) \o _print : r \in reschedules}
    <2>6. b \in A \/ b \in B \/ \E found \in BOOLEAN : b \in C(found)
      BY Zenon DEF sys_ipc_recv, h
    <2>7. ASSUME NEW c \in A PROVE Part(c, T)
      BY <2>2, Zenon
    <2>8. ASSUME NEW c \in B PROVE Part(c, T)
      BY <2>4, Zenon
    <2>9. ASSUME NEW found \in BOOLEAN, NEW c \in C(found) PROVE Part(c, T)
      BY <2>5, Zenon
    <2> HIDE DEF A, B, C
    <2> QED BY <2>6, <2>7, <2>8, <2>9
  <1>11. ASSUME NEW b \in sys_ipc_wait_any \cup sys_ipc_send PROVE Part(b, T)
    BY <1>2, <1>4, <1>5, <1>6, <1>7, Zenon DEF sys_ipc_wait_any, sys_ipc_send
  <1>12. ASSUME NEW b \in sys_ipc_send_batch PROVE Part(b, T)
    <2>1. ASSUME NEW w \in waiters
          PROVE  Part(Within("waiting", <<<<"remove", {w}>>>>) \o mark_ready \o restore_priority, T)
      <3>1. {w} \in SUBSET Thread
        OBVIOUS
      <3> QED BY <1>2, <1>5, <1>6, <3>1
    <2> QED BY <1>2, <1>4, <1>5, <1>6, <2>1, Zenon DEF sys_ipc_send_batch
  <1>13. ASSUME NEW b \in sys_ipc_create_port \cup sys_cap_revoke \cup sys_cap_derive
         PROVE  Part(b, T)
    <2>1. /\ Part(Brief("ports"), T) /\ Part(Brief("caps"), T) /\ Part(Brief("audit"), T)
          /\ Part(Brief("threads"), T)
      BY <1>1, <1>3
    <2> QED BY <1>2, <1>4, <1>5, <2>1, ZenonT(60) DEF sys_ipc_create_port, sys_cap_revoke, sys_cap_derive
  <1>14. ASSUME NEW b \in sys_register_irq_handler PROVE Part(b, T)
    <2>1. Piece(<<<<"register">>>>, {Serial}, {}) /\ Piece(_print, {Serial}, {})
      BY OpIn, OpFacts, PieceOne, PlainParts, Zenon
    <2>2. Piece(<<<<"register">>>> \o _print, {Serial}, {})
      BY <2>1, PieceConcat
    <2>3. {Serial} \subseteq LockName \ {"handlers"} /\ "handlers" \in LockName \ {Serial}
      BY DEF LockName, Serial
    <2>4. Part(Within("handlers", <<<<"register">>>> \o _print), T)
      BY <2>2, <2>3, PartWithin, Zenon
    <2> QED BY <1>2, <1>5, <2>4, Zenon DEF sys_register_irq_handler
  <1>15. ASSUME NEW b \in sys_mouse_poll \cup sys_keyboard_poll PROVE Part(b, T)
    <2>1. Part(Brief("mouse"), T) /\ Part(Brief("keyboard"), T)
      BY <1>1, <1>3
    <2> QED BY <1>2, <1>4, <2>1, Zenon DEF sys_mouse_poll, sys_keyboard_poll
  <1>16. PICK b \in UNION {sys_thread_yield, sys_thread_sleep, sys_thread_create,
                 sys_ipc_recv, sys_ipc_wait_any, sys_ipc_send,
                 sys_ipc_send_batch, sys_ipc_create_port, sys_cap_revoke,
                 sys_cap_derive, sys_register_irq_handler, sys_mouse_poll,
                 sys_keyboard_poll} : p = _print \o b \o sti
    BY Zenon DEF Syscalls, Syscall
  <1>17. Part(b, T)
    BY <1>8, <1>9, <1>10, <1>11, <1>12, <1>13, <1>14, <1>15
  <1> QED BY <1>2, <1>4, <1>16, <1>17, Zenon DEF T

(* The desktop's loop and the interrupt handlers do not switch.            *)
LEMMA HandlerPart ==
  ASSUME waiters \subseteq Thread
  PROVE  /\ \A p \in run_desktop_environment : Part(p, {})
         /\ \A h \in UNION {timer_interrupt_handler, keyboard_interrupt_handler,
                            mouse_interrupt_handler} : Part(h \o sti, {})
  <1>1. {"mouse", "keyboard", "packet", "handlers"} \subseteq LockName \ {Serial}
    BY DEF LockName, Serial
  <1>2. \A a, b : Part(a, {}) /\ Part(b, {}) => Part(a \o b, {})
    BY PartConcat
  <1>3. /\ Part(Brief("mouse"), {}) /\ Part(Brief("keyboard"), {}) /\ Part(Brief("packet"), {})
        /\ Part(Brief("handlers"), {})
    BY <1>1, BriefPart, Zenon
  <1>4. /\ Part(_print, {}) /\ Part(sti, {}) /\ Part(<<>>, {}) /\ Piece(_print, {Serial}, {})
    BY PlainParts, Zenon
  <1>5. \A w \in SUBSET Thread : Part(handle_timeouts(w), {})
    BY IpcParts, Zenon
  <1>6. \A n \in notify_irq_handler : Part(n, {})
    BY IpcParts, Zenon
  <1>7. ASSUME NEW p \in run_desktop_environment PROVE Part(p, {})
    <2>1. PICK m \in {<<>>, Brief("packet")} :
            p \in {Brief("mouse") \o m \o Brief("keyboard") \o k : k \in {<<>>, _print}}
      BY Zenon DEF run_desktop_environment
    <2>2. PICK k \in {<<>>, _print} : p = Brief("mouse") \o m \o Brief("keyboard") \o k
      BY <2>1, Zenon
    <2>3. Part(m, {}) /\ Part(k, {})
      BY <1>3, <1>4
    <2> QED BY <1>2, <1>3, <2>2, <2>3
  <1>8. ASSUME NEW h \in timer_interrupt_handler PROVE Part(h, {})
    <2>1. PICK b \in {<<>>, _print}, w \in SUBSET waiters : h = b \o handle_timeouts(w)
      BY DEF timer_interrupt_handler
    <2>2. Part(b, {}) /\ Part(handle_timeouts(w), {})
      BY <1>4, <1>5
    <2> QED BY <1>2, <2>1, <2>2
  <1>9. ASSUME NEW h \in keyboard_interrupt_handler PROVE Part(h, {})
    BY <1>2, <1>3, <1>6, Zenon DEF keyboard_interrupt_handler
  <1>10. ASSUME NEW h \in mouse_interrupt_handler PROVE Part(h, {})
    <2>1. PICK b \in {<<>>, _print}, n \in notify_irq_handler :
            h = _print \o Within("mouse", b) \o Brief("handlers") \o n
      BY SMTT(90) DEF mouse_interrupt_handler
    <2>2. Piece(b, {Serial}, {}) /\ {Serial} \subseteq LockName \ {"mouse"}
      BY <1>4, PieceEmpty DEF Serial, LockName
    <2>3. Part(Within("mouse", b), {})
      BY <1>1, <2>2, PartWithin, Zenon
    <2> QED BY <1>2, <1>3, <1>4, <1>6, <2>1, <2>3
  <1> QED BY <1>2, <1>4, <1>7, <1>8, <1>9, <1>10

---------------------------------------------------------------------------
(* The rest of a piece                                                     *)

(* Before it starts a piece is inside no section.                          *)
LEMMA PieceRest ==
  ASSUME NEW c, NEW L, NEW T, Piece(c, L, T)
  PROVE  /\ Rest(c) /\ Calm(c) /\ ~InsideMask(c)
         /\ \A l \in LockName : ~Inside(c, l)
         /\ \A i \in 1..Len(c) : c[i][1] = "switch" => c[i][2] \in T
  <1>1. /\ c \in Seq(Op) /\ Len(c) \in Nat /\ Releases(c) /\ Acquires(c) /\ SerialMasked(c)
        /\ MaskHolds(c) /\ \A i \in 1..Len(c) : c[i][1] = "switch" => c[i][2] \in T
    BY DEF Piece
  <1>2. ASSUME NEW i \in 1..Len(c), NEW j \in 1..Len(c), NEW l \in LockName,
               i < j, c[i][1] = "switch", c[j] = Unlock(l), l # "threads"
        PROVE  \E k \in (i + 1)..(j - 1) : c[k] = Lock(l)
    <2>1. PICK k \in 1..(j - 1) : c[k] = Lock(l) /\ \A h \in (k + 1)..(j - 1) : c[h][1] # "switch"
      BY <1>1, <1>2 DEF Acquires
    <2>2. k # i
      BY <1>2, <2>1, OpFacts
    <2>3. ~(k < i)
      BY <1>1, <1>2, <2>1
    <2>4. k \in (i + 1)..(j - 1)
      BY <1>1, <2>2, <2>3
    <2> QED BY <2>1, <2>4
  <1>3. ASSUME NEW i \in 1..Len(c), NEW j \in 1..Len(c),
               i < j, c[i][1] \in {"flag", "unmask"}, c[j] = Unmask
        PROVE  \E k \in (i + 1)..(j - 1) : c[k] = Mask
    <2>1. PICK k \in 1..(j - 1) :
             c[k] = Mask /\ \A h \in (k + 1)..(j - 1) : c[h][1] \notin {"flag", "unmask"}
      BY <1>1, <1>3 DEF MaskHolds
    <2>2. k # i
      BY <1>3, <2>1, OpFacts
    <2>3. ~(k < i)
      BY <1>1, <1>3, <2>1, SMTT(30)
    <2>4. k \in (i + 1)..(j - 1)
      BY <1>1, <2>2, <2>3
    <2> QED BY <2>1, <2>4
  <1>4. Rest(c)
    BY <1>1, <1>2, <1>3, Zenon DEF Rest, SerialMasked
  <1>5. Calm(c)
    <2> SUFFICES ASSUME c # <<>> PROVE Head(c) \notin {Lock(Serial), Unlock(Serial)}
      BY DEF Calm
    <2>1. Head(c) = c[1] /\ 1 \in 1..Len(c)
      BY <1>1
    <2>2. c[1] \in {Lock(Serial), Unlock(Serial)} => 1 > 1
      BY <1>1, <2>1, Zenon DEF SerialMasked
    <2> QED BY <2>1, <2>2
  <1>6. ~InsideMask(c)
    BY <1>1 DEF InsideMask, MaskHolds
  <1>7. ASSUME NEW l \in LockName PROVE ~Inside(c, l)
    BY <1>1 DEF Inside, Acquires
  <1> QED BY <1>1, <1>4, <1>5, <1>6, <1>7

(* The operations behind the first.                                        *)
LEMMA TailAt ==
  ASSUME NEW c \in Seq(Op), c # <<>>
  PROVE  /\ Tail(c) \in Seq(Op) /\ Len(c) \in Nat /\ Len(c) >= 1 /\ Len(Tail(c)) = Len(c) - 1
         /\ Head(c) = c[1] /\ c[1] \in Op
         /\ \A i \in 1..Len(Tail(c)) : Tail(c)[i] = c[i + 1] /\ i + 1 \in 1..Len(c)
  OBVIOUS

(* What is left of a piece is so after another operation.                  *)
LEMMA RestTail ==
  ASSUME NEW c, Rest(c), c # <<>>
  PROVE  Rest(Tail(c))
  <1> DEFINE d == Tail(c)
             n == Len(d)
  <1>1. c \in Seq(Op)
    BY DEF Rest
  <1>2. /\ d \in Seq(Op) /\ n \in Nat /\ Len(c) = n + 1
        /\ \A i \in 1..n : d[i] = c[i + 1] /\ i + 1 \in 1..(n + 1)
    BY <1>1, TailAt
  <1> HIDE DEF d, n
  <1>3. Releases(d)
    <2> SUFFICES ASSUME NEW i \in 1..n, NEW l \in LockName, d[i] = Lock(l)
                 PROVE  \E j \in (i + 1)..n :
                          d[j] = Unlock(l) /\ \A k \in (i + 1)..(j - 1) : d[k] # Lock(l)
      BY DEF Releases, n
    <2>1. i + 1 \in 1..Len(c) /\ c[i + 1] = Lock(l)
      BY <1>2
    <2>2. PICK j \in ((i + 1) + 1)..(n + 1) :
            c[j] = Unlock(l) /\ \A k \in ((i + 1) + 1)..(j - 1) : c[k] # Lock(l)
      BY <1>2, <2>1 DEF Rest, Releases
    <2>3. j - 1 \in (i + 1)..n /\ j - 1 \in 1..n /\ (j - 1) + 1 = j
      BY <1>2
    <2>4. ASSUME NEW k \in (i + 1)..((j - 1) - 1) PROVE d[k] # Lock(l)
      <3>1. k \in 1..n /\ k + 1 \in ((i + 1) + 1)..(j - 1)
        BY <1>2, <2>3
      <3> QED BY <1>2, <2>2, <3>1
    <2> QED BY <1>2, <2>2, <2>3, <2>4, Zenon
  <1>4. ASSUME NEW i \in 1..n, NEW j \in 1..n, NEW l \in LockName,
               i < j, d[i][1] = "switch", d[j] = Unlock(l), l # "threads"
        PROVE  \E k \in (i + 1)..(j - 1) : d[k] = Lock(l)
    <2>1. /\ i + 1 \in 1..Len(c) /\ j + 1 \in 1..Len(c) /\ i + 1 < j + 1
          /\ c[i + 1][1] = "switch" /\ c[j + 1] = Unlock(l)
      BY <1>2, <1>4
    <2>2. PICK k \in ((i + 1) + 1)..((j + 1) - 1) : c[k] = Lock(l)
      BY <1>4, <2>1 DEF Rest
    <2>3. k - 1 \in (i + 1)..(j - 1) /\ k - 1 \in 1..n /\ (k - 1) + 1 = k
      BY <1>2
    <2> QED BY <1>2, <2>2, <2>3, Zenon
  <1>5. ASSUME NEW i \in 1..n, NEW j \in 1..n,
               i < j, d[i][1] \in {"flag", "unmask"}, d[j] = Unmask
        PROVE  \E k \in (i + 1)..(j - 1) : d[k] = Mask
    <2>1. /\ i + 1 \in 1..Len(c) /\ j + 1 \in 1..Len(c) /\ i + 1 < j + 1
          /\ c[i + 1][1] \in {"flag", "unmask"} /\ c[j + 1] = Unmask
      <3>1. d[i] = c[i + 1] /\ d[j] = c[j + 1] /\ i + 1 \in 1..Len(c) /\ j + 1 \in 1..Len(c)
        BY <1>2
      <3> QED BY <1>2, <1>5, <3>1
    <2>2. PICK k \in ((i + 1) + 1)..((j + 1) - 1) : c[k] = Mask
      BY <2>1 DEF Rest
    <2>3. k - 1 \in (i + 1)..(j - 1) /\ k - 1 \in 1..n /\ (k - 1) + 1 = k
      BY <1>2
    <2> QED BY <1>2, <2>2, <2>3, Zenon
  <1>6. ASSUME NEW i \in 1..n
        PROVE  /\ d[i] = Lock(Serial) => /\ i > 1 => d[i - 1] = <<"flag", FALSE>>
                                         /\ i < n /\ d[i + 1] = Unlock(Serial)
               /\ d[i] = Unlock(Serial) /\ i > 1 => d[i - 1] = Lock(Serial)
    <2>1. d[i] = c[i + 1] /\ i + 1 \in 1..Len(c) /\ i + 1 > 1 /\ (i + 1) - 1 = i
      BY <1>2
    <2>2. /\ c[i + 1] = Lock(Serial) => /\ c[i] = <<"flag", FALSE>>
                                        /\ i + 1 < Len(c) /\ c[(i + 1) + 1] = Unlock(Serial)
          /\ c[i + 1] = Unlock(Serial) => c[i] = Lock(Serial)
      BY <2>1, Zenon DEF Rest
    <2>3. /\ i > 1 => i - 1 \in 1..n /\ (i - 1) + 1 = i
          /\ i + 1 < Len(c) => i < n /\ i + 1 \in 1..n
      BY <1>2
    <2>4. /\ i > 1 => d[i - 1] = c[i]
          /\ i + 1 < Len(c) => d[i + 1] = c[(i + 1) + 1]
      BY <1>2, <2>3
    <2> QED BY <2>1, <2>2, <2>3, <2>4, Zenon
  <1> QED BY <1>2, <1>3, <1>4, <1>5, <1>6, Zenon DEF Rest, d, n

(* How another operation changes what the code is inside of.               *)
LEMMA InsideTail ==
  ASSUME NEW c, Rest(c), c # <<>>, NEW l \in LockName
  PROVE  /\ Head(c) = Lock(l) => Inside(Tail(c), l)
         /\ Inside(c, l) /\ Head(c) # Unlock(l) => Inside(Tail(c), l)
         /\ Inside(Tail(c), l) /\ Head(c)[1] = "switch" => l = "threads"
  <1> DEFINE d == Tail(c)
             n == Len(d)
  <1>1. c \in Seq(Op)
    BY DEF Rest
  <1>2. /\ d \in Seq(Op) /\ n \in Nat /\ Len(c) = n + 1 /\ Head(c) = c[1]
        /\ \A i \in 1..n : d[i] = c[i + 1] /\ i + 1 \in 1..(n + 1)
    BY <1>1, TailAt
  <1> HIDE DEF d, n
  <1>3. ASSUME NEW j \in 2..(n + 1), c[j] = Unlock(l), \A k \in 2..(j - 1) : c[k] # Lock(l)
        PROVE  Inside(d, l)
    <2>1. j - 1 \in 1..n /\ (j - 1) + 1 = j
      BY <1>2
    <2>2. d[j - 1] = Unlock(l)
      BY <1>2, <1>3, <2>1
    <2>3. ASSUME NEW k \in 1..((j - 1) - 1) PROVE d[k] # Lock(l)
      <3>1. k \in 1..n /\ k + 1 \in 2..(j - 1)
        BY <2>1, <1>2
      <3> QED BY <1>2, <1>3, <3>1
    <2> QED BY <2>1, <2>2, <2>3 DEF Inside, n
  <1>4. ASSUME Head(c) = Lock(l) PROVE Inside(d, l)
    <2>1. 1 \in 1..Len(c)
      BY <1>2
    <2>2. PICK j \in (1 + 1)..Len(c) : c[j] = Unlock(l) /\ \A k \in (1 + 1)..(j - 1) : c[k] # Lock(l)
      BY <1>2, <1>4, <2>1 DEF Rest, Releases
    <2> QED BY <1>2, <1>3, <2>2
  <1>5. ASSUME Inside(c, l), Head(c) # Unlock(l) PROVE Inside(d, l)
    <2>1. PICK j \in 1..Len(c) : c[j] = Unlock(l) /\ \A k \in 1..(j - 1) : c[k] # Lock(l)
      BY <1>5 DEF Inside
    <2>2. j \in 2..(n + 1) /\ \A k \in 2..(j - 1) : k \in 1..(j - 1)
      BY <1>2, <1>5, <2>1
    <2> QED BY <1>3, <2>1, <2>2
  <1>6. ASSUME Inside(d, l), Head(c)[1] = "switch" PROVE l = "threads"
    <2>1. PICK j \in 1..n : d[j] = Unlock(l) /\ \A k \in 1..(j - 1) : d[k] # Lock(l)
      BY <1>6 DEF Inside, n
    <2>2. 1 \in 1..Len(c) /\ j + 1 \in 1..Len(c) /\ 1 < j + 1 /\ c[j + 1] = Unlock(l)
      BY <1>2, <2>1
    <2>3. l # "threads" => \E k \in (1 + 1)..((j + 1) - 1) : c[k] = Lock(l)
      BY <1>2, <1>6, <2>2 DEF Rest
    <2>4. ASSUME NEW k \in (1 + 1)..((j + 1) - 1) PROVE c[k] # Lock(l)
      <3>1. k - 1 \in 1..(j - 1) /\ k - 1 \in 1..n /\ (k - 1) + 1 = k
        BY <1>2
      <3> QED BY <1>2, <2>1, <3>1, Zenon
    <2> QED BY <2>3, <2>4
  <1> QED BY <1>4, <1>5, <1>6 DEF d

(* Inside without_interrupts the code got by its first operation, which    *)
(* does not set the flag.                                                  *)
LEMMA InsideMaskTail ==
  ASSUME NEW c, Rest(c), c # <<>>, InsideMask(Tail(c))
  PROVE  /\ Head(c)[1] \notin {"flag", "unmask"}
         /\ Head(c) = Mask \/ InsideMask(c)
  <1> DEFINE d == Tail(c)
             n == Len(d)
  <1>1. c \in Seq(Op)
    BY DEF Rest
  <1>2. /\ d \in Seq(Op) /\ n \in Nat /\ Len(c) = n + 1 /\ Head(c) = c[1]
        /\ \A i \in 1..n : d[i] = c[i + 1] /\ i + 1 \in 1..(n + 1)
    BY <1>1, TailAt
  <1>3. PICK j \in 1..n : d[j] = Unmask /\ \A k \in 1..(j - 1) : d[k] # Mask
    BY DEF InsideMask
  <1> HIDE DEF d, n
  <1>4. 1 \in 1..Len(c) /\ j + 1 \in 1..Len(c) /\ 1 < j + 1 /\ c[j + 1] = Unmask
    BY <1>2, <1>3
  <1>5. ASSUME NEW k \in (1 + 1)..((j + 1) - 1) PROVE c[k] # Mask
    <2>1. k - 1 \in 1..(j - 1) /\ k - 1 \in 1..n /\ (k - 1) + 1 = k
      BY <1>2
    <2> QED BY <1>2, <1>3, <2>1, Zenon
  <1>6. Head(c)[1] \notin {"flag", "unmask"}
    <2>1. c[1][1] \in {"flag", "unmask"} => \E k \in (1 + 1)..((j + 1) - 1) : c[k] = Mask
      BY <1>4 DEF Rest
    <2> QED BY <1>2, <1>5, <2>1
  <1>7. ASSUME Head(c) # Mask PROVE InsideMask(c)
    <2>1. ASSUME NEW k \in 1..((j + 1) - 1) PROVE c[k] # Mask
      <3>1. k = 1 \/ k \in (1 + 1)..((j + 1) - 1)
        OBVIOUS
      <3> QED BY <1>2, <1>5, <1>7, <3>1
    <2> QED BY <1>4, <2>1 DEF InsideMask
  <1> QED BY <1>6, <1>7

(* The serial port's lock is reached from a cli, and its release from it.  *)
LEMMA SerialTail ==
  ASSUME NEW c, Rest(c), c # <<>>
  PROVE  /\ ~Calm(Tail(c)) => Head(c) \in {<<"flag", FALSE>>, Lock(Serial)}
         /\ Head(c) = Lock(Serial) => Tail(c) # <<>> /\ Head(Tail(c)) = Unlock(Serial)
  <1> DEFINE d == Tail(c)
             n == Len(d)
  <1>1. c \in Seq(Op)
    BY DEF Rest
  <1>2. /\ d \in Seq(Op) /\ n \in Nat /\ Len(c) = n + 1 /\ Head(c) = c[1]
        /\ \A i \in 1..n : d[i] = c[i + 1] /\ i + 1 \in 1..(n + 1)
    BY <1>1, TailAt
  <1>3. /\ d # <<>> => 1 \in 1..n /\ Head(d) = d[1]
        /\ n > 0 => d # <<>>
    <2> HIDE DEF d
    <2>1. d # <<>> => Len(d) \in Nat /\ Len(d) >= 1 /\ Head(d) = d[1]
      BY <1>2, TailAt
    <2>2. Len(<<>>) = 0
      OBVIOUS
    <2> QED BY <2>1, <2>2
  <1> HIDE DEF d, n
  <1>4. d # <<>> => 2 \in 1..Len(c) /\ Head(d) = c[2]
    <2>1. d # <<>> => d[1] = c[1 + 1] /\ 1 + 1 \in 1..Len(c)
      BY <1>2, <1>3
    <2> QED BY <1>3, <2>1
  <1>5. ASSUME ~Calm(d) PROVE Head(c) \in {<<"flag", FALSE>>, Lock(Serial)}
    <2>1. d # <<>> /\ Head(d) \in {Lock(Serial), Unlock(Serial)}
      BY <1>5 DEF Calm
    <2>2. 2 > 1 /\ 2 - 1 = 1
      OBVIOUS
    <2>3. /\ c[2] = Lock(Serial) => c[2 - 1] = <<"flag", FALSE>>
          /\ c[2] = Unlock(Serial) => c[2 - 1] = Lock(Serial)
      BY <1>4, <2>1, <2>2, Zenon DEF Rest
    <2> QED BY <1>2, <1>4, <2>1, <2>2, <2>3, Zenon
  <1>6. ASSUME Head(c) = Lock(Serial) PROVE d # <<>> /\ Head(d) = Unlock(Serial)
    <2>1. 1 \in 1..Len(c)
      BY <1>2
    <2>2. 1 < Len(c) /\ c[1 + 1] = Unlock(Serial)
      BY <1>2, <1>6, <2>1, Zenon DEF Rest
    <2> QED BY <1>2, <1>3, <1>4, <2>2
  <1> QED BY <1>5, <1>6, Zenon DEF d

---------------------------------------------------------------------------
(* The invariant is inductive                                              *)

(* Identifiers of threads, of the handler and of a free lock differ.       *)
LEMMA Holders ==
  /\ Isr \notin Thread /\ Free \notin Thread /\ Isr # Free
  /\ Desktop \in Thread /\ InitThread \in Thread /\ Desktop # InitThread
  BY ConstantsAssumption DEF Isr, Free, Thread, Desktop, InitThread

(* Empty code is inside nothing.                                           *)
LEMMA EmptyCode ==
  /\ Rest(<<>>) /\ Calm(<<>>) /\ ~InsideMask(<<>>) /\ \A l \in LockName : ~Inside(<<>>, l)
  /\ Len(<<>>) = 0 /\ 1..0 = {}
  <1>1. Piece(<<>>, {}, {})
    BY PieceEmpty
  <1> QED BY <1>1, PieceRest

(* Boot leaves no code and no lock.                                        *)
LEMMA InitInv == Init => Inv
  <1> SUFFICES ASSUME Init PROVE Inv
    OBVIOUS
  <1>1. TypeOK
    <2>1. <<>> \in Seq(Op)
      OBVIOUS
    <2> QED BY <2>1, Holders, Zenon DEF Init, TypeOK
  <1>2. \A t \in Thread : program[t] = <<>>
    BY DEF Init
  <1>3. handler = <<>> /\ \A l \in LockName : holder[l] = Free
    BY DEF Init
  <1>4. CodeInv
    BY <1>2, <1>3, EmptyCode DEF CodeInv
  <1>5. HoldInv
    BY <1>2, <1>3, EmptyCode, Holders DEF HoldInv
  <1>6. SerialInv
    <2>1. Code = <<>> /\ Serial \in LockName
      BY <1>2, <1>3, Holders DEF Code, Init, Serial, LockName
    <2> QED BY <1>2, <1>3, <2>1, EmptyCode, SMTT(60) DEF SerialInv
  <1>7. MaskInv
    BY <1>2, EmptyCode, Holders DEF MaskInv, Init
  <1> QED BY <1>1, <1>4, <1>5, <1>6, <1>7 DEF Inv

(* The code that is run is a handler's or the running thread's.            *)
LEMMA CodeFacts ==
  ASSUME TypeOK, CodeInv
  PROVE  /\ Rest(Code) /\ Code \in Seq(Op) /\ running \in Thread
         /\ Code # <<>> => Head(Code) \in Op
         /\ Code # <<>> /\ Head(Code)[1] = "switch" =>
              handler = <<>> /\ Head(Code)[2] \in threads \ {running}
  <1>1. running \in Thread
    BY DEF TypeOK
  <1>2. Rest(Code) /\ Code \in Seq(Op)
    <2>1. Rest(Code)
      BY <1>1 DEF CodeInv, Code
    <2> QED BY <2>1, Zenon DEF Rest
  <1>3. Code # <<>> => Head(Code) \in Op /\ Head(Code) = Code[1] /\ 1 \in 1..Len(Code)
    <2> DEFINE c == Code
    <2> HIDE DEF c
    <2>1. c # <<>> => Len(c) \in Nat /\ Len(c) >= 1 /\ Head(c) = c[1] /\ c[1] \in Op
      BY <1>2, TailAt DEF c
    <2> QED BY <2>1 DEF c
  <1>4. ASSUME Code # <<>>, Head(Code)[1] = "switch"
        PROVE  handler = <<>> /\ Head(Code)[2] \in threads \ {running}
    BY <1>1, <1>3, <1>4 DEF CodeInv, Code
  <1> QED BY <1>1, <1>2, <1>3, <1>4

(* Where an operation leaves the code.                                     *)
LEMMA AdvanceFacts ==
  ASSUME TypeOK, CodeInv, Code # <<>>, Advance
  PROVE  /\ program' \in [Thread -> Seq(Op)] /\ handler' \in Seq(Op)
         /\ \/ /\ handler # <<>> /\ Code = handler /\ Executor = Isr
               /\ handler' = Tail(handler) /\ program' = program
            \/ /\ handler = <<>> /\ Code = program[running] /\ Executor = running
               /\ handler' = <<>> /\ program'[running] = Tail(program[running])
               /\ \A t \in Thread \ {running} : program'[t] = program[t]
  <1>1. Tail(Code) \in Seq(Op) /\ running \in Thread
    BY CodeFacts, TailAt
  <1>2. CASE handler # <<>>
    BY <1>1, <1>2 DEF Advance, Code, Executor, TypeOK
  <1>3. CASE handler = <<>>
    <2>1. /\ Code = program[running] /\ Executor = running /\ handler' = <<>>
          /\ program' = [program EXCEPT ![running] = Tail(program[running])]
      BY <1>3 DEF Advance, Code, Executor
    <2>2. program' \in [Thread -> Seq(Op)]
      BY <1>1, <2>1 DEF TypeOK
    <2> QED BY <1>1, <1>3, <2>1, <2>2 DEF TypeOK
  <1> QED BY <1>2, <1>3

(* The code keeps its shape.                                               *)
LEMMA StepCode ==
  ASSUME TypeOK, CodeInv, Code # <<>>, Advance,
         threads \subseteq threads', fresh' \subseteq fresh \cup (Thread \ threads)
  PROVE  CodeInv'
  <1>1. ASSUME NEW c \in Seq(Op), Rest(c), c # <<>>
        PROVE  /\ Rest(Tail(c))
               /\ \A i \in 1..Len(Tail(c)) : \E j \in 1..Len(c) : Tail(c)[i] = c[j]
    BY <1>1, RestTail, TailAt
  <1>2. Rest(handler') /\ \A i \in 1..Len(handler') : handler'[i][1] # "switch"
    <2>1. CASE handler # <<>>
      <3>1. handler' = Tail(handler)
        BY <2>1, AdvanceFacts
      <3>2. handler \in Seq(Op) /\ Rest(handler) /\ \A i \in 1..Len(handler) : handler[i][1] # "switch"
        BY DEF CodeInv, TypeOK
      <3>3. /\ Rest(Tail(handler))
            /\ \A i \in 1..Len(Tail(handler)) : \E j \in 1..Len(handler) : Tail(handler)[i] = handler[j]
        BY <1>1, <2>1, <3>2
      <3> QED BY <3>1, <3>2, <3>3, Zenon
    <2>2. CASE handler = <<>>
      BY <2>2, AdvanceFacts, EmptyCode
    <2> QED BY <2>1, <2>2
  <1>3. ASSUME NEW t \in Thread
        PROVE  /\ Rest(program'[t])
               /\ \A i \in 1..Len(program'[t]) :
                    program'[t][i][1] = "switch" => program'[t][i][2] \in threads' \ {t}
               /\ t \in fresh' \/ t \notin threads' => program'[t] = <<>>
    <2>1. CASE program'[t] = program[t]
      BY <2>1 DEF CodeInv
    <2>2. CASE t = running /\ program'[t] = Tail(program[t]) /\ program[t] # <<>>
      <3>1. program[t] \in Seq(Op) /\ t \in threads /\ t \notin fresh
        BY <2>2, SMTT(30) DEF TypeOK
      <3> QED BY <1>1, <2>2, <3>1 DEF CodeInv
    <2> QED BY <2>1, <2>2, AdvanceFacts, ZenonT(40)
  <1> QED BY <1>2, <1>3, Zenon DEF CodeInv

(* The holders of locks stay inside their sections, and a thread that is   *)
(* switched out is inside THREAD_LIST's only.                              *)
LEMMA StepHold ==
  ASSUME TypeOK, CodeInv, HoldInv, Code # <<>>, Advance,
         \A l \in LockName : \/ holder'[l] = holder[l] /\ Head(Code) # Unlock(l)
                             \/ holder'[l] = Free
                             \/ holder'[l] = Executor /\ Head(Code) = Lock(l),
         running' = running \/ Head(Code)[1] = "switch"
  PROVE  HoldInv'
  <1>0. ASSUME NEW l \in LockName
        PROVE  /\ Head(Code) = Lock(l) => Inside(Tail(Code), l)
               /\ Inside(Code, l) /\ Head(Code) # Unlock(l) => Inside(Tail(Code), l)
               /\ Inside(Tail(Code), l) /\ Head(Code)[1] = "switch" => l = "threads"
    BY CodeFacts, InsideTail
  <1> SUFFICES ASSUME NEW l \in LockName, NEW t \in Thread
               PROVE  /\ holder'[l] = Isr => Inside(handler', l)
                      /\ holder'[l] = t => Inside(program'[t], l)
                      /\ t # running' /\ Inside(program'[t], l) => l = "threads"
    BY Holders DEF HoldInv
  <1>1. CASE handler # <<>>
    <2>1. /\ Code = handler /\ Executor = Isr /\ handler' = Tail(Code) /\ program' = program
      BY <1>1, AdvanceFacts
    <2>2. running' = running
      BY <1>1, CodeFacts, Zenon
    <2> QED BY <1>0, <2>1, <2>2, Holders, Zenon DEF HoldInv
  <1>2. CASE handler = <<>>
    <2>1. /\ Code = program[running] /\ Executor = running /\ handler' = <<>>
          /\ program'[running] = Tail(Code)
          /\ \A u \in Thread \ {running} : program'[u] = program[u]
      BY <1>2, AdvanceFacts, Zenon
    <2>2. running \in Thread
      BY DEF TypeOK
    <2>3. holder'[l] # Isr
      BY <1>2, <2>1, <2>2, EmptyCode, Holders, Zenon DEF HoldInv
    <2>4. holder'[l] = t => Inside(program'[t], l)
      BY <1>0, <2>1, <2>2, Holders, SMTT(90) DEF HoldInv
    <2>5. t # running' /\ Inside(program'[t], l) => l = "threads"
      BY <1>0, <2>1, <2>2, SMTT(90) DEF HoldInv
    <2> QED BY <2>3, <2>4, <2>5
  <1> QED BY <1>1, <1>2

(* Only a cli leads to the serial port's lock.                             *)
LEMMA StepSerial ==
  ASSUME TypeOK, CodeInv, SerialInv, Code # <<>>, Advance,
         Head(Code) = <<"flag", FALSE>> => ~interrupts',
         Head(Code)[1] = "lock" => interrupts' = interrupts,
         \/ holder'[Serial] = holder[Serial] /\ Head(Code) # Unlock(Serial)
         \/ holder'[Serial] = Free
         \/ Head(Code) = Lock(Serial),
         \/ running' = running
         \/ Head(Code)[1] = "switch" /\ running' = Head(Code)[2]
  PROVE  SerialInv'
  <1>1. /\ ~Calm(Tail(Code)) => Head(Code) \in {<<"flag", FALSE>>, Lock(Serial)}
        /\ Head(Code) = Lock(Serial) => Tail(Code) # <<>> /\ Head(Tail(Code)) = Unlock(Serial)
    BY CodeFacts, SerialTail, Zenon
  <1>2. ~Calm(Tail(Code)) => ~interrupts'
    <2>1. Head(Code) = Lock(Serial) => Head(Code)[1] = "lock" /\ ~Calm(Code)
      BY OpFacts DEF Calm
    <2> QED BY <1>1, <2>1, Zenon DEF SerialInv
  <1>3. running \in Thread /\ threads \subseteq Thread
    BY DEF TypeOK
  <1>4. Head(Code)[1] = "switch" => Calm(Tail(Code))
    <2>1. Head(Code)[1] = "switch" => Head(Code) \notin {<<"flag", FALSE>>, Lock(Serial)}
      BY OpFacts, ZenonT(120)
    <2> QED BY <1>1, <2>1, Zenon
  <1>5. ASSUME NEW t \in Thread, t # running' \/ handler' # <<>> PROVE Calm(program'[t])
    <2>1. CASE handler # <<>>
      BY <2>1, AdvanceFacts DEF SerialInv
    <2>2. CASE handler = <<>> /\ t = running
      BY <1>4, <1>5, <2>2, AdvanceFacts, Zenon
    <2>3. CASE handler = <<>> /\ t # running
      BY <2>3, AdvanceFacts DEF SerialInv
    <2> QED BY <2>1, <2>2, <2>3
  <1>6. \/ Code' = Tail(Code)
        \/ Calm(Code') /\ (Tail(Code) = <<>> \/ Head(Code)[1] = "switch")
    <2>1. CASE handler # <<>>
      <3>1. running' = running
        BY <2>1, CodeFacts
      <3> QED BY <1>3, <2>1, <3>1, AdvanceFacts DEF Code, SerialInv
    <2>2. CASE handler = <<>> /\ running' = running
      BY <2>2, AdvanceFacts DEF Code
    <2>3. CASE handler = <<>> /\ running' # running
      <3>1. running' \in Thread \ {running} /\ Head(Code)[1] = "switch"
        BY <1>3, <2>3, CodeFacts
      <3> QED BY <2>3, <3>1, AdvanceFacts, SMTT(60) DEF Code, SerialInv
    <2> QED BY <2>1, <2>2, <2>3, SMTT(60)
  <1>7. ~Calm(Code') => ~interrupts'
    BY <1>2, <1>6, Zenon
  <1>8. ASSUME holder'[Serial] # Free PROVE Code' # <<>> /\ Head(Code') = Unlock(Serial)
    <2>1. Head(Code) = Lock(Serial)
      BY <1>8 DEF SerialInv
    <2>2. Head(Code)[1] # "switch" /\ Tail(Code) # <<>>
      BY <1>1, <2>1, OpFacts, ZenonT(120)
    <2> QED BY <1>1, <1>6, <2>1, <2>2, Zenon
  <1> QED BY <1>5, <1>7, <1>8 DEF SerialInv

(* The flag stays off inside without_interrupts.                           *)
LEMMA StepMask ==
  ASSUME TypeOK, CodeInv, MaskInv, Code # <<>>, Advance,
         Head(Code) = Mask => ~interrupts',
         Head(Code)[1] \in {"flag", "unmask", "mask"} \/ interrupts' = interrupts,
         running' = running, saved' = saved, fresh' \subseteq fresh \cup (Thread \ threads)
  PROVE  MaskInv'
  <1>1. InsideMask(Tail(Code)) => /\ Head(Code)[1] \notin {"flag", "unmask"}
                                  /\ Head(Code) = Mask \/ InsideMask(Code)
    BY CodeFacts, InsideMaskTail
  <1>2. running \in Thread /\ Head(Code) \in Op
    BY CodeFacts
  <1>3. ASSUME InsideMask(program'[running]) PROVE ~interrupts' /\ handler' = <<>>
    <2>1. handler = <<>> /\ handler' = <<>> /\ Code = program[running] /\ program'[running] = Tail(Code)
      BY <1>3, AdvanceFacts, Zenon DEF MaskInv
    <2>2. Head(Code) = Mask \/ (InsideMask(Code) /\ interrupts' = interrupts)
      BY <1>1, <1>2, <1>3, <2>1, OpCases
    <2> QED BY <2>1, <2>2 DEF MaskInv
  <1>4. ASSUME NEW t \in Thread \ {running}, InsideMask(program'[t])
        PROVE  ~saved[t] /\ t \notin fresh'
    <2>1. program'[t] = program[t]
      BY AdvanceFacts
    <2>2. program[t] # <<>>
      BY <1>4, <2>1, EmptyCode
    <2>3. t \in threads
      BY <2>2 DEF CodeInv
    <2> QED BY <1>4, <2>1, <2>3 DEF MaskInv
  <1> QED BY <1>3, <1>4 DEF MaskInv

(* A switch out of without_interrupts saves the flag off, and a switch     *)
(* into it turns it off.                                                   *)
LEMMA SwitchMask ==
  ASSUME TypeOK, CodeInv, MaskInv, switch_context
  PROVE  MaskInv'
  <1>1. /\ Code # <<>> /\ Head(Code)[1] = "switch" /\ Advance
        /\ saved' = [saved EXCEPT ![running] = interrupts]
        /\ interrupts' = (running' \in fresh \/ saved[running'])
        /\ fresh' = fresh \ {running'}
    BY DEF switch_context, At
  <1>2. /\ handler = <<>> /\ running' \in Thread \ {running} /\ running \in Thread
        /\ Rest(Code)
    BY <1>1, CodeFacts, Zenon DEF switch_context, TypeOK
  <1>3. /\ Code = program[running] /\ handler' = <<>> /\ program'[running] = Tail(Code)
        /\ \A t \in Thread \ {running} : program'[t] = program[t]
    BY <1>1, <1>2, AdvanceFacts, Zenon
  <1>4. InsideMask(Tail(Code)) => InsideMask(Code)
    BY <1>1, <1>2, InsideMaskTail, OpFacts
  <1>5. running \notin fresh /\ saved'[running] = interrupts
        /\ \A t \in Thread \ {running} : saved'[t] = saved[t]
    BY <1>1, <1>2 DEF TypeOK
  <1>6. InsideMask(program'[running']) => ~interrupts' /\ handler' = <<>>
    BY <1>1, <1>2, <1>3, Zenon DEF MaskInv
  <1>7. ASSUME NEW t \in Thread \ {running'}, InsideMask(program'[t])
        PROVE  ~saved'[t] /\ t \notin fresh'
    <2>1. CASE t = running
      <3>1. InsideMask(Code)
        BY <1>3, <1>4, <1>7, <2>1
      <3>2. ~interrupts
        BY <1>3, <3>1 DEF MaskInv
      <3> QED BY <1>1, <1>5, <2>1, <3>2
    <2>2. CASE t # running
      BY <1>1, <1>3, <1>5, <1>7, <2>2 DEF MaskInv
    <2> QED BY <2>1, <2>2
  <1> QED BY <1>6, <1>7 DEF MaskInv

(* A call or a round of the desktop starts; nothing is held then.          *)
LEMMA EntryInv ==
  ASSUME Inv, syscall_entry \/ desktop_loop
  PROVE  Inv'
  <1>1. /\ TypeOK /\ CodeInv /\ HoldInv /\ SerialInv /\ MaskInv
        /\ running \in Thread /\ running \in threads /\ running \notin fresh
    BY DEF Inv, TypeOK
  <1>2. /\ program[running] = <<>> /\ handler = <<>> /\ Code = <<>>
        /\ interrupts' \in BOOLEAN
        /\ UNCHANGED <<handler, running, threads, fresh, saved, holder, waiters, registered>>
    BY <1>1, Zenon DEF syscall_entry, desktop_loop, Code, TypeOK
  <1>3. PICK p : program' = [program EXCEPT ![running] = p] /\ Part(p, threads \ {running})
    <2>1. CASE syscall_entry
      <3>1. PICK p \in Syscalls : program' = [program EXCEPT ![running] = p]
        BY <2>1, ZenonT(40) DEF syscall_entry
      <3> QED BY <1>1, <3>1, SyscallPart, Zenon DEF TypeOK
    <2>2. CASE desktop_loop
      <3>1. PICK p \in run_desktop_environment : program' = [program EXCEPT ![running] = p]
        BY <2>2, ZenonT(40) DEF desktop_loop
      <3>2. Part(p, {})
        BY <1>1, HandlerPart DEF TypeOK
      <3> QED BY <3>1, <3>2, PieceWider, ZenonT(40) DEF Part
    <2> QED BY <2>1, <2>2
  <1>4. /\ Rest(p) /\ Calm(p) /\ ~InsideMask(p) /\ p \in Seq(Op)
        /\ \A l \in LockName : ~Inside(p, l)
        /\ \A i \in 1..Len(p) : p[i][1] = "switch" => p[i][2] \in threads \ {running}
    BY <1>3, PieceRest, ZenonT(40) DEF Part, Piece
  <1>5. /\ program' \in [Thread -> Seq(Op)] /\ program'[running] = p
        /\ \A t \in Thread \ {running} : program'[t] = program[t]
    BY <1>1, <1>3, <1>4, Zenon DEF TypeOK
  <1>6. TypeOK'
    BY <1>1, <1>2, <1>5, SMTT(30) DEF TypeOK
  <1>7. CodeInv'
    <2>1. ASSUME NEW t \in Thread
          PROVE  /\ Rest(program'[t])
                 /\ \A i \in 1..Len(program'[t]) :
                      program'[t][i][1] = "switch" => program'[t][i][2] \in threads \ {t}
                 /\ t \in fresh \/ t \notin threads => program'[t] = <<>>
      <3>1. CASE t = running
        BY <1>1, <1>4, <1>5, <3>1, Zenon
      <3>2. CASE t # running
        BY <1>1, <1>5, <3>2 DEF CodeInv
      <3> QED BY <3>1, <3>2, SMTT(90)
    <2> QED BY <1>1, <1>2, <2>1, Zenon DEF CodeInv
  <1>8. HoldInv'
    <2>1. \A l \in LockName : holder[l] # running /\ holder[l] # Isr
      BY <1>1, <1>2, EmptyCode DEF HoldInv
    <2> QED BY <1>1, <1>2, <1>5, <2>1, Zenon DEF HoldInv
  <1>9. SerialInv'
    <2>1. Code' = p /\ holder'[Serial] = Free
      BY <1>1, <1>2, <1>5 DEF SerialInv, Code
    <2> QED BY <1>1, <1>2, <1>4, <1>5, <2>1, Zenon DEF SerialInv
  <1>10. MaskInv'
    BY <1>1, <1>2, <1>4, <1>5, Zenon DEF MaskInv
  <1> QED BY <1>6, <1>7, <1>8, <1>9, <1>10 DEF Inv

(* An interrupt comes, so the thread is not inside without_interrupts and  *)
(* not at the serial port's lock.                                          *)
LEMMA InterruptInv ==
  ASSUME Inv, interrupt
  PROVE  Inv'
  <1>1. /\ TypeOK /\ CodeInv /\ HoldInv /\ SerialInv /\ MaskInv /\ running \in Thread
    BY DEF Inv, TypeOK
  <1>2. /\ interrupts /\ ~interrupts' /\ handler = <<>> /\ Code = program[running]
        /\ UNCHANGED <<program, running, threads, fresh, saved, holder, waiters, registered>>
    BY SMTT(30) DEF interrupt, Code
  <1>3. Part(handler', {})
    <2>1. PICK h \in UNION {timer_interrupt_handler, keyboard_interrupt_handler,
                            mouse_interrupt_handler} : handler' = h \o sti
      BY SMTT(30) DEF interrupt
    <2> QED BY <1>1, <2>1, HandlerPart, SMTT(30) DEF TypeOK
  <1>4. /\ Rest(handler') /\ Calm(handler') /\ handler' \in Seq(Op)
        /\ \A i \in 1..Len(handler') : handler'[i][1] = "switch" => handler'[i][2] \in {}
    BY <1>3, PieceRest, ZenonT(40) DEF Part, Piece
  <1>5. Calm(program[running]) /\ ~InsideMask(program[running]) /\ holder[Serial] = Free
    BY <1>1, <1>2, Zenon DEF SerialInv, MaskInv, Calm
  <1>6. TypeOK'
    <2>1. interrupts' \in BOOLEAN
      BY Zenon DEF interrupt
    <2> QED BY <1>1, <1>2, <1>4, <2>1, Zenon DEF TypeOK
  <1>7. CodeInv'
    BY <1>1, <1>2, <1>4, Zenon DEF CodeInv
  <1>8. HoldInv'
    <2>1. \A l \in LockName : holder[l] # Isr
      BY <1>1, <1>2, EmptyCode DEF HoldInv
    <2> QED BY <1>1, <1>2, <2>1, Zenon DEF HoldInv
  <1>9. SerialInv'
    <2>1. \A t \in Thread : Calm(program[t])
      BY <1>1, <1>5, Zenon DEF SerialInv
    <2> QED BY <1>2, <1>5, <2>1, SMTT(30) DEF SerialInv
  <1>10. MaskInv'
    BY <1>1, <1>2, <1>5 DEF MaskInv
  <1> QED BY <1>6, <1>7, <1>8, <1>9, <1>10 DEF Inv

(* Every operation of the code keeps the invariant.                        *)
LEMMA OperationInv ==
  ASSUME Inv, lock \/ unlock \/ set_flag \/ without_interrupts \/ switch_context \/ update
  PROVE  Inv'
  <1> DEFINE op == Head(Code)
  <1>1. /\ TypeOK /\ CodeInv /\ HoldInv /\ SerialInv /\ MaskInv
        /\ running \in Thread /\ running \in threads /\ Serial \in LockName
    BY Zenon DEF Inv, TypeOK, Serial, LockName
  <1>2. Code # <<>> /\ Advance
    BY Zenon DEF lock, unlock, set_flag, without_interrupts, switch_context, update, At
  <1>3. /\ program' \in [Thread -> Seq(Op)] /\ handler' \in Seq(Op) /\ op \in Op
        /\ Executor \in Thread \cup {Isr}
    BY <1>1, <1>2, AdvanceFacts, CodeFacts
  <1> HIDE DEF op
  <1>4. CASE lock
    <2>1. /\ op[1] = "lock" /\ op[2] \in LockName /\ op = Lock(op[2])
          /\ holder' = [holder EXCEPT ![op[2]] = Executor]
          /\ UNCHANGED <<running, threads, fresh, interrupts, saved, waiters, registered>>
      BY <1>3, <1>4, OpCases, Zenon DEF lock, At, op
    <2>2. \A l \in LockName : \/ holder'[l] = holder[l] /\ op # Unlock(l)
                              \/ holder'[l] = Executor /\ op = Lock(l)
      BY <1>1, <2>1, OpFacts, ZenonT(120) DEF TypeOK
    <2>3. op # <<"flag", FALSE>> /\ op # Mask
      BY <2>1, OpFacts, ZenonT(120)
    <2>4. TypeOK'
      BY <1>1, <1>3, <2>1 DEF TypeOK
    <2>5. CodeInv'
      BY <1>1, <1>2, <2>1, StepCode
    <2>6. HoldInv'
      BY <1>1, <1>2, <2>1, <2>2, StepHold, Zenon DEF op
    <2>7. SerialInv'
      BY <1>1, <1>2, <2>1, <2>2, <2>3, StepSerial, ZenonT(40) DEF op
    <2>8. MaskInv'
      BY <1>1, <1>2, <2>1, <2>3, StepMask DEF op
    <2> QED BY <2>4, <2>5, <2>6, <2>7, <2>8, SMTT(30) DEF Inv
  <1>5. CASE unlock
    <2>1. /\ op[1] = "unlock" /\ op[2] \in LockName /\ op = Unlock(op[2])
          /\ holder' = [holder EXCEPT ![op[2]] = Free]
          /\ UNCHANGED <<running, threads, fresh, interrupts, saved, waiters, registered>>
      BY <1>3, <1>5, OpCases, Zenon DEF unlock, At, op
    <2>2. \A l \in LockName : \/ holder'[l] = holder[l] /\ op # Unlock(l)
                              \/ holder'[l] = Free
      BY <1>1, <2>1, OpFacts, SMTT(30) DEF TypeOK
    <2>3. op # <<"flag", FALSE>> /\ op # Mask
      BY <2>1, OpFacts, ZenonT(120)
    <2>4. TypeOK'
      BY <1>1, <1>3, <2>1, Zenon DEF TypeOK
    <2>5. CodeInv'
      BY <1>1, <1>2, <2>1, StepCode
    <2>6. HoldInv'
      BY <1>1, <1>2, <2>1, <2>2, StepHold, Zenon DEF op
    <2>7. SerialInv'
      BY <1>1, <1>2, <2>1, <2>2, <2>3, StepSerial, ZenonT(40) DEF op
    <2>8. MaskInv'
      BY <1>1, <1>2, <2>1, <2>3, StepMask DEF op
    <2> QED BY <2>4, <2>5, <2>6, <2>7, <2>8 DEF Inv
  <1>6. ASSUME op[1] \notin {"lock", "unlock"}, holder' = holder
        PROVE  \A l \in LockName : holder'[l] = holder[l] /\ op # Unlock(l)
    BY <1>6, OpFacts, SMTT(30)
  <1>7. CASE set_flag
    <2>1. /\ op[1] = "flag" /\ op[2] \in BOOLEAN /\ interrupts' = op[2]
          /\ UNCHANGED <<running, threads, fresh, saved, holder, waiters, registered>>
      BY <1>3, <1>7, OpCases, Zenon DEF set_flag, At, op
    <2>2. op = <<"flag", FALSE>> => ~interrupts'
      BY <2>1, OpFacts, ZenonT(120)
    <2>3. op # Mask
      BY <2>1, OpFacts, Zenon
    <2>4. TypeOK'
      BY <1>1, <1>3, <2>1, Zenon DEF TypeOK
    <2>5. CodeInv'
      BY <1>1, <1>2, <2>1, StepCode
    <2>6. HoldInv'
      BY <1>1, <1>2, <1>6, <2>1, StepHold DEF op
    <2>7. SerialInv'
      BY <1>1, <1>2, <1>6, <2>1, <2>2, StepSerial, ZenonT(40) DEF op
    <2>8. MaskInv'
      BY <1>1, <1>2, <2>1, <2>3, StepMask DEF op
    <2> QED BY <2>4, <2>5, <2>6, <2>7, <2>8 DEF Inv
  <1>8. CASE without_interrupts
    <2>1. /\ op[1] \in {"mask", "unmask"} /\ interrupts' \in BOOLEAN
          /\ op[1] = "mask" => ~interrupts'
          /\ UNCHANGED <<running, threads, fresh, saved, holder, waiters, registered>>
      BY <1>8, ZenonT(40) DEF without_interrupts, At, op
    <2>2. op # <<"flag", FALSE>> /\ (op = Mask => ~interrupts')
      BY <2>1, OpFacts, ZenonT(120)
    <2>4. TypeOK'
      BY <1>1, <1>3, <2>1, Zenon DEF TypeOK
    <2>5. CodeInv'
      BY <1>1, <1>2, <2>1, StepCode
    <2>6. HoldInv'
      BY <1>1, <1>2, <1>6, <2>1, StepHold DEF op
    <2>7. SerialInv'
      BY <1>1, <1>2, <1>6, <2>1, <2>2, StepSerial, Zenon DEF op
    <2>8. MaskInv'
      BY <1>1, <1>2, <2>1, <2>2, StepMask DEF op
    <2> QED BY <2>4, <2>5, <2>6, <2>7, <2>8 DEF Inv
  <1>9. CASE switch_context
    <2>1. /\ op[1] = "switch" /\ running' = op[2] /\ op[2] \in threads \ {running}
          /\ saved' = [saved EXCEPT ![running] = interrupts]
          /\ interrupts' = (running' \in fresh \/ saved[running'])
          /\ fresh' = fresh \ {running'}
          /\ UNCHANGED <<threads, holder, waiters, registered>>
      BY <1>1, <1>2, <1>9, CodeFacts, Zenon DEF switch_context, At, op
    <2>2. op # <<"flag", FALSE>>
      BY <2>1, OpFacts, ZenonT(120)
    <2>3. saved' \in [Thread -> BOOLEAN] /\ interrupts' \in BOOLEAN
      BY <1>1, <2>1 DEF TypeOK
    <2>4. TypeOK'
      BY <1>1, <1>3, <2>1, <2>3, Zenon DEF TypeOK
    <2>5. CodeInv'
      BY <1>1, <1>2, <2>1, StepCode, SMTT(30)
    <2>6. HoldInv'
      BY <1>1, <1>2, <1>6, <2>1, StepHold, Zenon DEF op
    <2>7. SerialInv'
      BY <1>1, <1>2, <1>6, <2>1, <2>2, StepSerial, ZenonT(40) DEF op
    <2>8. MaskInv'
      BY <1>1, <1>9, SwitchMask, SMTT(30)
    <2> QED BY <2>4, <2>5, <2>6, <2>7, <2>8 DEF Inv
  <1>10. CASE update
    <2>1. /\ op[1] \in {"insert", "remove", "register", "create"}
          /\ UNCHANGED <<running, interrupts, saved, holder>>
      BY <1>10, Zenon DEF update, At, op
    <2>2. threads \subseteq threads' /\ threads' \subseteq Thread
          /\ fresh' \subseteq fresh \cup (Thread \ threads)
          /\ fresh' \subseteq threads' \ {running} /\ InitThread \notin fresh'
      <3>1. CASE UNCHANGED <<threads, fresh>>
        BY <1>1, <3>1 DEF TypeOK
      <3>2. ASSUME NEW t \in {t \in Thread : t > InitThread /\ t - 1 \in threads} \ threads,
                   threads' = threads \cup {t}, fresh' = fresh \cup {t}
            PROVE  /\ threads \subseteq threads' /\ threads' \subseteq Thread
                   /\ fresh' \subseteq fresh \cup (Thread \ threads)
                   /\ fresh' \subseteq threads' \ {running} /\ InitThread \notin fresh'
        <4>1. t # InitThread /\ t # running /\ t \in Thread
          BY <1>1, <3>2, ConstantsAssumption, SMTT(30) DEF InitThread, Thread, Desktop
        <4> QED BY <1>1, <3>2, <4>1, SMTT(30) DEF TypeOK
      <3> QED BY <1>10, <3>1, <3>2, Zenon DEF update
    <2>3. waiters' \subseteq Thread /\ registered' \in BOOLEAN
      BY <1>1, <1>10, Zenon DEF update, TypeOK
    <2>3a. op # <<"flag", FALSE>> /\ op # Mask
      BY <2>1, OpFacts, ZenonT(120)
    <2>4. TypeOK'
      BY <1>1, <1>3, <2>1, <2>2, <2>3, SMTT(60) DEF TypeOK
    <2>5. CodeInv'
      BY <1>1, <1>2, <2>2, StepCode
    <2>6. HoldInv'
      BY <1>1, <1>2, <1>6, <2>1, StepHold DEF op
    <2>7. SerialInv'
      BY <1>1, <1>2, <1>6, <2>1, <2>3a, StepSerial, Zenon DEF op
    <2>8. MaskInv'
      BY <1>1, <1>2, <2>1, <2>2, <2>3a, StepMask DEF op
    <2> QED BY <2>4, <2>5, <2>6, <2>7, <2>8 DEF Inv
  <1> QED BY <1>4, <1>5, <1>7, <1>8, <1>9, <1>10

(* Every step keeps the invariant.                                         *)
LEMMA NextInv == Inv /\ [Next]_vars => Inv'
  <1> SUFFICES ASSUME Inv, [Next]_vars PROVE Inv'
    OBVIOUS
  <1>1. CASE Next
    BY <1>1, EntryInv, InterruptInv, OperationInv, SMTT(30) DEF Next
  <1>2. CASE UNCHANGED vars
    BY <1>2, Zenon DEF vars, Inv, TypeOK, CodeInv, HoldInv, SerialInv, MaskInv, Code
  <1> QED BY <1>1, <1>2

(* The invariant holds however the threads and the interrupts interleave,  *)
(* for any number of threads (sched.rs, ipc.rs, syscall.rs, serial.rs).    *)
THEOREM LocksInvariant == Spec => []Inv
  BY InitInv, NextInv, PTL DEF Spec

---------------------------------------------------------------------------
(* The theorems                                                            *)

(* No call and no handler ever finds SERIAL1 taken (serial.rs:30): the     *)
(* lock is only held by who is about to release it.                        *)
THEOREM SerialLockFree == Spec => []PrintNeverSpins
  <1>1. Inv => PrintNeverSpins
    <2> SUFFICES ASSUME Inv, At("lock"), Head(Code)[2] = Serial, holder[Serial] # Free
                 PROVE  FALSE
      BY DEF PrintNeverSpins, SpinsOn, Serial
    <2>1. Head(Code) = Unlock(Serial) /\ Head(Code)[1] = "lock"
      BY SMTT(30) DEF Inv, SerialInv, At
    <2> QED BY <2>1, OpFacts
  <1> QED BY <1>1, LocksInvariant, PTL

(* A thread that was switched out by perform_context_switch holds at most  *)
(* THREAD_LIST, and a thread outside the kernel holds no lock.             *)
THEOREM OnlyThreadListAcrossSwitch == Spec => []SuspendedHoldsOnlyThreadList
  <1>1. Inv => SuspendedHoldsOnlyThreadList
    <2> SUFFICES ASSUME Inv, NEW t \in threads, t # running \/ program[t] = <<>>,
                        NEW l \in LockName, holder[l] = t
                 PROVE  l = "threads" /\ program[t] # <<>>
      BY SMTT(30) DEF SuspendedHoldsOnlyThreadList
    <2>1. t \in Thread /\ HoldInv
      BY DEF Inv, TypeOK
    <2>2. Inside(program[t], l)
      BY <2>1 DEF HoldInv
    <2>3. program[t] # <<>>
      BY <2>2, EmptyCode
    <2> QED BY <2>1, <2>2, <2>3 DEF HoldInv
  <1> QED BY <1>1, LocksInvariant, PTL

(* No handler runs inside without_interrupts (util.rs), though threads     *)
(* switch in and out of it.                                                *)
THEOREM NoHandlerInMaskedSection == Spec => []MaskedSectionUninterrupted
  <1>1. Inv => MaskedSectionUninterrupted
    <2> SUFFICES ASSUME Inv, Unmask \in Range(program[running]), Mask \notin Range(program[running])
                 PROVE  handler = <<>>
      BY DEF MaskedSectionUninterrupted, Mask, Unmask
    <2> DEFINE c == program[running]
    <2>1. c \in Seq(Op)
      BY DEF Inv, TypeOK
    <2> HIDE DEF c
    <2>2. DOMAIN c = 1..Len(c) /\ Len(c) \in Nat
      BY <2>1
    <2>3. PICK j \in 1..Len(c) : c[j] = Unmask
      BY <2>2 DEF Range, c
    <2>4. \A k \in 1..(j - 1) : c[k] # Mask
      BY <2>2 DEF Range, c
    <2>5. InsideMask(c)
      BY <2>3, <2>4 DEF InsideMask
    <2> QED BY <2>5, SMTT(60) DEF Inv, MaskInv, c
  <1> QED BY <1>1, LocksInvariant, PTL

===========================================================================
