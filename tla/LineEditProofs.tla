--------------------------- MODULE LineEditProofs ---------------------------
(***************************************************************************)
(* The terminal's line and history keep their invariants for every length  *)
(* of line, size of history and number of commands.                        *)
(***************************************************************************)
EXTENDS Terminal, SeqLemmas, TLAPS

InputOK(b) ==
    /\ b \in [buffer : [Cells -> Chars \cup {NUL}], len : 0 .. Limit, cursor : 0 .. Limit]
    /\ b.cursor <= b.len
    /\ \A i \in Cells : i < b.len => b.buffer[i] \in Chars

HistoryOK(h) ==
    /\ h \in [entries : [Slots -> Seq(Chars)], count : Nat, index : Nat]
    /\ h.index <= h.count

(* Every command in the history fits into the line: recalling one loses    *)
(* nothing.                                                                *)
Fits ==
    /\ pushed \in Seq(Seq(Chars))
    /\ \A i \in DOMAIN pushed : Len(pushed[i]) <= Limit

LineInv == InputOK(input) /\ HistoryOK(history) /\ pristine \in BOOLEAN /\ Fits
           /\ RingHoldsLatest /\ RecallsCommand

(* The bounds of the line and of the history.                              *)
LEMMA LimitFacts == Limit \in Nat /\ Cells = 0 .. Limit /\ CAPACITY \in Nat \ {0}
  <1>1. MAX_LINE_LENGTH \in Nat \ {0} /\ CAPACITY \in Nat \ {0}
    BY LineAssumption, Zenon
  <1> QED  BY <1>1 DEF Limit, Cells

---------------------------------------------------------------------------
(* The operations of InputBuffer keep a line a line.                       *)
LEMMA InsertOK ==
  ASSUME NEW b, InputOK(b), NEW ch \in Chars
  PROVE  InputOK(insert(b, ch))
  <1>1. CASE b.len >= Limit
    BY <1>1 DEF insert
  <1>2. CASE ~(b.len >= Limit)
    <2> DEFINE new == [i \in Cells |-> CASE i < b.cursor \/ i > b.len -> b.buffer[i]
                                         [] i = b.cursor -> ch
                                         [] OTHER -> b.buffer[i - 1]]
    <2>1. insert(b, ch) = [buffer |-> new, len |-> b.len + 1, cursor |-> b.cursor + 1]
      BY <1>2 DEF insert
    <2>2. b.len \in 0 .. Limit - 1 /\ b.cursor \in 0 .. b.len /\ Limit \in Nat
      BY <1>2, LimitFacts DEF InputOK
    <2>3. ASSUME NEW i \in Cells
          PROVE  new[i] \in Chars \cup {NUL} /\ (i < b.len + 1 => new[i] \in Chars)
      <3>1. CASE i < b.cursor \/ i > b.len
        <4>1. new[i] = b.buffer[i]
          BY <2>2, <3>1, LimitFacts
        <4> QED  BY <2>2, <3>1, <4>1, LimitFacts DEF InputOK
      <3>2. CASE i = b.cursor
        BY <2>2, <3>2, LimitFacts
      <3>3. CASE ~(i < b.cursor \/ i > b.len) /\ i # b.cursor
        <4>1. new[i] = b.buffer[i - 1] /\ i - 1 \in Cells /\ i - 1 < b.len
          BY <2>2, <3>3, LimitFacts
        <4> QED  BY <4>1 DEF InputOK
      <3> QED  BY <3>1, <3>2, <3>3
    <2> HIDE DEF new
    <2>4. new \in [Cells -> Chars \cup {NUL}]
      BY <2>3 DEF new
    <2> QED  BY <2>1, <2>2, <2>3, <2>4 DEF InputOK
  <1> QED  BY <1>1, <1>2

(* The character before the cursor goes.                                   *)
LEMMA BackspaceOK ==
  ASSUME NEW b, InputOK(b)
  PROVE  InputOK(backspace(b))
  BY LimitFacts DEF InputOK, backspace

(* The character at the cursor goes.                                       *)
LEMMA DeleteOK ==
  ASSUME NEW b, InputOK(b)
  PROVE  InputOK(delete(b))
  <1>1. CASE b.cursor >= b.len
    BY <1>1 DEF delete
  <1>2. CASE ~(b.cursor >= b.len)
    <2> DEFINE new == [i \in Cells |-> IF i >= b.cursor /\ i + 1 < b.len
                                       THEN b.buffer[i + 1] ELSE b.buffer[i]]
    <2>1. delete(b) = [buffer |-> new, len |-> b.len - 1, cursor |-> b.cursor]
      BY <1>2, Zenon DEF delete, InputOK
    <2>2. /\ b.len \in 1 .. Limit /\ b.cursor \in 0 .. b.len - 1
          /\ b.buffer \in [Cells -> Chars \cup {NUL}]
          /\ \A i \in Cells : i < b.len => b.buffer[i] \in Chars
      BY <1>2, LimitFacts DEF InputOK
    <2>3. new \in [Cells -> Chars \cup {NUL}] /\ \A i \in Cells : i < b.len - 1 => new[i] \in Chars
      BY <2>2, LimitFacts
    <2> HIDE DEF new
    <2> QED  BY <2>1, <2>2, <2>3, LimitFacts DEF InputOK
  <1> QED  BY <1>1, <1>2

(* The keys that move the cursor or cut the line off.                      *)
LEMMA MovesOK ==
  ASSUME NEW b, InputOK(b)
  PROVE  /\ InputOK(cursor_left(b)) /\ InputOK(cursor_right(b))
         /\ InputOK(cursor_home(b)) /\ InputOK(cursor_end(b))
         /\ InputOK(clear(b)) /\ InputOK(kill_to_end(b))
  <1>1. InputOK(cursor_left(b)) /\ InputOK(cursor_right(b))
    <2>1. ASSUME NEW c \in 0 .. b.len PROVE InputOK([b EXCEPT !.cursor = c])
      BY LimitFacts DEF InputOK
    <2>2. b.len \in Nat /\ b.cursor \in 0 .. b.len
      BY LimitFacts DEF InputOK
    <2>3. b.cursor > 0 => b.cursor - 1 \in 0 .. b.len
      BY <2>2
    <2>4. b.cursor < b.len => b.cursor + 1 \in 0 .. b.len
      BY <2>2
    <2> QED  BY <2>1, <2>3, <2>4 DEF cursor_left, cursor_right
  <1>2. InputOK(cursor_home(b)) /\ InputOK(cursor_end(b))
    BY LimitFacts DEF InputOK, cursor_home, cursor_end
  <1>3. InputOK(clear(b)) /\ InputOK(kill_to_end(b))
    <2>1. clear(b) = [buffer |-> b.buffer, len |-> 0, cursor |-> 0]
      <3> DEFINE c == [b EXCEPT !.len = 0]
      <3>1. c = [buffer |-> b.buffer, len |-> 0, cursor |-> b.cursor]
        BY DEF InputOK
      <3>2. clear(b) = [c EXCEPT !.cursor = 0]
        BY DEF InputOK, clear
      <3> HIDE DEF c
      <3> QED  BY <3>1, <3>2
    <2>2. kill_to_end(b) = [buffer |-> b.buffer, len |-> b.cursor, cursor |-> b.cursor]
      BY DEF InputOK, kill_to_end
    <2>3. b.cursor \in 0 .. Limit /\ b.len \in 0 .. Limit
      BY DEF InputOK
    <2> QED  BY <2>1, <2>2, <2>3, LimitFacts DEF InputOK
  <1> QED  BY <1>1, <1>2, <1>3

(* The text of a line is as long as the line.                              *)
LEMMA BytesFacts ==
  ASSUME NEW b, InputOK(b)
  PROVE  as_bytes(b) \in Seq(Chars) /\ Len(as_bytes(b)) = b.len /\ b.len <= Limit
  <1>1. b.len \in 0 .. Limit /\ Limit \in Nat
    BY LimitFacts DEF InputOK
  <1>2. \A i \in 1 .. b.len : b.buffer[i - 1] \in Chars
    BY <1>1, LimitFacts DEF InputOK
  <1> QED  BY <1>1, <1>2 DEF as_bytes

(* A line set to a text that fits shows that text.                         *)
LEMMA SetFacts ==
  ASSUME NEW b, InputOK(b), NEW s \in Seq(Chars)
  PROVE  InputOK(set(b, s)) /\ (Len(s) <= Limit => as_bytes(set(b, s)) = s)
  <1> DEFINE n == IF Len(s) < Limit THEN Len(s) ELSE Limit
             new == [i \in Cells |-> IF i < n THEN s[i + 1] ELSE b.buffer[i]]
  <1>1. set(b, s) = [buffer |-> new, len |-> n, cursor |-> n]
    BY DEF set
  <1>2. n \in 0 .. Limit /\ n <= Len(s) /\ Limit \in Nat /\ (Len(s) <= Limit => n = Len(s))
    BY LimitFacts
  <1> HIDE DEF n
  <1>3. \A i \in Cells : i < n => new[i] = s[i + 1] /\ s[i + 1] \in Chars
    BY <1>2, LimitFacts
  <1>4. new \in [Cells -> Chars \cup {NUL}]
    BY <1>3, LimitFacts DEF InputOK
  <1>5. InputOK(set(b, s))
    BY <1>1, <1>2, <1>3, <1>4 DEF InputOK
  <1>6. ASSUME Len(s) <= Limit PROVE as_bytes(set(b, s)) = s
    <2>1. \A i \in 1 .. Len(s) : i - 1 \in Cells /\ i - 1 < n /\ new[i - 1] = s[i]
      BY <1>2, <1>3, <1>6, LimitFacts
    <2>2. as_bytes(set(b, s)) = [i \in 1 .. Len(s) |-> new[i - 1]]
      BY <1>1, <1>2, <1>6 DEF as_bytes
    <2>3. as_bytes(set(b, s)) = [i \in 1 .. Len(s) |-> s[i]]
      BY <2>1, <2>2, Zenon
    <2> QED  BY <2>3
  <1> QED  BY <1>5, <1>6

---------------------------------------------------------------------------
(* The history: what get_current finds.                                    *)
LEMMA CurrentFacts ==
  ASSUME NEW h, HistoryOK(h), NEW s \in get_current(h)
  PROVE  /\ h.index \in start(h) .. h.count - 1
         /\ s = h.entries[h.index % CAPACITY] /\ s \in Seq(Chars)
  <1>1. /\ h.index < h.count /\ h.index >= start(h) /\ s = h.entries[h.index % CAPACITY]
        /\ h.index \in Nat /\ h.count \in Nat /\ start(h) \in Nat
    BY LimitFacts DEF get_current, HistoryOK, start
  <1>2. h.index % CAPACITY \in Slots
    BY <1>1, LimitFacts, ModSplit, Zenon DEF Slots
  <1> QED  BY <1>1, <1>2 DEF HistoryOK

(* Moving the index keeps the history and the ring.                        *)
LEMMA MoveIndex ==
  ASSUME NEW h, HistoryOK(h), NEW i \in 0 .. h.count
  PROVE  /\ HistoryOK([h EXCEPT !.index = i])
         /\ [h EXCEPT !.index = i].entries = h.entries
         /\ [h EXCEPT !.index = i].count = h.count
         /\ [h EXCEPT !.index = i].index = i
         /\ start([h EXCEPT !.index = i]) = start(h)
  BY DEF HistoryOK, start

(* push adds a command at the slot its number falls into, and the slots of *)
(* the commands still within reach are others.                             *)
LEMMA PushFacts ==
  ASSUME LineInv, NEW cmd \in Seq(Chars), Len(cmd) <= Limit,
         history' = push(history, cmd),
         pushed' = IF is_new(history, cmd) THEN Append(pushed, cmd) ELSE pushed
  PROVE  HistoryOK(history') /\ Fits' /\ RingHoldsLatest'
  <1> DEFINE n == history.count
  <1>1. /\ HistoryOK(history) /\ n \in Nat /\ Fits /\ RingHoldsLatest /\ CAPACITY \in Nat \ {0}
        /\ Len(pushed) = n /\ pushed \in Seq(Seq(Chars))
    BY LimitFacts DEF LineInv, HistoryOK, RingHoldsLatest, Fits
  <1>2. CASE cmd = <<>>
    BY <1>1, <1>2 DEF push, is_new, Fits, RingHoldsLatest
  <1>3. CASE cmd # <<>> /\ ~is_new(history, cmd)
    <2>1. history' = [history EXCEPT !.index = n] /\ pushed' = pushed /\ n \in 0 .. n
      BY <1>1, <1>3 DEF push, reset_navigation
    <2>2. /\ HistoryOK(history') /\ history'.entries = history.entries
          /\ history'.count = n /\ start(history') = start(history)
      BY <1>1, <2>1, MoveIndex
    <2> QED  BY <1>1, <2>1, <2>2, Zenon DEF Fits, RingHoldsLatest
  <1>4. CASE is_new(history, cmd)
    <2> DEFINE slot == n % CAPACITY
               new == [history.entries EXCEPT ![slot] = cmd]
    <2>1. slot \in Slots /\ history.entries \in [Slots -> Seq(Chars)]
      BY <1>1, ModSplit, Zenon DEF Slots, HistoryOK
    <2>2. history' = [entries |-> new, count |-> n + 1, index |-> n + 1]
      <3> DEFINE h == [history EXCEPT !.entries[slot] = cmd, !.count = @ + 1]
      <3>1. history' = [h EXCEPT !.index = h.count]
        BY <1>4 DEF push, reset_navigation, is_new
      <3>2. h = [entries |-> new, count |-> n + 1, index |-> history.index]
        <4> DEFINE g == [history EXCEPT !.entries = new]
        <4>1. g = [entries |-> new, count |-> n, index |-> history.index]
          <5>1. history = [entries |-> history.entries, count |-> n, index |-> history.index]
            BY <1>1, Zenon DEF HistoryOK
          <5> HIDE DEF new
          <5> QED  BY <5>1
        <4>2. h = [g EXCEPT !.count = @ + 1]
          BY <1>1, <2>1 DEF HistoryOK
        <4> HIDE DEF g, h, new
        <4> QED  BY <4>1, <4>2
      <3> HIDE DEF h
      <3> QED  BY <3>1, <3>2, Zenon
    <2>3. new \in [Slots -> Seq(Chars)] /\ new[slot] = cmd
          /\ \A k \in Slots : k # slot => new[k] = history.entries[k]
      BY <2>1
    <2> HIDE DEF new
    <2>4. HistoryOK(history')
      BY <1>1, <2>2, <2>3, SMTT(60) DEF HistoryOK
    <2>5. /\ pushed' \in Seq(Seq(Chars)) /\ Len(pushed') = n + 1 /\ pushed'[n + 1] = cmd
          /\ \A k \in 1 .. n : pushed'[k] = pushed[k]
      BY <1>1, <1>4
    <2>6. Fits'
      BY <1>1, <2>5, SMTT(60) DEF Fits
    <2>7. ASSUME NEW i \in start(history') .. n PROVE new[i % CAPACITY] = pushed'[i + 1]
      <3>0. history'.count = n + 1
        BY <2>2
      <3>1. start(history') = IF n + 1 <= CAPACITY THEN 0 ELSE n + 1 - CAPACITY
        <4> HIDE DEF n
        <4> QED  BY <3>0, <1>1 DEF start
      <3>2. CASE i = n
        BY <1>1, <2>3, <2>5, <3>2
      <3>3. CASE i # n
        <4>0. start(history') \in Nat
          BY <1>1, <3>1
        <4>1. i \in Nat /\ i < n /\ n - i < CAPACITY /\ i \in start(history) .. n - 1
          <5> HIDE DEF n
          <5>1. start(history) = IF n <= CAPACITY THEN 0 ELSE n - CAPACITY
            BY DEF start, n
          <5>2. i \in Nat /\ i < n /\ start(history') <= i
            BY <1>1, <3>3, <4>0
          <5> QED  BY <1>1, <3>1, <5>1, <5>2
        <4>2. i % CAPACITY # slot /\ i % CAPACITY \in Slots
          BY <1>1, <4>1, ModDistinct, ModSplit, Zenon DEF Slots
        <4>3. history.entries[i % CAPACITY] = pushed[i + 1] /\ i + 1 \in 1 .. n
          BY <1>1, <4>1 DEF RingHoldsLatest
        <4> QED  BY <2>3, <2>5, <4>2, <4>3, Zenon
      <3> QED  BY <3>2, <3>3, Zenon
    <2>8. history'.count = n + 1 /\ history'.entries = new
      BY <2>2
    <2>9. RingHoldsLatest'
      <3>1. history'.count = Len(pushed') /\ history'.count - 1 = n
        <4> HIDE DEF n
        <4> QED  BY <1>1, <2>5, <2>8
      <3>2. \A i \in start(history') .. n : history'.entries[i % CAPACITY] = pushed'[i + 1]
        BY <2>7, <2>8, Zenon
      <3> QED  BY <3>1, <3>2, Zenon DEF RingHoldsLatest
    <2> QED  BY <2>4, <2>6, <2>9
  <1> QED  BY <1>2, <1>3, <1>4 DEF is_new

---------------------------------------------------------------------------
(* An empty line and an empty history.                                     *)
LEMMA LineInitInv == LineInit => LineInv
  <1> SUFFICES ASSUME LineInit PROVE LineInv
    OBVIOUS
  <1>1. InputOK(input)
    BY LimitFacts DEF LineInit, InputOK
  <1>2. HistoryOK(history) /\ Fits
    BY LimitFacts DEF LineInit, HistoryOK, Fits
  <1>4. pristine \in BOOLEAN /\ RecallsCommand
    BY Zenon DEF LineInit, RecallsCommand
  <1>3. RingHoldsLatest
    BY LimitFacts DEF LineInit, RingHoldsLatest, start
  <1> QED  BY <1>1, <1>2, <1>3, <1>4 DEF LineInv

(* An edit of the line leaves the history alone, and forgets that the line *)
(* was recalled if it changes the text.                                    *)
LEMMA EditInv ==
  ASSUME LineInv, NEW b, InputOK(b), Edit(b)
  PROVE  LineInv'
  <1>1. /\ input' = b /\ pristine' = (pristine /\ as_bytes(b) = as_bytes(input))
        /\ history' = history /\ pushed' = pushed
    BY DEF Edit
  <1>2. InputOK(input') /\ HistoryOK(history') /\ Fits' /\ RingHoldsLatest'
    BY <1>1, Zenon DEF LineInv, Fits, RingHoldsLatest
  <1>3. pristine' \in BOOLEAN
    BY <1>1
  <1>4. RecallsCommand'
    BY <1>1, Zenon DEF LineInv, RecallsCommand
  <1> QED  BY <1>2, <1>3, <1>4 DEF LineInv

(* A recalled line is the command at the index.                            *)
LEMMA RecallInv ==
  ASSUME LineInv, NEW i \in 0 .. history.count,
         history' = [history EXCEPT !.index = i], pushed' = pushed,
         NEW s \in get_current(history'), input' = set(input, s), pristine' = TRUE
  PROVE  LineInv'
  <1>1. HistoryOK(history) /\ InputOK(input) /\ Fits /\ RingHoldsLatest
    BY DEF LineInv
  <1>2. /\ HistoryOK(history') /\ history'.entries = history.entries /\ history'.index = i
        /\ history'.count = history.count /\ start(history') = start(history)
    BY <1>1, MoveIndex
  <1>3. /\ i \in start(history) .. history.count - 1
        /\ s = history.entries[i % CAPACITY] /\ s \in Seq(Chars)
    BY <1>2, CurrentFacts, Zenon
  <1>4. s = pushed[i + 1] /\ i < Len(pushed) /\ i + 1 \in DOMAIN pushed
    <2>1. start(history) \in Nat /\ history.count \in Nat /\ history.count = Len(pushed)
      BY <1>1, LimitFacts DEF HistoryOK, start, RingHoldsLatest
    <2>2. history.entries[i % CAPACITY] = pushed[i + 1]
      BY <1>1, <1>3, Zenon DEF RingHoldsLatest
    <2>3. pushed \in Seq(Seq(Chars)) /\ i \in Nat /\ i < Len(pushed)
      BY <1>1, <1>3, <2>1 DEF Fits
    <2>4. i + 1 \in DOMAIN pushed
      BY <2>3
    <2> QED  BY <1>3, <2>2, <2>3, <2>4
  <1>5. InputOK(input') /\ as_bytes(input') = s
    BY <1>1, <1>3, <1>4, SetFacts DEF Fits
  <1>6. RingHoldsLatest' /\ Fits'
    BY <1>1, <1>2 DEF RingHoldsLatest, Fits
  <1>7. RecallsCommand'
    <2>1. ~(history'.index < start(history'))
      BY <1>2, <1>3, LimitFacts, SMTT(60) DEF HistoryOK, start
    <2> QED  BY <1>2, <1>4, <1>5, <2>1 DEF RecallsCommand
  <1> QED  BY <1>2, <1>5, <1>6, <1>7 DEF LineInv

(* ArrowUp: past the oldest command the index goes on down and the line    *)
(* stays the oldest command.                                               *)
LEMMA ArrowUpInv == LineInv /\ ArrowUp => LineInv'
  <1> SUFFICES ASSUME LineInv, ArrowUp PROVE LineInv'
    OBVIOUS
  <1>1. HistoryOK(history) /\ pushed' = pushed
    BY DEF LineInv, ArrowUp
  <1>2. CASE history.count = 0 \/ history.index = 0
    <2>1. history' = history /\ input' = input /\ pristine' = pristine
      BY <1>2 DEF ArrowUp, previous, previous_line
    <2> QED  BY <1>1, <2>1 DEF LineInv, Fits, RingHoldsLatest, RecallsCommand
  <1>3. CASE ~(history.count = 0 \/ history.index = 0)
    <2> DEFINE i == history.index - 1
    <2>1. /\ i \in 0 .. history.count /\ i < history.count /\ history.index \in Nat
          /\ history.count \in Nat /\ start(history) \in Nat
      BY <1>1, <1>3, LimitFacts DEF HistoryOK, start
    <2>2. history' = [history EXCEPT !.index = i] /\ previous_line(history) = get_current(history')
      BY <1>3 DEF ArrowUp, previous, previous_line
    <2>3. /\ HistoryOK(history') /\ history'.entries = history.entries /\ history'.index = i
          /\ history'.count = history.count /\ start(history') = start(history)
      BY <1>1, <2>1, <2>2, MoveIndex
    <2> HIDE DEF i
    <2>4. CASE previous_line(history) # {}
      <3>1. PICK s \in get_current(history') : input' = set(input, s) /\ pristine' = TRUE
        BY <2>2, <2>4 DEF ArrowUp
      <3> QED  BY <1>1, <2>1, <2>2, <3>1, RecallInv
    <2>5. CASE previous_line(history) = {}
      <3>1. input' = input /\ pristine' = pristine
        BY <2>5 DEF ArrowUp
      <3>2. i < start(history)
        BY <2>1, <2>2, <2>3, <2>5 DEF get_current
      <3>3. (IF history.index < start(history) THEN start(history) ELSE history.index)
              = start(history)
        BY <2>1, <3>2 DEF i
      <3>4. RecallsCommand'
        BY <1>1, <2>3, <3>1, <3>2, <3>3 DEF LineInv, RecallsCommand, as_bytes
      <3>5. RingHoldsLatest' /\ Fits'
        BY <1>1, <2>3, Zenon DEF LineInv, RingHoldsLatest, Fits
      <3> QED  BY <2>3, <3>1, <3>4, <3>5 DEF LineInv
    <2> QED  BY <2>4, <2>5
  <1> QED  BY <1>2, <1>3

(* ArrowDown: past the newest command the line is empty.                   *)
LEMMA ArrowDownInv == LineInv /\ ArrowDown => LineInv'
  <1> SUFFICES ASSUME LineInv, ArrowDown PROVE LineInv'
    OBVIOUS
  <1>1. HistoryOK(history) /\ InputOK(input) /\ pushed' = pushed
    BY DEF LineInv, ArrowDown
  <1>2. HistoryOK(history') /\ history'.entries = history.entries
        /\ history'.count = history.count /\ start(history') = start(history)
    <2>1. CASE history.index >= history.count
      BY <1>1, <2>1 DEF ArrowDown, next
    <2>2. CASE ~(history.index >= history.count)
      <3>1. history' = [history EXCEPT !.index = history.index + 1]
        BY <2>2 DEF ArrowDown, next
      <3>2. history.index + 1 \in 0 .. history.count
        BY <1>1, <2>2 DEF HistoryOK
      <3> QED  BY <1>1, <3>1, <3>2, MoveIndex
    <2> QED  BY <2>1, <2>2
  <1>3. CASE next_line(history) = {}
    <2>1. input' = clear(input) /\ pristine' = FALSE
      BY <1>3 DEF ArrowDown
    <2>2. InputOK(input')
      BY <1>1, <2>1, MovesOK
    <2>3. RingHoldsLatest' /\ Fits'
      BY <1>1, <1>2 DEF LineInv, RingHoldsLatest, Fits
    <2>4. RecallsCommand' /\ pristine' \in BOOLEAN
      BY <2>1, Zenon DEF RecallsCommand
    <2> QED  BY <1>2, <2>2, <2>3, <2>4 DEF LineInv
  <1>4. CASE next_line(history) # {}
    <2>1. /\ history' = [history EXCEPT !.index = history.index + 1]
          /\ next_line(history) = get_current(history')
      BY <1>4 DEF ArrowDown, next, next_line
    <2>2. history.index + 1 \in 0 .. history.count
      BY <1>1, <1>4 DEF HistoryOK, next_line
    <2>3. PICK s \in get_current(history') : input' = set(input, s) /\ pristine' = TRUE
      BY <1>4, <2>1 DEF ArrowDown
    <2> QED  BY <1>1, <2>1, <2>2, <2>3, RecallInv
  <1> QED  BY <1>3, <1>4

(* Enter: the command enters the history and the line is empty.            *)
LEMMA EnterInv ==
  ASSUME LineInv, NEW exits \in BOOLEAN, EnterLine(exits)
  PROVE  LineInv'
  <1> DEFINE cmd == as_bytes(input)
  <1>1. /\ history' = push(history, cmd) /\ pristine' = FALSE
        /\ pushed' = IF is_new(history, cmd) THEN Append(pushed, cmd) ELSE pushed
        /\ input' = input \/ input' = clear(input)
    BY DEF EnterLine
  <1>2. InputOK(input)
    BY DEF LineInv
  <1>3. cmd \in Seq(Chars) /\ Len(cmd) <= Limit
    BY <1>2, BytesFacts
  <1> HIDE DEF cmd
  <1>4. HistoryOK(history') /\ Fits' /\ RingHoldsLatest'
    BY <1>1, <1>3, PushFacts
  <1>5. InputOK(input')
    BY <1>1, <1>2, MovesOK
  <1>6. RecallsCommand' /\ pristine' \in BOOLEAN
    BY <1>1, Zenon DEF RecallsCommand
  <1> QED  BY <1>4, <1>5, <1>6 DEF LineInv

(* Every key keeps the invariant, whatever the order of the keys.          *)
THEOREM LineInvariant == LineSpec => []LineInv
  <1>1. LineInv /\ [LineNext]_line_vars => LineInv'
    <2> SUFFICES ASSUME LineInv, [LineNext]_line_vars PROVE LineInv'
      OBVIOUS
    <2>1. InputOK(input)
      BY DEF LineInv
    <2>2. ASSUME NEW c \in Chars, Char(c) PROVE LineInv'
      BY <2>1, <2>2, InsertOK, EditInv DEF Char
    <2>3. CASE Tab
      <3>1. " " \in Chars
        BY LineAssumption, Zenon
      <3> DEFINE b1 == insert(input, " ")
                 b2 == insert(b1, " ")
                 b3 == insert(b2, " ")
                 b4 == insert(b3, " ")
      <3>2. Edit(b4)
        BY <2>3, Zenon DEF Tab
      <3>3. InputOK(b1)
        BY <2>1, <3>1, InsertOK, Zenon
      <3>4. InputOK(b2)
        BY <3>1, <3>3, InsertOK, Zenon
      <3>5. InputOK(b3)
        BY <3>1, <3>4, InsertOK, Zenon
      <3>6. InputOK(b4)
        BY <3>1, <3>5, InsertOK, Zenon
      <3> QED  BY <3>2, <3>6, EditInv, Zenon
    <2>4. CASE Backspace \/ Delete
      BY <2>1, <2>4, BackspaceOK, DeleteOK, EditInv DEF Backspace, Delete
    <2>5. CASE Escape \/ CtrlK \/ ArrowLeft \/ ArrowRight \/ Home \/ End
      BY <2>1, <2>5, MovesOK, EditInv DEF Escape, CtrlK, ArrowLeft, ArrowRight, Home, End
    <2>6. CASE ArrowUp \/ ArrowDown
      BY <2>6, ArrowUpInv, ArrowDownInv
    <2>7. ASSUME NEW exits \in BOOLEAN, EnterLine(exits) PROVE LineInv'
      BY <2>7, EnterInv
    <2>8. CASE UNCHANGED line_vars
      BY <2>8 DEF line_vars, LineInv, Fits, RingHoldsLatest, RecallsCommand
    <2> QED  BY <2>2, <2>3, <2>4, <2>5, <2>6, <2>7, <2>8 DEF LineNext
  <1> QED  BY <1>1, LineInitInv, PTL DEF LineSpec

(***************************************************************************)
(* The cursor stays in the line, and the line within the buffer of         *)
(* InputBuffer, for every MAX_LINE_LENGTH.                                 *)
(***************************************************************************)
THEOREM LineStaysInBuffer == LineSpec => []LineTypeOK
  <1>1. LineInv => LineTypeOK
    BY DEF LineInv, InputOK, HistoryOK, LineTypeOK
  <1> QED  BY <1>1, LineInvariant, PTL

(***************************************************************************)
(* The ring of the history holds the latest CAPACITY commands, in order,   *)
(* however often its count has wrapped around.                             *)
(***************************************************************************)
THEOREM HistoryHoldsLatest == LineSpec => []RingHoldsLatest
  <1>1. LineInv => RingHoldsLatest
    BY DEF LineInv
  <1> QED  BY <1>1, LineInvariant, PTL

(***************************************************************************)
(* A line recalled with the arrows is the whole command it was pushed as,  *)
(* also after the arrows have run past the oldest command.                 *)
(***************************************************************************)
THEOREM ArrowsRecall == LineSpec => []RecallsCommand
  <1>1. LineInv => RecallsCommand
    BY DEF LineInv
  <1> QED  BY <1>1, LineInvariant, PTL

---------------------------------------------------------------------------
(* The refinement of LineEditor: what the shifts of the buffer do to the   *)
(* text.  u is t with s put in behind the first p characters.              *)
Spliced(t, p, s, u) ==
    /\ u \in Seq(Chars) /\ Len(u) = Len(t) + Len(s)
    /\ \A i \in 1 .. p : u[i] = t[i]
    /\ \A i \in 1 .. Len(s) : u[p + i] = s[i]
    /\ \A i \in p + 1 .. Len(t) : u[i + Len(s)] = t[i]

(* The elements of a concatenation, by the part they come from.            *)
LEMMA JoinTwo ==
  ASSUME NEW S, NEW a \in Seq(S), NEW z \in Seq(S)
  PROVE  /\ a \o z \in Seq(S) /\ Len(a \o z) = Len(a) + Len(z)
         /\ \A i \in 1 .. Len(a) : (a \o z)[i] = a[i]
         /\ \A i \in 1 .. Len(z) : (a \o z)[Len(a) + i] = z[i]
  OBVIOUS

LEMMA JoinThree ==
  ASSUME NEW S, NEW a \in Seq(S), NEW s \in Seq(S), NEW z \in Seq(S)
  PROVE  /\ a \o s \o z \in Seq(S) /\ Len(a \o s \o z) = Len(a) + Len(s) + Len(z)
         /\ \A i \in 1 .. Len(a) : (a \o s \o z)[i] = a[i]
         /\ \A i \in 1 .. Len(s) : (a \o s \o z)[Len(a) + i] = s[i]
         /\ \A i \in 1 .. Len(z) : (a \o s \o z)[Len(a) + Len(s) + i] = z[i]
  <1>1. PICK m : m = a \o s
    BY Zenon
  <1>2. /\ m \in Seq(S) /\ Len(m) = Len(a) + Len(s)
        /\ \A i \in 1 .. Len(a) : m[i] = a[i]
        /\ \A i \in 1 .. Len(s) : m[Len(a) + i] = s[i]
    BY <1>1, JoinTwo
  <1>3. PICK v : v = m \o z
    BY Zenon
  <1>4. /\ v \in Seq(S) /\ Len(v) = Len(m) + Len(z)
        /\ \A i \in 1 .. Len(m) : v[i] = m[i]
        /\ \A i \in 1 .. Len(z) : v[Len(m) + i] = z[i]
    <2>1. m \in Seq(S)
      BY <1>2
    <2> QED BY <1>3, <2>1, JoinTwo
  <1>5. Len(a) \in Nat /\ Len(s) \in Nat /\ Len(z) \in Nat
    OBVIOUS
  <1>6. /\ Len(v) = Len(a) + Len(s) + Len(z)
        /\ \A i \in 1 .. Len(a) : v[i] = a[i]
        /\ \A i \in 1 .. Len(s) : v[Len(a) + i] = s[i]
        /\ \A i \in 1 .. Len(z) : v[Len(a) + Len(s) + i] = z[i]
    <2>1. \A i \in 1 .. Len(a) : i \in 1 .. Len(m) /\ v[i] = a[i]
      BY <1>2, <1>4, <1>5
    <2>2. \A i \in 1 .. Len(s) : Len(a) + i \in 1 .. Len(m) /\ v[Len(a) + i] = s[i]
      BY <1>2, <1>4, <1>5, SMTT(60)
    <2> QED BY <1>2, <1>4, <1>5, <2>1, <2>2
  <1> QED BY <1>1, <1>3, <1>4, <1>6

LEMMA SplicedIs ==
  ASSUME NEW t \in Seq(Chars), NEW s \in Seq(Chars), NEW p \in 0 .. Len(t), NEW u,
         Spliced(t, p, s, u)
  PROVE  u = SubSeq(t, 1, p) \o s \o SubSeq(t, p + 1, Len(t))
  <1> DEFINE a == SubSeq(t, 1, p)
             z == SubSeq(t, p + 1, Len(t))
             v == a \o s \o z
  <1>1. /\ a \in Seq(Chars) /\ Len(a) = p /\ \A i \in 1 .. p : a[i] = t[i]
        /\ z \in Seq(Chars) /\ Len(z) = Len(t) - p
        /\ \A i \in 1 .. Len(t) - p : z[i] = t[p + i]
    <2>1. Len(t) \in Nat /\ p \in Nat /\ p <= Len(t)
      OBVIOUS
    <2>2. a \in Seq(Chars) /\ Len(a) = p /\ \A i \in 1 .. p : a[i] = t[1 + i - 1]
      BY <2>1, SubSeqElements
    <2>3. /\ z \in Seq(Chars) /\ Len(z) = Len(t) - (p + 1) + 1
          /\ \A i \in 1 .. Len(t) - (p + 1) + 1 : z[i] = t[p + 1 + i - 1]
      BY <2>1, SubSeqElements
    <2> HIDE DEF a, z
    <2> QED BY <2>1, <2>2, <2>3
  <1> HIDE DEF a, z
  <1>2. /\ v \in Seq(Chars) /\ Len(v) = Len(a) + Len(s) + Len(z)
        /\ \A i \in 1 .. Len(a) : v[i] = a[i]
        /\ \A i \in 1 .. Len(s) : v[Len(a) + i] = s[i]
        /\ \A i \in 1 .. Len(z) : v[Len(a) + Len(s) + i] = z[i]
    <2>1. a \in Seq(Chars) /\ z \in Seq(Chars)
      BY <1>1
    <2> QED BY <2>1, JoinThree, SMTT(60)
  <1> HIDE DEF v
  <1>3. /\ v \in Seq(Chars) /\ Len(v) = Len(t) + Len(s)
        /\ \A i \in 1 .. p : v[i] = t[i]
        /\ \A i \in 1 .. Len(s) : v[p + i] = s[i]
        /\ \A i \in 1 .. Len(t) - p : v[p + Len(s) + i] = t[p + i]
    BY <1>1, <1>2, SMTT(60)
  <1>4. Len(u) = Len(v) /\ u \in Seq(Chars)
    BY <1>3 DEF Spliced
  <1>5. ASSUME NEW i \in 1 .. Len(u) PROVE u[i] = v[i]
    <2>1. p \in Nat /\ Len(s) \in Nat /\ Len(t) \in Nat /\ p <= Len(t)
      OBVIOUS
    <2>2. i \in Nat /\ i >= 1 /\ i <= Len(t) + Len(s)
      BY <1>3, <1>4
    <2>3. CASE i <= p
      BY <1>3, <2>1, <2>2, <2>3 DEF Spliced
    <2>4. CASE i > p /\ i <= p + Len(s)
      <3>1. i - p \in 1 .. Len(s) /\ p + (i - p) = i
        BY <2>1, <2>2, <2>4
      <3>2. u[p + (i - p)] = s[i - p] /\ v[p + (i - p)] = s[i - p]
        BY <1>3, <3>1, Zenon DEF Spliced
      <3> QED BY <3>1, <3>2
    <2>5. CASE i > p + Len(s)
      <3> DEFINE j == i - Len(s)
                 k == i - Len(s) - p
      <3>1. /\ j \in p + 1 .. Len(t) /\ j + Len(s) = i
            /\ k \in 1 .. Len(t) - p /\ p + Len(s) + k = i /\ p + k = j
        BY <2>1, <2>2, <2>5
      <3> HIDE DEF j, k
      <3>2. u[j + Len(s)] = t[j] /\ v[p + Len(s) + k] = t[p + k]
        BY <1>3, <3>1, ZenonT(40) DEF Spliced
      <3> QED BY <3>1, <3>2
    <2> QED BY <2>1, <2>2, <2>3, <2>4, <2>5
  <1>6. u = v
    BY <1>3, <1>4, <1>5, SameElements
  <1> QED BY <1>6 DEF v, a, z


(* b holds t with s typed behind its first p characters, and the cursor is *)
(* behind s; or as much of s as the line has room for.                     *)
Typed(t, p, s, b) ==
    InputOK(b) /\ Spliced(t, p, s, as_bytes(b)) /\ b.cursor = p + Len(s)

TypedUpTo(t, p, s, b) ==
    \E k \in 0 .. Len(s) :
        Typed(t, p, SubSeq(s, 1, k), b) /\ (k = Len(s) \/ b.len = Limit)

(* insert, with room left, types one more character.                       *)
LEMMA InsertText ==
  ASSUME NEW t \in Seq(Chars), NEW p \in 0 .. Len(t), NEW s \in Seq(Chars),
         NEW b, Typed(t, p, s, b), b.len < Limit, NEW ch \in Chars
  PROVE  Typed(t, p, Append(s, ch), insert(b, ch))
  <1> DEFINE new == [i \in Cells |-> CASE i < b.cursor \/ i > b.len -> b.buffer[i]
                                       [] i = b.cursor -> ch
                                       [] OTHER -> b.buffer[i - 1]]
             c == insert(b, ch)
             u == as_bytes(b)
             w == as_bytes(c)
             n == Len(s)
  <1>1. InputOK(b) /\ InputOK(c)
    BY InsertOK DEF Typed
  <1>2. /\ n \in Nat /\ p \in Nat /\ Len(t) \in Nat /\ p <= Len(t) /\ Limit \in Nat
        /\ b.len \in Nat /\ b.len < Limit /\ b.cursor = p + n
    BY <1>1, LimitFacts DEF Typed, InputOK
  <1>3. c = [buffer |-> new, len |-> b.len + 1, cursor |-> b.cursor + 1]
    BY <1>2 DEF insert
  <1>4. /\ u \in Seq(Chars) /\ Len(u) = b.len /\ b.len = Len(t) + n
        /\ \A i \in 1 .. b.len : u[i] = b.buffer[i - 1]
    BY <1>1, BytesFacts, Zenon DEF Typed, Spliced, as_bytes
  <1>5. c.cursor = p + n + 1 /\ c.len = b.len + 1 /\ c.buffer = new
    BY <1>2, <1>3
  <1>6. /\ w \in Seq(Chars) /\ Len(w) = b.len + 1
        /\ \A i \in 1 .. b.len + 1 : w[i] = new[i - 1]
    BY <1>1, <1>5, BytesFacts, ZenonT(40) DEF as_bytes
  <1> HIDE DEF c, w
  <1>7. /\ \A i \in 1 .. p + n : w[i] = u[i]
        /\ w[p + n + 1] = ch
        /\ \A i \in p + n + 1 .. b.len : w[i + 1] = u[i]
    <2>1. ASSUME NEW i \in 1 .. p + n PROVE w[i] = u[i]
      <3>1. i - 1 \in Cells /\ i - 1 < b.cursor /\ i \in 1 .. b.len
        BY <1>2, <1>4, LimitFacts, SMTT(60)
      <3>2. new[i - 1] = b.buffer[i - 1]
        BY <3>1
      <3> HIDE DEF new
      <3> QED BY <1>2, <1>4, <1>6, <3>1, <3>2, SMTT(60)
    <2>2. w[p + n + 1] = ch
      <3>1. p + n \in Cells /\ p + n + 1 \in 1 .. b.len + 1 /\ p + n + 1 - 1 = b.cursor
        BY <1>2, <1>4, LimitFacts, SMTT(60)
      <3>2. new[b.cursor] = ch
        BY <1>2, <1>4, <3>1
      <3> HIDE DEF new
      <3> QED BY <1>6, <3>1, <3>2
    <2>3. ASSUME NEW i \in p + n + 1 .. b.len PROVE w[i + 1] = u[i]
      <3>1. /\ i \in Cells /\ ~(i < b.cursor \/ i > b.len) /\ i # b.cursor
            /\ i \in 1 .. b.len /\ i + 1 \in 1 .. b.len + 1 /\ i + 1 - 1 = i
        BY <1>2, <1>4, LimitFacts, SMTT(60)
      <3>2. new[i] = b.buffer[i - 1]
        BY <3>1
      <3> HIDE DEF new
      <3> QED BY <1>4, <1>6, <3>1, <3>2, SMTT(60)
    <2> QED BY <2>1, <2>2, <2>3
  <1> HIDE DEF u, new
  <1>8. Spliced(t, p, s, u)
    BY DEF Typed, u
  <1>9. PICK s1 : s1 = Append(s, ch)
    BY Zenon
  <1>10. /\ s1 \in Seq(Chars) /\ Len(s1) = n + 1 /\ s1[n + 1] = ch
         /\ \A i \in 1 .. n : s1[i] = s[i]
    BY <1>9
  <1>11. Spliced(t, p, s1, w)
    <2>1. Len(w) = Len(t) + Len(s1)
      BY <1>2, <1>4, <1>6, <1>10
    <2>2. \A i \in 1 .. p : w[i] = t[i]
      BY <1>2, <1>7, <1>8 DEF Spliced
    <2>3. ASSUME NEW i \in 1 .. Len(s1) PROVE w[p + i] = s1[i]
      <3>1. CASE i = n + 1
        BY <1>2, <1>7, <1>10, <3>1
      <3>2. CASE i \in 1 .. n
        <4>1. p + i \in 1 .. p + n
          BY <1>2, <3>2
        <4>2. u[p + i] = s[i]
          BY <1>8, <3>2 DEF Spliced
        <4> QED BY <1>7, <1>10, <3>2, <4>1, <4>2, Zenon
      <3> QED BY <1>2, <1>10, <3>1, <3>2, SMTT(60)
    <2>4. ASSUME NEW i \in p + 1 .. Len(t) PROVE w[i + Len(s1)] = t[i]
      <3>1. i + n \in p + n + 1 .. b.len /\ i + n + 1 = i + Len(s1)
        BY <1>2, <1>4, <1>10
      <3>2. u[i + n] = t[i]
        BY <1>8 DEF Spliced
      <3> QED BY <1>7, <3>1, <3>2
    <2> QED BY <1>6, <2>1, <2>2, <2>3, <2>4, ZenonT(40) DEF Spliced
  <1> QED BY <1>1, <1>2, <1>5, <1>9, <1>10, <1>11 DEF Typed, w, c

(* insert, whether there is room or not.                                   *)
LEMMA InsertUpTo ==
  ASSUME NEW t \in Seq(Chars), NEW p \in 0 .. Len(t), NEW s \in Seq(Chars),
         NEW b, TypedUpTo(t, p, s, b), NEW ch \in Chars
  PROVE  TypedUpTo(t, p, Append(s, ch), insert(b, ch))
  <1>1. PICK k \in 0 .. Len(s) :
            Typed(t, p, SubSeq(s, 1, k), b) /\ (k = Len(s) \/ b.len = Limit)
    BY DEF TypedUpTo
  <1>2. PICK s1 : s1 = Append(s, ch)
    BY Zenon
  <1>3. /\ s1 \in Seq(Chars) /\ Len(s1) = Len(s) + 1
        /\ SubSeq(s1, 1, k) = SubSeq(s, 1, k)
        /\ SubSeq(s1, 1, Len(s1)) = s1 /\ SubSeq(s, 1, Len(s)) = s
    BY <1>2
  <1>4. b.len \in Nat /\ Limit \in Nat /\ b.len <= Limit
    BY <1>1, LimitFacts DEF Typed, InputOK
  <1>5. CASE b.len < Limit
    <2>1. Typed(t, p, s, b)
      <3>1. k = Len(s)
        BY <1>1, <1>4, <1>5
      <3>2. SubSeq(s, 1, k) = s
        BY <1>3, <3>1, Zenon
      <3> QED BY <1>1, <3>2, Zenon
    <2>2. Typed(t, p, s1, insert(b, ch))
      BY <1>2, <1>5, <2>1, InsertText
    <2>3. Typed(t, p, SubSeq(s1, 1, Len(s1)), insert(b, ch))
      BY <1>3, <2>2, Zenon
    <2>4. Len(s1) \in 0 .. Len(s1)
      BY <1>3
    <2> QED BY <1>2, <2>3, <2>4, Zenon DEF TypedUpTo
  <1>6. CASE b.len = Limit
    <2>1. insert(b, ch) = b
      BY <1>4, <1>6 DEF insert
    <2>2. k \in 0 .. Len(s1)
      BY <1>3
    <2> QED BY <1>1, <1>2, <1>3, <1>6, <2>1, <2>2, Zenon DEF TypedUpTo
  <1> QED BY <1>4, <1>5, <1>6


(* u is t without the characters from p + 1 to q.                          *)
LEMMA CutIs ==
  ASSUME NEW t \in Seq(Chars), NEW p \in 0 .. Len(t), NEW q \in p .. Len(t),
         NEW u \in Seq(Chars), Len(u) = Len(t) - (q - p),
         \A i \in 1 .. p : u[i] = t[i],
         \A i \in p + 1 .. Len(u) : u[i] = t[i + (q - p)]
  PROVE  u = SubSeq(t, 1, p) \o SubSeq(t, q + 1, Len(t))
  <1>1. Len(t) \in Nat /\ p \in Nat /\ q \in Nat /\ p <= q /\ q <= Len(t)
    OBVIOUS
  <1>2. PICK a : a = SubSeq(t, 1, p)
    BY Zenon
  <1>3. PICK z : z = SubSeq(t, q + 1, Len(t))
    BY Zenon
  <1>4. a \in Seq(Chars) /\ Len(a) = p /\ \A i \in 1 .. p : a[i] = t[i]
    <2>1. a \in Seq(Chars) /\ Len(a) = p /\ \A i \in 1 .. p : a[i] = t[1 + i - 1]
      BY <1>1, <1>2, SubSeqElements
    <2> QED BY <1>1, <2>1
  <1>5. z \in Seq(Chars) /\ Len(z) = Len(t) - q /\ \A i \in 1 .. Len(t) - q : z[i] = t[q + i]
    <2>1. /\ z \in Seq(Chars) /\ Len(z) = Len(t) - (q + 1) + 1
          /\ \A i \in 1 .. Len(t) - (q + 1) + 1 : z[i] = t[q + 1 + i - 1]
      BY <1>1, <1>3, SubSeqElements, SMTT(60)
    <2> QED BY <1>1, <2>1, SMTT(60)
  <1>6. PICK v : v = a \o z
    BY ZenonT(40)
  <1>7. /\ v \in Seq(Chars) /\ Len(v) = Len(a) + Len(z)
        /\ \A i \in 1 .. Len(a) : v[i] = a[i]
        /\ \A i \in 1 .. Len(z) : v[Len(a) + i] = z[i]
    <2>1. a \in Seq(Chars) /\ z \in Seq(Chars)
      BY <1>4, <1>5
    <2> QED BY <1>6, <2>1, JoinTwo
  <1>8. Len(u) = Len(v)
    BY <1>1, <1>4, <1>5, <1>7
  <1>9. ASSUME NEW i \in 1 .. Len(u) PROVE u[i] = v[i]
    <2>1. i \in Nat /\ i >= 1 /\ i <= Len(t) - (q - p)
      BY <1>1
    <2>2. CASE i <= p
      <3>1. i \in 1 .. p /\ i \in 1 .. Len(a)
        BY <1>1, <1>4, <2>1, <2>2
      <3>2. v[i] = a[i] /\ a[i] = t[i]
        BY <1>4, <1>7, <3>1, Zenon
      <3>3. u[i] = t[i]
        BY <3>1
      <3> QED BY <3>2, <3>3
    <2>3. CASE i > p
      <3> DEFINE j == i - p
      <3>1. /\ j \in 1 .. Len(z) /\ j \in 1 .. Len(t) - q /\ Len(a) + j = i /\ i \in p + 1 .. Len(u)
            /\ q + j = i + (q - p)
        BY <1>1, <1>4, <1>5, <2>1, <2>3
      <3> HIDE DEF j
      <3>2. v[Len(a) + j] = z[j] /\ z[j] = t[q + j]
        BY <1>5, <1>7, <3>1, Zenon
      <3>3. u[i] = t[i + (q - p)]
        BY <3>1, Zenon
      <3> QED BY <3>1, <3>2, <3>3, Zenon
    <2> QED BY <1>1, <2>1, <2>2, <2>3
  <1>10. u = v
    BY <1>7, <1>8, <1>9, SameElements, Zenon
  <1> QED BY <1>2, <1>3, <1>6, <1>10

(* backspace and delete cut one character out, Ctrl+K all from the cursor. *)
LEMMA BackspaceText ==
  ASSUME NEW b, InputOK(b), b.cursor > 0
  PROVE  LET t == as_bytes(b) IN
         /\ as_bytes(backspace(b)) = SubSeq(t, 1, b.cursor - 1) \o SubSeq(t, b.cursor + 1, Len(t))
         /\ backspace(b).cursor = b.cursor - 1
  <1> DEFINE new == [i \in Cells |-> IF i >= b.cursor - 1 /\ i + 1 < b.len
                                     THEN b.buffer[i + 1] ELSE b.buffer[i]]
             c == backspace(b)
             t == as_bytes(b)
             u == as_bytes(c)
             p == b.cursor - 1
             q == b.cursor
  <1>1. InputOK(c)
    BY BackspaceOK, SMTT(30)
  <1>2. /\ b.len \in Nat /\ b.cursor \in Nat /\ b.cursor >= 1 /\ b.cursor <= b.len
        /\ b.len <= Limit /\ Limit \in Nat
    BY LimitFacts DEF InputOK
  <1>3. c = [buffer |-> new, len |-> b.len - 1, cursor |-> p]
    BY <1>2 DEF backspace
  <1>4. c.buffer = new /\ c.len = b.len - 1 /\ c.cursor = p
    BY ONLY <1>3, SMTT(60)
  <1>5. t \in Seq(Chars) /\ Len(t) = b.len /\ \A i \in 1 .. b.len : t[i] = b.buffer[i - 1]
    BY BytesFacts, Zenon DEF as_bytes
  <1>6. u \in Seq(Chars) /\ Len(u) = b.len - 1 /\ \A i \in 1 .. b.len - 1 : u[i] = new[i - 1]
    BY <1>1, <1>4, BytesFacts, Zenon DEF as_bytes
  <1> HIDE DEF c, t, u
  <1>7. ASSUME NEW i \in 1 .. p PROVE u[i] = t[i]
    <2>1. i - 1 \in Cells /\ ~(i - 1 >= p) /\ i \in 1 .. b.len - 1 /\ i \in 1 .. b.len
      BY <1>2, LimitFacts
    <2>2. new[i - 1] = b.buffer[i - 1]
      BY <2>1
    <2> HIDE DEF new
    <2> QED BY <1>5, <1>6, <2>1, <2>2
  <1>8. ASSUME NEW i \in p + 1 .. Len(u) PROVE u[i] = t[i + (q - p)]
    <2>1. PICK k : k = i + (q - p)
      OBVIOUS
    <2>2. /\ i - 1 \in Cells /\ i - 1 >= p /\ (i - 1) + 1 < b.len /\ i \in 1 .. b.len - 1
          /\ k \in 1 .. b.len /\ k - 1 = (i - 1) + 1
      BY <1>2, <1>6, <2>1, LimitFacts, SMTT(90)
    <2>3. new[i - 1] = b.buffer[(i - 1) + 1]
      BY <2>2
    <2> HIDE DEF new, p, q
    <2>4. t[k] = b.buffer[k - 1] /\ u[i] = new[i - 1]
      BY <1>5, <1>6, <2>2, SMTT(30)
    <2> QED BY <2>1, <2>2, <2>3, <2>4
  <1>9. p \in 0 .. Len(t) /\ q \in p .. Len(t) /\ Len(u) = Len(t) - (q - p)
    BY <1>2, <1>5, <1>6, SMTT(60)
  <1> HIDE DEF p, q, new
  <1>10. u = SubSeq(t, 1, p) \o SubSeq(t, q + 1, Len(t))
    BY <1>5, <1>6, <1>7, <1>8, <1>9, CutIs, Zenon
  <1> QED BY <1>4, <1>10 DEF u, t, c, p, q

LEMMA DeleteText ==
  ASSUME NEW b, InputOK(b), b.cursor < b.len
  PROVE  LET t == as_bytes(b) IN
         /\ as_bytes(delete(b)) = SubSeq(t, 1, b.cursor) \o SubSeq(t, b.cursor + 2, Len(t))
         /\ delete(b).cursor = b.cursor
  <1> DEFINE new == [i \in Cells |-> IF i >= b.cursor /\ i + 1 < b.len
                                     THEN b.buffer[i + 1] ELSE b.buffer[i]]
             c == delete(b)
             t == as_bytes(b)
             u == as_bytes(c)
             p == b.cursor
             q == b.cursor + 1
  <1>1. InputOK(c)
    BY DeleteOK
  <1>2. /\ b.len \in Nat /\ b.cursor \in Nat /\ b.cursor < b.len
        /\ b.len <= Limit /\ Limit \in Nat
    BY LimitFacts DEF InputOK
  <1>3. c = [buffer |-> new, len |-> b.len - 1, cursor |-> p]
    <2>1. ~(b.cursor >= b.len)
      BY <1>2
    <2>2. delete(b) = [buffer |-> new, len |-> b.len - 1, cursor |-> b.cursor]
      BY <2>1, Zenon DEF delete, InputOK
    <2> QED BY <2>2
  <1>4. c.buffer = new /\ c.len = b.len - 1 /\ c.cursor = p
    BY <1>3
  <1>5. t \in Seq(Chars) /\ Len(t) = b.len /\ \A i \in 1 .. b.len : t[i] = b.buffer[i - 1]
    BY BytesFacts, Zenon DEF as_bytes
  <1>6. u \in Seq(Chars) /\ Len(u) = b.len - 1 /\ \A i \in 1 .. b.len - 1 : u[i] = new[i - 1]
    BY <1>1, <1>4, BytesFacts, ZenonT(40) DEF as_bytes
  <1> HIDE DEF c, t, u
  <1>7. ASSUME NEW i \in 1 .. p PROVE u[i] = t[i]
    <2>1. i - 1 \in Cells /\ ~(i - 1 >= p) /\ i \in 1 .. b.len - 1 /\ i \in 1 .. b.len
      BY <1>2, LimitFacts
    <2>2. new[i - 1] = b.buffer[i - 1]
      BY <2>1
    <2> HIDE DEF new
    <2> QED BY <1>5, <1>6, <2>1, <2>2
  <1>8. ASSUME NEW i \in p + 1 .. Len(u) PROVE u[i] = t[i + (q - p)]
    <2>1. PICK k : k = i + (q - p)
      OBVIOUS
    <2>2. /\ i - 1 \in Cells /\ i - 1 >= p /\ (i - 1) + 1 < b.len /\ i \in 1 .. b.len - 1
          /\ k \in 1 .. b.len /\ k - 1 = (i - 1) + 1
      <3>1. i \in Nat /\ i >= b.cursor + 1 /\ i <= b.len - 1 /\ k = i + 1
        BY <1>2, <1>6, <2>1
      <3> QED BY <1>2, <3>1, LimitFacts, SMTT(60)
    <2>3. new[i - 1] = b.buffer[(i - 1) + 1]
      BY <2>2
    <2> HIDE DEF new, p, q
    <2>4. t[k] = b.buffer[k - 1] /\ u[i] = new[i - 1]
      BY <1>5, <1>6, <2>2
    <2> QED BY <2>1, <2>2, <2>3, <2>4
  <1>9. /\ p \in 0 .. Len(t) /\ q \in p .. Len(t) /\ Len(u) = Len(t) - (q - p)
        /\ q + 1 = b.cursor + 2
    BY <1>2, <1>5, <1>6, SMTT(90)
  <1> HIDE DEF p, q, new
  <1>10. u = SubSeq(t, 1, p) \o SubSeq(t, q + 1, Len(t))
    BY <1>5, <1>6, <1>7, <1>8, <1>9, CutIs, Zenon
  <1> QED BY <1>4, <1>9, <1>10, Zenon DEF u, t, c, p


---------------------------------------------------------------------------
(* The steps of the editor.                                                *)
text == as_bytes(input)
point == input.cursor

LEMMA TextFacts ==
  ASSUME InputOK(input)
  PROVE  /\ text \in Seq(Chars) /\ Len(text) = input.len /\ Len(text) <= Limit
         /\ point \in 0 .. Len(text) /\ Len(text) \in Nat /\ Limit \in Nat
  <1>1. text \in Seq(Chars) /\ Len(text) = input.len /\ input.len <= Limit
    BY BytesFacts, SMTT(30) DEF text
  <1> QED BY <1>1, LimitFacts DEF InputOK, point

(* Typed characters are an insertion.                                      *)
LEMMA TypedInserts ==
  ASSUME InputOK(input), NEW s \in Seq(Chars), TypedUpTo(text, point, s, input')
  PROVE  Editor!Insert(s)
  <1>1. PICK k \in 0 .. Len(s) :
            Typed(text, point, SubSeq(s, 1, k), input') /\ (k = Len(s) \/ input'.len = Limit)
    BY DEF TypedUpTo
  <1>2. PICK s1 : s1 = SubSeq(s, 1, k)
    BY Zenon
  <1>3. s1 \in Seq(Chars) /\ Len(s1) = k /\ k \in Nat
    BY <1>2
  <1>4. /\ InputOK(input') /\ Spliced(text, point, s1, as_bytes(input'))
        /\ input'.cursor = point + k
    BY <1>1, <1>2, <1>3 DEF Typed
  <1>5. as_bytes(input') = SubSeq(text, 1, point) \o s1 \o SubSeq(text, point + 1, Len(text))
    BY <1>3, <1>4, TextFacts, SplicedIs, Zenon
  <1>6. Len(as_bytes(input')) = Len(text) + k /\ Len(as_bytes(input')) = input'.len
    BY <1>3, <1>4, BytesFacts, Zenon DEF Spliced
  <1>7. Len(text) + k <= Limit /\ (k = Len(s) \/ Len(text) + k = Limit)
    BY <1>1, <1>4, <1>6, BytesFacts, Zenon
  <1> QED BY <1>2, <1>4, <1>5, <1>7, Zenon DEF Editor!Insert, Editor!Before, Editor!After, text, point

(* An untouched line has had nothing typed into it yet.                    *)
LEMMA NothingTyped ==
  ASSUME InputOK(input)
  PROVE  TypedUpTo(text, point, <<>>, input)
  <1>1. Spliced(text, point, <<>>, text)
    BY TextFacts DEF Spliced
  <1>2. input.cursor = point + Len(<<>>)
    BY TextFacts DEF point
  <1>3. SubSeq(<<>>, 1, 0) = <<>> /\ 0 \in 0 .. Len(<<>>) /\ Len(<<>>) = 0
    OBVIOUS
  <1>4. Typed(text, point, SubSeq(<<>>, 1, 0), input)
    BY <1>1, <1>2, <1>3, Zenon DEF Typed, text
  <1> QED BY <1>3, <1>4, Zenon DEF TypedUpTo

LEMMA CharStep ==
  ASSUME InputOK(input), NEW c \in Chars, Char(c)
  PROVE  Editor!Insert(<<c>>)
  <1>1. TypedUpTo(text, point, Append(<<>>, c), insert(input, c))
    <2>1. <<>> \in Seq(Chars)
      OBVIOUS
    <2> QED BY <2>1, TextFacts, NothingTyped, InsertUpTo, Zenon
  <1>2. Append(<<>>, c) = <<c>> /\ <<c>> \in Seq(Chars) /\ input' = insert(input, c)
    BY DEF Char, Edit
  <1> QED BY <1>1, <1>2, TypedInserts, Zenon

(* A tab is four spaces.                                                   *)
Blanks(s, sp, n) == s \in Seq(Chars) /\ Len(s) = n /\ \A i \in 1 .. n : s[i] = sp

LEMMA MoreBlanks ==
  ASSUME NEW s, NEW sp \in Chars, NEW n \in Nat, Blanks(s, sp, n)
  PROVE  Blanks(Append(s, sp), sp, n + 1)
  BY DEF Blanks

LEMMA TabStep ==
  ASSUME InputOK(input), Tab
  PROVE  Editor!Insert(<<" ", " ", " ", " ">>)
  <1>1. PICK sp \in Chars : sp = " "
    BY LineAssumption, Zenon
  <1>2. PICK s0 : s0 = <<>>
    OBVIOUS
  <1>3. Blanks(s0, sp, 0)
    BY <1>2 DEF Blanks
  <1>4. PICK s1 : s1 = Append(s0, sp)
    BY Zenon
  <1>5. Blanks(s1, sp, 1)
    BY <1>3, <1>4, MoreBlanks
  <1>6. PICK s2 : s2 = Append(s1, sp)
    BY Zenon
  <1>7. Blanks(s2, sp, 2)
    BY <1>5, <1>6, MoreBlanks
  <1>8. PICK s3 : s3 = Append(s2, sp)
    BY Zenon
  <1>9. Blanks(s3, sp, 3)
    BY <1>7, <1>8, MoreBlanks
  <1>10. PICK s4 : s4 = Append(s3, sp)
    BY Zenon
  <1>11. Blanks(s4, sp, 4)
    BY <1>9, <1>10, MoreBlanks
  <1>12. s4 = <<sp, sp, sp, sp>>
    <2>1. Blanks(<<sp, sp, sp, sp>>, sp, 4)
      BY DEF Blanks
    <2>2. PICK x : x = <<sp, sp, sp, sp>>
      BY ZenonT(40)
    <2>3. Blanks(x, sp, 4)
      BY <2>1, <2>2
    <2>4. x = s4
      BY <1>11, <2>3, SameElements DEF Blanks
    <2> QED BY <2>2, <2>4
  <1> DEFINE b1 == insert(input, sp)
             b2 == insert(b1, sp)
             b3 == insert(b2, sp)
             b4 == insert(b3, sp)
  <1>13. input' = b4
    BY <1>1, Zenon DEF Tab, Edit
  <1>14. text \in Seq(Chars) /\ point \in 0 .. Len(text)
    BY TextFacts
  <1>15. TypedUpTo(text, point, s0, input)
    BY <1>2, NothingTyped
  <1>16. TypedUpTo(text, point, s1, b1)
    BY <1>3, <1>4, <1>14, <1>15, InsertUpTo, ZenonT(40) DEF Blanks
  <1> HIDE DEF b1
  <1>17. TypedUpTo(text, point, s2, b2)
    BY <1>5, <1>6, <1>14, <1>16, InsertUpTo DEF Blanks
  <1> HIDE DEF b2
  <1>18. TypedUpTo(text, point, s3, b3)
    BY <1>7, <1>8, <1>14, <1>17, InsertUpTo DEF Blanks
  <1> HIDE DEF b3
  <1>19. TypedUpTo(text, point, s4, b4)
    BY <1>9, <1>10, <1>14, <1>18, InsertUpTo DEF Blanks
  <1>20. Editor!Insert(s4)
    BY <1>11, <1>13, <1>19, TypedInserts DEF Blanks
  <1> QED BY <1>1, <1>12, <1>20, Zenon

(* Deletion, and the end of the line cut off.                              *)
LEMMA BackspaceStep ==
  ASSUME InputOK(input), Backspace
  PROVE  Editor!Backspace \/ UNCHANGED input
  <1>1. input' = backspace(input) /\ input.cursor \in Nat
    BY LimitFacts DEF Backspace, Edit, InputOK
  <1>2. CASE input.cursor = 0
    BY <1>1, <1>2 DEF backspace
  <1>3. CASE input.cursor > 0
    BY <1>1, <1>3, BackspaceText, Zenon DEF Editor!Backspace, Editor!After
  <1> QED BY <1>1, <1>2, <1>3

LEMMA DeleteStep ==
  ASSUME InputOK(input), Delete
  PROVE  Editor!Delete \/ UNCHANGED input
  <1>1. input' = delete(input) /\ input.cursor \in Nat /\ input.len \in Nat
    BY LimitFacts DEF Delete, Edit, InputOK
  <1>2. CASE input.cursor >= input.len
    BY <1>1, <1>2 DEF delete
  <1>3. CASE input.cursor < input.len
    <2>1. /\ as_bytes(input') = SubSeq(text, 1, point) \o SubSeq(text, point + 2, Len(text))
          /\ input'.cursor = point
      BY <1>1, <1>3, DeleteText, Zenon DEF text, point
    <2>2. text \in Seq(Chars) /\ point \in Nat /\ point < Len(text) /\ Len(text) \in Nat
      BY <1>3, TextFacts DEF point
    <2>3. Tail(SubSeq(text, point + 1, Len(text))) = SubSeq(text, point + 2, Len(text))
      <3>1. PICK z : z = SubSeq(text, point + 1, Len(text))
        BY Zenon
      <3>2. PICK y : y = SubSeq(text, point + 2, Len(text))
        BY Zenon
      <3>3. /\ z \in Seq(Chars) /\ Len(z) = Len(text) - point
            /\ \A i \in 1 .. Len(text) - point : z[i] = text[point + i]
        <4>1. /\ z \in Seq(Chars) /\ Len(z) = Len(text) - (point + 1) + 1
              /\ \A i \in 1 .. Len(text) - (point + 1) + 1 : z[i] = text[point + 1 + i - 1]
          BY <2>2, <3>1, SubSeqElements
        <4> QED BY <2>2, <4>1
      <3>4. /\ y \in Seq(Chars) /\ Len(y) = Len(text) - point - 1
            /\ \A i \in 1 .. Len(text) - point - 1 : y[i] = text[point + 1 + i]
        <4>1. /\ y \in Seq(Chars) /\ Len(y) = Len(text) - (point + 2) + 1
              /\ \A i \in 1 .. Len(text) - (point + 2) + 1 : y[i] = text[point + 2 + i - 1]
          BY <2>2, <3>2, SubSeqElements
        <4> QED BY <2>2, <4>1
      <3>5. PICK x : x = Tail(z)
        BY ZenonT(40)
      <3>6. x \in Seq(Chars) /\ Len(x) = Len(z) - 1 /\ \A i \in 1 .. Len(z) - 1 : x[i] = z[i + 1]
        <4>1. z # <<>>
          BY <2>2, <3>3
        <4> QED BY <3>3, <3>5, <4>1
      <3>7. Len(x) = Len(y)
        BY <2>2, <3>3, <3>4, <3>6
      <3>8. ASSUME NEW i \in 1 .. Len(x) PROVE x[i] = y[i]
        <4>1. /\ i \in 1 .. Len(z) - 1 /\ i + 1 \in 1 .. Len(text) - point
              /\ i \in 1 .. Len(text) - point - 1 /\ point + (i + 1) = point + 1 + i
          BY <2>2, <3>3, <3>6
        <4>2. x[i] = z[i + 1] /\ z[i + 1] = text[point + (i + 1)] /\ y[i] = text[point + 1 + i]
          BY <3>3, <3>4, <3>6, <4>1, SMTT(60)
        <4> QED BY <4>1, <4>2
      <3>9. x = y
        BY <3>4, <3>6, <3>7, <3>8, SameElements
      <3> QED BY <3>1, <3>2, <3>5, <3>9, Zenon
    <2>4. as_bytes(input') = SubSeq(text, 1, point) \o Tail(SubSeq(text, point + 1, Len(text)))
      BY <2>1, <2>3, Zenon
    <2> QED BY <2>1, <2>2, <2>4, Zenon DEF Editor!Delete, Editor!Before, Editor!After, text, point
  <1> QED BY <1>1, <1>2, <1>3


LEMMA KillStep ==
  ASSUME InputOK(input), CtrlK
  PROVE  Editor!Kill
  <1>1. input' = kill_to_end(input)
    BY DEF CtrlK, Edit
  <1>2. kill_to_end(input) = [buffer |-> input.buffer, len |-> input.cursor, cursor |-> input.cursor]
    BY DEF InputOK, kill_to_end
  <1>3. input'.cursor = input.cursor /\ input'.len = point /\ input'.buffer = input.buffer
    BY <1>1, <1>2 DEF point
  <1>4. text \in Seq(Chars) /\ point \in 0 .. Len(text) /\ Len(text) = input.len /\ Len(text) \in Nat
    BY TextFacts
  <1>5. as_bytes(input') = [i \in 1 .. point |-> text[i]]
    <2>1. \A i \in 1 .. point : i \in 1 .. input.len
      BY <1>4
    <2>2. \A i \in 1 .. input.len : text[i] = input.buffer[i - 1]
      BY DEF text, as_bytes
    <2> QED BY <1>3, <2>1, <2>2 DEF as_bytes
  <1>6. SubSeq(text, 1, point) = [i \in 1 .. point |-> text[i]]
    <2>1. PICK a : a = SubSeq(text, 1, point)
      BY Zenon
    <2>2. a \in Seq(Chars) /\ Len(a) = point /\ \A i \in 1 .. point : a[i] = text[1 + i - 1]
      BY <1>4, <2>1, SubSeqElements
    <2>3. \A i \in 1 .. point : a[i] = text[i]
      BY <1>4, <2>2
    <2>4. a = [i \in 1 .. point |-> a[i]]
      BY <2>2
    <2> QED BY <2>1, <2>3, <2>4
  <1>7. as_bytes(input') = SubSeq(text, 1, point)
    BY <1>5, <1>6
  <1> QED BY <1>3, <1>7 DEF Editor!Kill, Editor!Before, text, point

(* The cursor keys move the insertion point.                               *)
LEMMA MoveStep ==
  ASSUME InputOK(input), NEW c \in 0 .. input.len, input' = [input EXCEPT !.cursor = c]
  PROVE  Editor!Move
  <1>1. input'.cursor = c /\ input'.len = input.len /\ input'.buffer = input.buffer
    BY DEF InputOK
  <1>2. as_bytes(input') = as_bytes(input)
    BY <1>1 DEF as_bytes
  <1>3. c \in 0 .. Len(text)
    BY TextFacts
  <1> QED BY <1>1, <1>2, <1>3 DEF Editor!Move, text

LEMMA MoveKeys ==
  ASSUME InputOK(input), ArrowLeft \/ ArrowRight \/ Home \/ End
  PROVE  Editor!Move
  <1>1. input.cursor \in 0 .. input.len /\ input.len \in Nat
    BY LimitFacts DEF InputOK
  <1>2. input = [input EXCEPT !.cursor = input.cursor]
    BY DEF InputOK
  <1>3. CASE ArrowLeft
    <2>1. input' = IF input.cursor > 0 THEN [input EXCEPT !.cursor = input.cursor - 1] ELSE input
      BY <1>3 DEF ArrowLeft, Edit, cursor_left
    <2>2. input.cursor > 0 => input.cursor - 1 \in 0 .. input.len
      BY <1>1
    <2> QED BY <1>1, <1>2, <2>1, <2>2, MoveStep
  <1>4. CASE ArrowRight
    <2>1. input' = IF input.cursor < input.len THEN [input EXCEPT !.cursor = input.cursor + 1]
                   ELSE input
      BY <1>4 DEF ArrowRight, Edit, cursor_right
    <2>2. input.cursor < input.len => input.cursor + 1 \in 0 .. input.len
      BY <1>1
    <2> QED BY <1>1, <1>2, <2>1, <2>2, MoveStep
  <1>5. CASE Home
    <2>1. input' = [input EXCEPT !.cursor = 0] /\ 0 \in 0 .. input.len
      BY <1>1, <1>5 DEF Home, Edit, cursor_home
    <2> QED BY <2>1, MoveStep
  <1>6. CASE End
    <2>1. input' = [input EXCEPT !.cursor = input.len] /\ input.len \in 0 .. input.len
      BY <1>1, <1>6 DEF End, Edit, cursor_end
    <2> QED BY <2>1, MoveStep
  <1> QED BY <1>3, <1>4, <1>5, <1>6

(* A line that is cleared or recalled replaces the text.                   *)
LEMMA ReplaceStep ==
  ASSUME InputOK(input'), input'.cursor = input'.len
  PROVE  Editor!Replace
  <1>1. Len(as_bytes(input')) = input'.len /\ input'.len <= Limit
    BY BytesFacts
  <1> QED BY <1>1 DEF Editor!Replace

LEMMA ClearStep ==
  ASSUME InputOK(input), InputOK(input'), input' = clear(input)
  PROVE  Editor!Replace
  <1>1. input'.cursor = 0 /\ input'.len = 0
    BY DEF clear, InputOK
  <1> QED BY <1>1, ReplaceStep, SMTT(30)

LEMMA SetStep ==
  ASSUME InputOK(input'), NEW s, input' = set(input, s)
  PROVE  Editor!Replace
  <1>1. input'.cursor = input'.len
    BY SMTT(60) DEF set
  <1> QED BY <1>1, ReplaceStep

LEMMA RecallStep ==
  ASSUME InputOK(input), InputOK(input'), ArrowUp \/ ArrowDown
  PROVE  Editor!Replace \/ UNCHANGED input
  <1>1. \/ UNCHANGED input \/ input' = clear(input)
        \/ \E s : input' = set(input, s)
    BY DEF ArrowUp, ArrowDown
  <1> QED BY <1>1, ClearStep, SetStep

(***************************************************************************)
(* InputBuffer shifts bytes in an array of MAX_LINE_LENGTH, and Tab stops  *)
(* in the middle of its four spaces when the array is full: what the user  *)
(* sees is a text with an insertion point, for every line length.          *)
(***************************************************************************)
THEOREM LineImplementsEditor == LineSpec => EditsLine
  <1>1. LineInit => Editor!Init
    <2> SUFFICES ASSUME LineInit PROVE Editor!Init
      OBVIOUS
    <2>1. input.len = 0 /\ input.cursor = 0
      BY Zenon DEF LineInit
    <2>2. as_bytes(input) = <<>>
      BY <2>1 DEF as_bytes
    <2> QED BY <2>1, <2>2 DEF Editor!Init
  <1>2. LineInv /\ LineInv' /\ [LineNext]_line_vars => [Editor!Next]_Editor!vars
    <2> SUFFICES ASSUME LineInv, LineInv', [LineNext]_line_vars
                 PROVE  Editor!Next \/ UNCHANGED Editor!vars
      OBVIOUS
    <2>1. InputOK(input) /\ InputOK(input')
      BY DEF LineInv
    <2>2. UNCHANGED input => UNCHANGED Editor!vars
      BY DEF Editor!vars
    <2>3. ASSUME NEW c \in Chars, Char(c) PROVE Editor!Next
      BY <2>1, <2>3, CharStep, Zenon DEF Editor!Next
    <2>4. CASE Tab
      BY <2>1, <2>4, TabStep, Zenon DEF Editor!Next
    <2>5. CASE Backspace
      BY <2>1, <2>2, <2>5, BackspaceStep, ZenonT(40) DEF Editor!Next
    <2>6. CASE Delete
      BY <2>1, <2>2, <2>6, DeleteStep, Zenon DEF Editor!Next
    <2>7. CASE Escape
      BY <2>1, <2>7, ClearStep DEF Editor!Next, Escape, Edit
    <2>8. CASE CtrlK
      BY <2>1, <2>8, KillStep DEF Editor!Next
    <2>9. CASE ArrowLeft \/ ArrowRight \/ Home \/ End
      BY <2>1, <2>9, MoveKeys, ZenonT(40) DEF Editor!Next
    <2>10. CASE ArrowUp \/ ArrowDown
      BY <2>1, <2>2, <2>10, RecallStep, Zenon DEF Editor!Next
    <2>11. ASSUME NEW exits \in BOOLEAN, EnterLine(exits)
           PROVE  Editor!Next \/ UNCHANGED Editor!vars
      <3>1. UNCHANGED input \/ input' = clear(input)
        BY <2>11 DEF EnterLine
      <3> QED BY <2>1, <2>2, <3>1, ClearStep, ZenonT(40) DEF Editor!Next
    <2>12. CASE UNCHANGED line_vars
      BY <2>2, <2>12 DEF line_vars
    <2> QED BY <2>3, <2>4, <2>5, <2>6, <2>7, <2>8, <2>9, <2>10, <2>11, <2>12 DEF LineNext
  <1> QED BY <1>1, <1>2, LineInvariant, PTL DEF LineSpec, EditsLine, Editor!Spec

---------------------------------------------------------------------------
(***************************************************************************)
(* Every key of the terminal, the commands included, acts on the line as   *)
(* one step of the line, or leaves it alone.                               *)
(***************************************************************************)
THEOREM TerminalKeysEditLine == Spec => KeysAreLineSteps
  <1>1. Init => LineInit
    BY DEF Init
  <1>2. [Next]_vars => [LineNext]_line_vars
    <2> SUFFICES ASSUME [Next]_vars PROVE LineNext \/ UNCHANGED line_vars
      OBVIOUS
    <2>1. CASE EditKey
      BY <2>1 DEF EditKey, LineNext
    <2>2. CASE Enter
      <3>1. EnterLine(TRUE) \/ EnterLine(FALSE)
        BY <2>2, Zenon DEF Enter, EnterNothing, EnterCommand, EnterClear, EnterExit
      <3> QED BY <3>1, Zenon DEF LineNext
    <2>3. CASE CtrlC
      BY <2>3 DEF CtrlC, LineNext
    <2>4. CASE CtrlD \/ CtrlL \/ EndBatch
      BY <2>4 DEF CtrlD, CtrlL, EndBatch
    <2>5. CASE UNCHANGED vars
      BY <2>5 DEF vars
    <2> QED BY <2>1, <2>2, <2>3, <2>4, <2>5 DEF Next, handle_key
  <1> QED BY <1>1, <1>2, PTL DEF Spec, KeysAreLineSteps, LineSpec

(* So the terminal's own behaviours keep what is proved of the line: the   *)
(* arrows recall whole commands, and the buffer is a text editor.          *)
THEOREM TerminalRecalls == Spec => []RecallsCommand
  BY TerminalKeysEditLine, ArrowsRecall, PTL DEF KeysAreLineSteps

(* The same for the refinement of LineEditor.                              *)
THEOREM TerminalImplementsEditor == Spec => EditsLine
  BY TerminalKeysEditLine, LineImplementsEditor, PTL DEF KeysAreLineSteps

=============================================================================
