----------------------------- MODULE RingBuffer -----------------------------
(***************************************************************************)
(* RingBuffer<N> of kernel/src/input.rs: N cells, of which one is always   *)
(* left free to tell a full buffer from an empty one.                      *)
(***************************************************************************)
EXTENDS Integers, Sequences

new_ring(N) == [buffer |-> [i \in 0 .. N - 1 |-> 0], head |-> 0, tail |-> 0]

\* The buffer after push, and what push returns: whether the byte was stored.
push_AtNext(r, N, byte) ==
    LET next_head == (r.head + 1) % N
    IN  IF next_head = r.tail
        THEN [ring |-> r, stored |-> FALSE]
        ELSE [ring |-> [r EXCEPT !.buffer[next_head] = byte, !.head = next_head],
              stored |-> TRUE]

push(r, N, byte) ==
    LET next_head == (r.head + 1) % N
    IN  IF next_head = r.tail
        THEN [ring |-> r, stored |-> FALSE]
        ELSE [ring |-> [r EXCEPT !.buffer[r.head] = byte, !.head = next_head],
              stored |-> TRUE]

is_empty(r) == r.head = r.tail

\* What pop returns from a buffer that is not empty, and the buffer after it.
front(r) == r.buffer[r.tail]

pop(r, N) == [r EXCEPT !.tail = (r.tail + 1) % N]

len(r, N) == IF r.head >= r.tail THEN r.head - r.tail ELSE N - r.tail + r.head

\* The bytes stored, oldest first.
Contents(r, N) == [i \in 1 .. len(r, N) |-> r.buffer[(r.tail + i - 1) % N]]
=============================================================================
