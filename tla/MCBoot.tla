------------------------------- MODULE MCBoot -------------------------------
(***************************************************************************)
(* Images with every layout of two sections in up to four pages of 4       *)
(* bytes; manifests with every sequence of three lines, and the manifests  *)
(* of every small dependency graph.  Service 5 is never declared.          *)
(***************************************************************************)
EXTENDS Boot

MCService == 1..5

Headers ==
    [magic : {TRUE}, version : {TRUE}, header_size : {1, 2, 5}, entry_offset : {0, 3},
     text_offset : {0, 2, 4, 8, 12}, text_size : {0, 3, 4, 5, 15},
     data_offset : {4, 8, 12}, data_size : {0, 4, 5, 12}]

Present(h, size) == [present |-> TRUE, header |-> h, size |-> size]

Spoiled == {Present([EmbeddedHeader EXCEPT !.magic = FALSE], 8),
            Present([EmbeddedHeader EXCEPT !.version = FALSE], 8)}

MCPayloads == {NoImage} \cup Spoiled \cup {Present(h, size) : h \in Headers, size \in {1, 8, 12, 15}}

Section(n) == [kind |-> "section", name |-> n]
Line(kind) == [kind |-> kind]
Assign(key, v) == [kind |-> key, value |-> v]
Binary == Assign("binary", "path")

Lines == {Section(1), Section(2), Binary, Assign("binary", Empty),
          Assign("capabilities", <<"cap">>), Assign("depends_on", <<2>>), Assign("depends_on", <<>>)}
         \cup {Line(k) : k \in {"bracket", "array", "key", "text", "comment"}}

ShortTexts == UNION {[1..n -> Lines] : n \in 0..3}

\* The manifest of a dependency graph, the services in descending order.
Declared(n, ds) == <<Section(n), Assign("depends_on", ds), Binary>>
GraphText(g) ==
    LET n == Len(g)
    IN  [i \in 1..3 * n |-> Declared(n - (i - 1) \div 3, g[n - (i - 1) \div 3])[((i - 1) % 3) + 1]]

Lists(S) == {<<>>} \cup {<<d>> : d \in S} \cup {l \in S \X S : l[1] # l[2]}

Graphs == [1..3 -> Lists(1..3)] \cup [1..2 -> Lists({1, 2, 5})]
          \cup [1..4 -> {<<>>} \cup {<<d>> : d \in 1..4}]

OneService == <<Section(1), Binary>>

MCTexts == ShortTexts \cup {GraphText(g) : g \in Graphs}

\* One of the two inputs is varied at a time.
MCBoots == [payload : MCPayloads, text : {OneService}] \cup [payload : {NoImage}, text : MCTexts]
=============================================================================
