---------------------------- MODULE StartupProofs ----------------------------
(***************************************************************************)
(* The plan of StartupOrder is a topological order of all the services,    *)
(* and refusals have their reason, for every manifest; the boot plans as   *)
(* StartupOrder does, parses exactly the well-formed manifests and starts  *)
(* only from a sound image.                                                *)
(***************************************************************************)
EXTENDS Boot, SeqLemmas, TLAPS

(* What the stack says of the services being visited.  The part of         *)
(* depends_on that a frame has passed is in the plan already, except for   *)
(* the dependency whose visit is the frame above it.                       *)
Frame(i) ==
    /\ stack[i].name \in DOMAIN deps
    /\ stack[i].name \notin visited
    /\ stack[i].next \in 1..Len(deps[stack[i].name]) + 1
    /\ \A k \in 1..stack[i].next - 1 :
         \/ deps[stack[i].name][k] \in visited
         \/ i + 1 \in DOMAIN stack /\ deps[stack[i].name][k] = stack[i + 1].name
    /\ i + 1 \in DOMAIN stack => /\ stack[i].next > 1
                                 /\ deps[stack[i].name][stack[i].next - 1] = stack[i + 1].name

Chain ==
    /\ result # "running" => stack = <<>>
    /\ \A i \in DOMAIN stack : Frame(i)
    /\ \A i, j \in DOMAIN stack : i # j => stack[i].name # stack[j].name

(* Every declared service is planned, being visited, or still to be        *)
(* looked at.                                                              *)
Accounted == result = "running" => DOMAIN deps \subseteq keys \cup visited \cup visiting

OrderInv == OrderTypeOK /\ PlanTopological /\ PlanComplete /\ RefusalsJustified /\ Chain /\ Accounted

---------------------------------------------------------------------------
(* A sequence without its last element, and one with an element more.      *)
LEMMA PrefixFacts ==
  ASSUME NEW S, NEW s, NEW m \in Nat, \A i \in 1..m : s[i] \in S
  PROVE  /\ SubSeq(s, 1, m) \in Seq(S)
         /\ Len(SubSeq(s, 1, m)) = m
         /\ \A i \in 1..m : SubSeq(s, 1, m)[i] = s[i]
  <1>1. /\ SubSeq(s, 1, m) \in Seq(S)
        /\ Len(SubSeq(s, 1, m)) = IF 1 <= m THEN m - 1 + 1 ELSE 0
        /\ \A i \in 1..m - 1 + 1 : SubSeq(s, 1, m)[i] = s[1 + i - 1]
    BY SubSeqElements, SMT
  <1>2. m - 1 + 1 = m /\ \A i \in 1..m : 1 + i - 1 = i
    OBVIOUS
  <1> QED  BY <1>1, <1>2

(* What is left of the stack of visit when its top frame is popped.        *)
LEMMA PopFacts ==
  ASSUME NEW S, NEW s \in Seq(S), s # <<>>
  PROVE  /\ SubSeq(s, 1, Len(s) - 1) \in Seq(S)
         /\ Len(SubSeq(s, 1, Len(s) - 1)) = Len(s) - 1
         /\ \A i \in 1..Len(s) - 1 : SubSeq(s, 1, Len(s) - 1)[i] = s[i]
  <1> DEFINE m == Len(s) - 1
  <1>1. m \in Nat /\ \A i \in 1..m : s[i] \in S
    OBVIOUS
  <1>2. /\ SubSeq(s, 1, m) \in Seq(S)
        /\ Len(SubSeq(s, 1, m)) = m
        /\ \A i \in 1..m : SubSeq(s, 1, m)[i] = s[i]
    <2> HIDE DEF m
    <2> QED  BY <1>1, PrefixFacts
  <1> QED  BY <1>2

(* The stack of visit, or the plan, with one more entry.                   *)
LEMMA PushFacts ==
  ASSUME NEW S, NEW s \in Seq(S), NEW e \in S
  PROVE  /\ Append(s, e) \in Seq(S)
         /\ Len(Append(s, e)) = Len(s) + 1
         /\ Append(s, e)[Len(s) + 1] = e
         /\ \A i \in 1..Len(s) : Append(s, e)[i] = s[i]
  BY AppendElements

(* The search starts with nothing planned.                                 *)
LEMMA OrderInitInv == OrderInit => OrderInv
  BY ServiceAssumption DEF OrderInit, OrderInv, OrderTypeOK, PlanTopological, PlanComplete, RefusalsJustified,
     Chain, Accounted, IsManifest, Frames, Errors

(* A new call of startup_order starts from nothing, whatever came before.  *)
LEMMA StartInv == OrderInv /\ startup_order => OrderInv'
  BY ServiceAssumption DEF startup_order, OrderInv, OrderTypeOK, PlanTopological, PlanComplete,
     RefusalsJustified, Chain, Accounted, IsManifest, Frames, Errors

(* An error leaves an invariant state if it has its reason.                *)
LEMMA RefuseInv ==
  ASSUME OrderInv, NEW reason \in Errors, Refuse(reason), UNCHANGED deps, keys' \in SUBSET keys,
         reason = "UnknownDependency" => Unresolved,
         reason = "DependencyCycle" => \E S \in SUBSET DOMAIN deps : Circular(S)
  PROVE  OrderInv'
  <1>1. OrderTypeOK' /\ PlanTopological' /\ PlanComplete' /\ Chain' /\ Accounted'
    BY DEF Refuse, OrderInv, OrderTypeOK, PlanTopological, PlanComplete, Chain, Accounted, Frames,
       Errors, IsManifest
  <1>2. RefusalsJustified'
    <2>1. result' = reason /\ deps' = deps
      BY DEF Refuse
    <2>2. Unresolved' <=> Unresolved
      BY <2>1 DEF Unresolved, Dependencies
    <2>3. ASSUME NEW S \in SUBSET DOMAIN deps PROVE Circular(S)' <=> Circular(S)
      BY <2>1 DEF Circular, Dependencies
    <2> QED  BY <2>1, <2>2, <2>3, Zenon DEF RefusalsJustified
  <1> QED  BY <1>1, <1>2 DEF OrderInv

(* A name the outer loop looks at is planned already or becomes the first  *)
(* frame of a search.                                                      *)
LEMMA NextKeyInv == OrderInv /\ NextKey => OrderInv'
  <1> SUFFICES ASSUME OrderInv, NextKey PROVE OrderInv'
    OBVIOUS
  <1>1. PICK name \in keys :
          /\ keys' = keys \ {name}
          /\ IF name \in visited THEN UNCHANGED <<stack, visiting, visited, order, result>>
             ELSE visit(name, <<>>)
    BY DEF NextKey
  <1>2. result = "running" /\ stack = <<>> /\ visiting = {} /\ deps' = deps
    BY DEF NextKey, OrderInv, OrderTypeOK
  <1>3. name \in DOMAIN deps /\ name \in Service
    BY DEF OrderInv, OrderTypeOK, IsManifest
  <1>4. CASE name \in visited
    BY <1>1, <1>2, <1>4 DEF OrderInv, OrderTypeOK, PlanTopological, PlanComplete, RefusalsJustified,
       Chain, Accounted, Unresolved, Circular, Dependencies, Frames, Errors
  <1>5. CASE name \notin visited
    <2>1. /\ stack' = <<[name |-> name, next |-> 1]>>
          /\ visiting' = {name}
          /\ UNCHANGED <<visited, order, result, deps>>
      BY <1>1, <1>2, <1>5 DEF visit
    <2>2. OrderTypeOK'
      BY <1>1, <1>2, <1>3, <2>1 DEF OrderInv, OrderTypeOK, Frames, IsManifest
    <2>3. PlanTopological' /\ PlanComplete' /\ RefusalsJustified' /\ Accounted'
      BY <1>1, <1>2, <2>1 DEF OrderInv, PlanTopological, PlanComplete, RefusalsJustified, Accounted,
         Unresolved, Circular, Dependencies
    <2>4. Chain'
      BY ONLY <1>2, <1>3, <1>5, <2>1, SMTT(60) DEF OrderInv, OrderTypeOK, Chain, Frame, IsManifest
    <2> QED  BY <2>2, <2>3, <2>4 DEF OrderInv
  <1> QED  BY <1>4, <1>5

(* Looking at a dependency: it is undeclared, closes a circle, is planned  *)
(* already, or becomes the frame above.                                    *)
LEMMA NextDependencyInv == OrderInv /\ NextDependency => OrderInv'
  <1> SUFFICES ASSUME OrderInv, NextDependency PROVE OrderInv'
    OBVIOUS
  <1> DEFINE n == Len(stack)
             dep == deps[Top.name][Top.next]
             below == Append(Below, [Top EXCEPT !.next = @ + 1])
  <1>1. /\ result = "running" /\ stack # <<>> /\ stack \in Seq(Frames)
        /\ n \in Nat \ {0} /\ DOMAIN stack = 1..n /\ n \in DOMAIN stack
        /\ Top = stack[n] /\ Top \in Frames
        /\ deps' = deps /\ keys' = keys
    BY DEF NextDependency, OrderInv, OrderTypeOK, Top
  <1>2. /\ Top.name \in DOMAIN deps /\ deps[Top.name] \in Seq(Service)
        /\ Top.next \in 1..Len(deps[Top.name]) /\ dep \in Service
        /\ dep \in Dependencies(Top.name)
    <2>1. Top.name \in DOMAIN deps
      BY <1>1 DEF OrderInv, Chain, Frame
    <2>2. deps[Top.name] \in Seq(Service)
      BY <2>1 DEF OrderInv, OrderTypeOK, IsManifest
    <2> QED  BY <2>1, <2>2 DEF NextDependency, Dependencies
  <1>a. /\ IF dep \notin DOMAIN deps THEN Refuse("UnknownDependency") ELSE visit(dep, below)
        /\ below \in Seq(Frames) /\ Len(below) = n
        /\ below[n].name = Top.name /\ below[n].next = Top.next + 1
        /\ \A i \in 1..n - 1 : below[i] = stack[i]
    <2>1. IF dep \notin DOMAIN deps THEN Refuse("UnknownDependency") ELSE visit(dep, below)
      BY DEF NextDependency
    <2>2. Below \in Seq(Frames) /\ Len(Below) = n - 1 /\ \A i \in 1..n - 1 : Below[i] = stack[i]
      BY <1>1, PopFacts DEF Below
    <2> DEFINE top == [Top EXCEPT !.next = @ + 1]
    <2>3. top \in Frames /\ top.name = Top.name /\ top.next = Top.next + 1
      BY <1>1, SMTT(60) DEF Frames
    <2> HIDE DEF top
    <2>4. /\ Append(Below, top) \in Seq(Frames)
          /\ Len(Append(Below, top)) = Len(Below) + 1
          /\ Append(Below, top)[Len(Below) + 1] = top
          /\ \A i \in 1..Len(Below) : Append(Below, top)[i] = Below[i]
      BY <2>2, <2>3, PushFacts
    <2>5. Len(Below) + 1 = n
      BY <1>1, <2>2
    <2> QED  BY <2>1, <2>2, <2>3, <2>4, <2>5 DEF top
  <1> HIDE DEF n, dep, below
  <1>3. CASE dep \notin DOMAIN deps
    <2>1. Refuse("UnknownDependency") /\ Unresolved
      BY <1>2, <1>3, <1>a DEF Unresolved
    <2> QED  BY <1>1, <2>1, RefuseInv DEF Errors
  <1>4. CASE dep \in DOMAIN deps /\ dep \in visiting
    <2>1. Refuse("DependencyCycle")
      BY <1>4, <1>a DEF visit
    <2>2. PICK k \in DOMAIN stack : stack[k].name = dep
      BY <1>4 DEF OrderInv, OrderTypeOK
    <2> DEFINE S == {stack[i].name : i \in k..n}
    <2>3. S \in SUBSET DOMAIN deps /\ S # {}
      <3>1. \A i \in k..n : stack[i].name \in DOMAIN deps
        BY <1>1, <2>2 DEF OrderInv, Chain, Frame
      <3>2. k \in k..n
        BY <1>1, <2>2
      <3> QED  BY <3>1, <3>2
    <2>4. ASSUME NEW i \in k..n PROVE \E d \in S : d \in Dependencies(stack[i].name)
      <3>1. CASE i = n
        BY <1>1, <1>2, <2>2, <3>1
      <3>2. CASE i # n
        <4>1. i \in DOMAIN stack /\ i + 1 \in DOMAIN stack /\ i + 1 \in k..n
          BY <1>1, <2>2, <3>2
        <4>2. stack[i].next - 1 \in DOMAIN deps[stack[i].name]
          <5>1. Frame(i)
            BY <4>1, Zenon DEF OrderInv, Chain
          <5>2. /\ stack[i].next \in 1..Len(deps[stack[i].name]) + 1 /\ stack[i].next > 1
                /\ stack[i].name \in DOMAIN deps
            BY <4>1, <5>1, Zenon DEF Frame
          <5>3. deps[stack[i].name] \in Seq(Service)
            BY <5>2 DEF OrderInv, OrderTypeOK, IsManifest
          <5> QED  BY ONLY <5>2, <5>3, SMTT(60)
        <4>3. stack[i + 1].name \in Dependencies(stack[i].name)
          BY <4>1, <4>2 DEF OrderInv, Chain, Frame, Dependencies
        <4> QED  BY <4>1, <4>3
      <3> QED  BY <3>1, <3>2
    <2>5. Circular(S)
      BY <2>3, <2>4 DEF Circular
    <2> QED  BY <1>1, <2>1, <2>3, <2>5, RefuseInv DEF Errors
  <1>5. CASE dep \in DOMAIN deps /\ dep \notin visiting
    <2>1. DOMAIN below = 1..n /\ \A i \in 1..n - 1 : below[i] = stack[i]
      BY <1>1, <1>a
    <2>2. \A i \in 1..n : below[i].name = stack[i].name
      BY <1>1, <1>a
    <2>3. /\ UNCHANGED <<visited, order, result>>
          /\ IF dep \in visited THEN stack' = below /\ UNCHANGED visiting
             ELSE /\ stack' = Append(below, [name |-> dep, next |-> 1])
                  /\ visiting' = visiting \cup {dep}
      BY <1>5, <1>a DEF visit
    <2>4. PlanTopological' /\ PlanComplete' /\ RefusalsJustified'
      BY <1>1, <2>3 DEF OrderInv, PlanTopological, PlanComplete, RefusalsJustified, Unresolved,
         Circular, Dependencies
    <2>5. Accounted'
      BY <1>1, <2>3 DEF OrderInv, Accounted
    <2>6. CASE dep \in visited
      <3>1. stack' = below /\ visiting' = visiting /\ DOMAIN stack' = 1..n
        BY <2>1, <2>3, <2>6
      <3>a. OrderTypeOK'
        <4>1. visiting' = {stack'[i].name : i \in DOMAIN stack'}
          BY <1>1, <2>2, <3>1 DEF OrderInv, OrderTypeOK
        <4> QED  BY <1>1, <1>a, <2>3, <3>1, <4>1, ZenonT(120) DEF OrderInv, OrderTypeOK, IsManifest
      <3>2. ASSUME NEW i \in DOMAIN stack' PROVE Frame(i)'
        <4>1. i \in 1..n /\ Frame(i) /\ stack'[i].name = stack[i].name
          BY <1>1, <2>2, <3>1 DEF OrderInv, Chain
        <4>2. CASE i = n
          <5>1. stack'[n].next = stack[n].next + 1 /\ n + 1 \notin DOMAIN stack'
            BY <1>1, <1>a, <3>1
          <5>2. deps[stack[n].name][stack[n].next] \in visited
            BY <1>1, <2>6 DEF dep
          <5>3. \A k \in 1..stack[n].next : deps[stack[n].name][k] \in visited
            BY <1>1, <1>2, <4>1, <4>2, <5>2 DEF Frame, Frames
          <5>4. stack[n].next + 1 \in 1..Len(deps[stack[n].name]) + 1
            BY <1>1, <1>2
          <5> QED  BY ONLY <1>1, <2>3, <4>1, <4>2, <5>1, <5>3, <5>4 DEF Frame, Frames
        <4>3. CASE i # n
          <5>1. i + 1 \in 1..n /\ stack'[i] = stack[i] /\ stack'[i + 1].name = stack[i + 1].name
            BY <1>1, <2>1, <2>2, <3>1, <4>1, <4>3
          <5> QED  BY <1>1, <2>3, <3>1, <4>1, <5>1 DEF Frame
        <4> QED  BY <4>2, <4>3
      <3>3. Chain'
        BY <1>1, <2>2, <2>3, <3>1, <3>2 DEF OrderInv, Chain
      <3> QED  BY <2>4, <2>5, <3>a, <3>3 DEF OrderInv
    <2>7. CASE dep \notin visited
      <3>1. /\ stack' \in Seq(Frames) /\ Len(stack') = n + 1
            /\ stack'[n + 1] = [name |-> dep, next |-> 1]
            /\ \A i \in 1..n : stack'[i] = below[i] /\ stack'[i].name = stack[i].name
        <4> DEFINE new == [name |-> dep, next |-> 1]
        <4>1. new \in Frames /\ stack' = Append(below, new)
          BY <1>2, <2>3, <2>7 DEF Frames
        <4> HIDE DEF new
        <4>2. /\ Append(below, new) \in Seq(Frames)
              /\ Len(Append(below, new)) = Len(below) + 1
              /\ Append(below, new)[Len(below) + 1] = new
              /\ \A i \in 1..Len(below) : Append(below, new)[i] = below[i]
          BY <1>a, <4>1, PushFacts
        <4> QED  BY <1>a, <2>2, <4>1, <4>2 DEF new
      <3>a. DOMAIN stack' = 1..n + 1
        BY <3>1
      <3>2. OrderTypeOK'
        <4>1. visiting' = {stack'[i].name : i \in DOMAIN stack'}
          <5>1. visiting = {stack[i].name : i \in 1..n} /\ visiting' = visiting \cup {dep}
            BY <1>1, <2>3, <2>7 DEF OrderInv, OrderTypeOK
          <5>2. stack'[n + 1].name = dep
            BY <3>1
          <5>3. \A i \in 1..n : i \in DOMAIN stack' /\ stack'[i].name = stack[i].name
            BY <1>1, <3>1, <3>a
          <5>4. n + 1 \in DOMAIN stack' /\ \A i \in DOMAIN stack' : i \in 1..n \/ i = n + 1
            BY <1>1, <3>a
          <5>5. ASSUME NEW x \in visiting' PROVE \E i \in DOMAIN stack' : x = stack'[i].name
            BY <5>1, <5>2, <5>3, <5>4, Zenon
          <5>6. ASSUME NEW i \in DOMAIN stack' PROVE stack'[i].name \in visiting'
            BY <5>1, <5>2, <5>3, <5>4, Zenon
          <5> QED  BY <5>5, <5>6, Zenon
        <4> QED  BY <1>1, <2>3, <3>1, <4>1 DEF OrderInv, OrderTypeOK, IsManifest
      <3>3. ASSUME NEW i \in DOMAIN stack' PROVE Frame(i)'
        <4>1. CASE i = n + 1
          BY ONLY <1>1, <1>5, <2>3, <2>7, <3>1, <3>a, <4>1, SMTT(60) DEF Frame, OrderInv, OrderTypeOK, IsManifest
        <4>2. CASE i = n
          <5>1. Frame(n) /\ stack'[n].name = Top.name /\ stack'[n].next = Top.next + 1
            BY <1>1, <1>a, <3>1 DEF OrderInv, Chain
          <5>2. n + 1 \in DOMAIN stack' /\ stack'[n + 1].name = deps[Top.name][Top.next]
            BY ONLY <1>1, <3>1, <3>a DEF dep
          <5>3. /\ Top.next + 1 \in 1..Len(deps[Top.name]) + 1 /\ Top.next + 1 > 1
                /\ \A k \in 1..Top.next : k \in 1..Top.next - 1 \/ k = Top.next
            BY ONLY <1>2, SMTT(60)
          <5>4. \A k \in 1..Top.next - 1 : deps[Top.name][k] \in visited
            <6>1. n + 1 \notin DOMAIN stack
              BY ONLY <1>1, SMTT(60)
            <6> QED  BY <1>1, <5>1, <6>1, Zenon DEF Frame
          <5>5. Top.name \in DOMAIN deps /\ Top.name \notin visited
            BY <1>1, <5>1, Zenon DEF Frame
          <5>6. deps' = deps /\ visited' = visited
            BY <1>1, <2>3, Zenon
          <5> HIDE DEF n, dep
          <5>7. \A k \in 1..Top.next :
                  \/ deps[Top.name][k] \in visited
                  \/ n + 1 \in DOMAIN stack' /\ deps[Top.name][k] = stack'[n + 1].name
            BY <5>2, <5>3, <5>4, Zenon
          <5>8. stack'[n].next - 1 = Top.next
            BY ONLY <1>2, <5>1, SMTT(60)
          <5>9. /\ stack'[n].name \in DOMAIN deps' /\ stack'[n].name \notin visited'
                /\ stack'[n].next \in 1..Len(deps'[stack'[n].name]) + 1
                /\ stack'[n].next > 1
                /\ deps'[stack'[n].name][stack'[n].next - 1] = stack'[n + 1].name
            BY <5>1, <5>2, <5>3, <5>5, <5>6, <5>8, Zenon
          <5>10. \A k \in 1..stack'[n].next - 1 :
                   \/ deps'[stack'[n].name][k] \in visited'
                   \/ n + 1 \in DOMAIN stack' /\ deps'[stack'[n].name][k] = stack'[n + 1].name
            BY <5>1, <5>6, <5>7, <5>8, Zenon
          <5> QED  BY <4>2, <5>9, <5>10, Zenon DEF Frame
        <4>3. CASE i \in 1..n - 1
          <5>1. Frame(i) /\ stack'[i] = stack[i] /\ stack'[i + 1].name = stack[i + 1].name
            BY <1>1, <2>1, <3>1, <4>3 DEF OrderInv, Chain
          <5>2. i + 1 \in DOMAIN stack /\ i + 1 \in DOMAIN stack'
            BY ONLY <1>1, <3>a, <4>3, SMTT(60)
          <5>3. deps' = deps /\ visited' = visited
            BY <1>1, <2>3, Zenon
          <5> QED  BY ONLY <5>1, <5>2, <5>3, ZenonT(60) DEF Frame
        <4> QED  BY <1>1, <3>a, <4>1, <4>2, <4>3
      <3>4. \A i \in 1..n : stack[i].name # dep
        BY <1>1, <1>5 DEF OrderInv, OrderTypeOK
      <3>5. Chain'
        BY <1>1, <2>3, <3>1, <3>a, <3>3, <3>4 DEF OrderInv, Chain
      <3> QED  BY <2>4, <2>5, <3>2, <3>5 DEF OrderInv
    <2> QED  BY <2>6, <2>7
  <1> QED  BY <1>3, <1>4, <1>5

(* A service enters the plan when all it depends on is there.              *)
LEMMA ReturnInv == OrderInv /\ Return => OrderInv'
  <1> SUFFICES ASSUME OrderInv, Return PROVE OrderInv'
    OBVIOUS
  <1> DEFINE n == Len(stack)
             m == Len(order)
  <1>1. /\ result = "running" /\ stack # <<>> /\ stack \in Seq(Frames) /\ order \in Seq(Service)
        /\ n \in Nat \ {0} /\ m \in Nat /\ DOMAIN stack = 1..n /\ DOMAIN order = 1..m
        /\ n \in DOMAIN stack /\ Top = stack[n] /\ Top \in Frames
        /\ stack' = Below /\ visiting' = visiting \ {Top.name} /\ visited' = visited \cup {Top.name}
        /\ order' = Append(order, Top.name) /\ UNCHANGED <<deps, keys, result>>
    BY DEF Return, OrderInv, OrderTypeOK, Top
  <1>2. Frame(n) /\ Top.name \in DOMAIN deps /\ Top.name \in Service /\ Top.name \notin visited
        /\ deps[Top.name] \in Seq(Service)
    BY <1>1, Zenon DEF OrderInv, OrderTypeOK, Chain, Frame, IsManifest, Frames
  <1>3. \A d \in Dependencies(Top.name) : d \in visited
    <2>1. Top.next = Len(deps[Top.name]) + 1
      BY <1>1, <1>2 DEF Frame, Return
    <2>2. n + 1 \notin DOMAIN stack
      BY <1>1
    <2>3. \A k \in 1..Top.next - 1 : deps[Top.name][k] \in visited
      BY <1>1, <1>2, <2>2, SMTT(60) DEF Frame
    <2>4. DOMAIN deps[Top.name] = 1..Top.next - 1
      BY <1>2, <2>1
    <2> QED  BY <2>3, <2>4 DEF Dependencies
  <1>4. /\ stack' \in Seq(Frames) /\ Len(stack') = n - 1 /\ DOMAIN stack' = 1..n - 1
        /\ \A i \in 1..n - 1 : stack'[i] = stack[i]
    <2>1. /\ Below \in Seq(Frames) /\ Len(Below) = n - 1
          /\ \A i \in 1..n - 1 : Below[i] = stack[i]
      BY <1>1, PopFacts DEF Below
    <2>2. DOMAIN Below = 1..n - 1
      BY <2>1
    <2> QED  BY <1>1, <2>1, <2>2
  <1>5. /\ order' \in Seq(Service) /\ DOMAIN order' = 1..m + 1
        /\ order'[m + 1] = Top.name /\ \A i \in 1..m : order'[i] = order[i]
    BY <1>1, <1>2
  <1> HIDE DEF n, m
  <1>6. OrderTypeOK'
    <2>1. visiting' = {stack'[i].name : i \in DOMAIN stack'}
      <3>1. visiting = {stack[i].name : i \in 1..n} /\ stack[n].name = Top.name
        BY <1>1 DEF OrderInv, OrderTypeOK
      <3>2. \A i \in 1..n - 1 : i \in 1..n /\ stack[i].name # Top.name
        BY <1>1 DEF OrderInv, Chain
      <3>3. \A i \in 1..n : i = n \/ i \in 1..n - 1
        BY <1>1
      <3>4. visiting \ {Top.name} = {stack[i].name : i \in 1..n - 1}
        BY <3>1, <3>2, <3>3
      <3>5. {stack'[i].name : i \in DOMAIN stack'} = {stack[i].name : i \in 1..n - 1}
        BY <1>4
      <3>6. visiting' = visiting \ {Top.name}
        BY <1>1
      <3> QED  BY <3>4, <3>5, <3>6
    <2>2. visited' = {order'[i] : i \in DOMAIN order'}
      BY <1>1, <1>5 DEF OrderInv, OrderTypeOK
    <2> QED  BY <1>1, <1>4, <1>5, <2>1, <2>2, Zenon DEF OrderInv, OrderTypeOK, IsManifest
  <1>7. PlanTopological'
    <2>1. visited = {order[j] : j \in 1..m} /\ \A j \in 1..m : j \in 1..m + 1 /\ j < m + 1
      BY <1>1, SMTT(60) DEF OrderInv, OrderTypeOK
    <2>2. \A j \in 1..m : order[j] # Top.name
      BY <1>2, <2>1
    <2>3. \A d \in Dependencies(Top.name) : \E j \in 1..m + 1 : j < m + 1 /\ order'[j] = d
      BY <1>3, <1>5, <2>1
    <2>4. ASSUME NEW i \in 1..m
          PROVE  /\ order[i] \in DOMAIN deps
                 /\ \A j \in 1..m : i # j => order[i] # order[j]
                 /\ \A d \in Dependencies(order[i]) : \E j \in 1..m : j < i /\ order[j] = d
      BY <1>1, Zenon DEF OrderInv, PlanTopological
    <2>6. ASSUME NEW i \in 1..m + 1
          PROVE  /\ order'[i] \in DOMAIN deps
                 /\ \A j \in 1..m + 1 : i # j => order'[i] # order'[j]
                 /\ \A d \in Dependencies(order'[i]) :
                      \E j \in 1..m + 1 : j < i /\ order'[j] = d
      <3>1. CASE i = m + 1
        BY <1>1, <1>2, <1>5, <2>1, <2>2, <2>3, <3>1
      <3>2. CASE i \in 1..m
        BY <1>1, <1>2, <1>5, <2>1, <2>2, <2>4, <3>2
      <3>3. i = m + 1 \/ i \in 1..m
        BY <1>1
      <3> QED  BY <3>1, <3>2, <3>3
    <2>7. ASSUME NEW i \in 1..m + 1 PROVE Dependencies(order[i])' = Dependencies(order'[i])
      BY <1>1 DEF Dependencies
    <2>8. deps' = deps /\ DOMAIN order' = 1..m + 1
      BY <1>1, <1>5
    <2> QED  BY <2>6, <2>7, <2>8 DEF PlanTopological
  <1>8. PlanComplete' /\ RefusalsJustified' /\ Accounted'
    BY <1>1 DEF OrderInv, PlanComplete, RefusalsJustified, Accounted
  <1>9. Chain'
    <2>1. ASSUME NEW i \in DOMAIN stack' PROVE Frame(i)'
      <3>0. i \in 1..n - 1 /\ i \in DOMAIN stack /\ i # n
        BY <1>1, <1>4
      <3>1. i \in 1..n - 1 /\ Frame(i) /\ stack'[i] = stack[i] /\ stack[i].name # Top.name
        BY <1>1, <1>4, <3>0 DEF OrderInv, Chain
      <3>2. CASE i = n - 1
        <4>1. i + 1 \notin DOMAIN stack' /\ i + 1 = n /\ stack[n].name \in visited'
          BY <1>1, <1>4, <3>2
        <4> QED  BY <1>1, <3>1, <4>1, Zenon DEF Frame
      <3>3. CASE i # n - 1
        <4>1. i + 1 \in DOMAIN stack' /\ i + 1 \in DOMAIN stack /\ stack'[i + 1] = stack[i + 1]
          BY <1>1, <1>4, <3>1, <3>3
        <4> QED  BY <1>1, <3>1, <4>1, Zenon DEF Frame
      <3> QED  BY <3>2, <3>3
    <2>2. \A i \in DOMAIN stack' : i \in DOMAIN stack /\ stack'[i] = stack[i]
      BY <1>1, <1>4
    <2> QED  BY <1>1, <2>1, <2>2 DEF OrderInv, Chain
  <1> QED  BY <1>6, <1>7, <1>8, <1>9 DEF OrderInv

(* When the loop ends nothing is left to look at.                          *)
LEMMA FinishInv == OrderInv /\ Finish => OrderInv'
  <1> SUFFICES ASSUME OrderInv, Finish PROVE OrderInv'
    OBVIOUS
  <1>1. /\ result = "running" /\ stack = <<>> /\ keys = {} /\ result' = "Ok"
        /\ UNCHANGED <<deps, keys, stack, visiting, visited, order>>
    BY DEF Finish
  <1>2. visiting = {} /\ visited = {order[i] : i \in DOMAIN order}
    BY <1>1 DEF OrderInv, OrderTypeOK
  <1>3. PlanComplete'
    <2>1. DOMAIN deps \subseteq visited
      BY <1>1, <1>2 DEF OrderInv, Accounted
    <2>2. visited \subseteq DOMAIN deps
      BY <1>2 DEF OrderInv, PlanTopological
    <2> QED  BY <1>1, <1>2, <2>1, <2>2, Zenon DEF PlanComplete
  <1>4. OrderTypeOK' /\ PlanTopological' /\ RefusalsJustified' /\ Accounted'
    BY <1>1 DEF OrderInv, OrderTypeOK, PlanTopological, RefusalsJustified, Accounted, Dependencies,
       IsManifest
  <1>5. Chain'
    BY <1>1 DEF OrderInv, Chain, Frame
  <1> QED  BY <1>3, <1>4, <1>5 DEF OrderInv

(* A step that changes none of the search's variables.                     *)
LEMMA StutterInv == OrderInv /\ UNCHANGED order_vars => OrderInv'
  <1> SUFFICES ASSUME OrderInv, UNCHANGED order_vars PROVE OrderInv'
    OBVIOUS
  <1>1. OrderTypeOK' /\ PlanTopological' /\ PlanComplete' /\ Accounted'
    BY DEF order_vars, OrderInv, OrderTypeOK, PlanTopological, PlanComplete, Accounted, Dependencies,
       IsManifest
  <1>2. Unresolved' <=> Unresolved
    BY DEF order_vars, Unresolved, Dependencies
  <1>3. ASSUME NEW S \in SUBSET DOMAIN deps PROVE Circular(S)' <=> Circular(S)
    BY DEF order_vars, Circular, Dependencies
  <1>4. RefusalsJustified'
    BY <1>2, <1>3, Zenon DEF order_vars, OrderInv, RefusalsJustified
  <1>5. Chain'
    BY DEF order_vars, OrderInv, Chain, Frame
  <1> QED  BY <1>1, <1>4, <1>5 DEF OrderInv

(* Every reachable state of the search satisfies the invariant.            *)
THEOREM OrderInvariant == OrderSpec => []OrderInv
  <1>1. OrderInv /\ [OrderNext]_order_vars => OrderInv'
    BY StartInv, NextKeyInv, NextDependencyInv, ReturnInv, FinishInv, StutterInv
       DEF OrderNext, Search
  <1> QED  BY OrderInitInv, <1>1, PTL DEF OrderSpec

(* For every manifest: the plan startup_order builds is topological at     *)
(* every moment, and complete when it is accepted.                         *)
THEOREM PlanIsTopological == OrderSpec => [](OrderTypeOK /\ PlanTopological /\ PlanComplete)
  <1>1. OrderInv => OrderTypeOK /\ PlanTopological /\ PlanComplete
    BY DEF OrderInv
  <1> QED  BY <1>1, OrderInvariant, PTL

(* For every manifest: one that is accepted has no undeclared dependency   *)
(* and no circle.  The member of a circle that comes first in the plan     *)
(* would depend on one that comes before it.                               *)
THEOREM AcceptedIsSound == OrderSpec => []AcceptsOnlySound
  <1>1. OrderInv => AcceptsOnlySound
    <2> SUFFICES ASSUME OrderInv, result = "Ok"
                 PROVE  ~Unresolved /\ \A S \in SUBSET DOMAIN deps : ~Circular(S)
      BY DEF AcceptsOnlySound
    <2>1. /\ \A name \in DOMAIN deps : \E i \in DOMAIN order : order[i] = name
          /\ \A i \in DOMAIN order : order[i] \in DOMAIN deps
          /\ order \in Seq(Service)
      BY DEF OrderInv, OrderTypeOK, PlanComplete
    <2>2. \A i \in DOMAIN order : \A d \in Dependencies(order[i]) :
            \E j \in DOMAIN order : j < i /\ order[j] = d
      BY DEF OrderInv, PlanTopological
    <2>3. ~Unresolved
      BY <2>1, <2>2 DEF Unresolved
    <2>4. ASSUME NEW S \in SUBSET DOMAIN deps, Circular(S) PROVE FALSE
      <3> DEFINE T == {i \in DOMAIN order : order[i] \in S}
      <3>1. T \in SUBSET Nat /\ T # {}
        BY <2>1, <2>4, SMTT(60) DEF Circular
      <3> HIDE DEF T
      <3>2. PICK x \in T : \A y \in T : x <= y
        BY <3>1, LeastNumber
      <3>3. PICK d \in S : d \in Dependencies(order[x])
        BY <2>4, <3>2 DEF Circular, T
      <3>4. PICK j \in DOMAIN order : j < x /\ order[j] = d
        BY <2>2, <3>2, <3>3 DEF T
      <3>5. j \in T /\ j \in Nat /\ x \in Nat
        BY <2>1, <3>1, <3>3, <3>4 DEF T
      <3> QED  BY <3>2, <3>4, <3>5
    <2> QED  BY <2>3, <2>4
  <1> QED  BY <1>1, OrderInvariant, PTL

(* For every manifest: a refusal names a reason the manifest has.          *)
THEOREM RefusalsAreJustified == OrderSpec => []RefusalsJustified
  <1>1. OrderInv => RefusalsJustified
    BY DEF OrderInv
  <1> QED  BY <1>1, OrderInvariant, PTL

(* For every manifest: startup_order is correct as a whole.                *)
THEOREM OrderIsCorrect == OrderSpec => []StartupOrderCorrect
  BY PlanIsTopological, AcceptedIsSound, RefusalsAreJustified, PTL DEF StartupOrderCorrect

---------------------------------------------------------------------------
(* Every step of the boot is a step of the search or leaves it alone.      *)
LEMMA BootStepPlans == [Next]_vars => [OrderNext]_order_vars
  <1> SUFFICES ASSUME [Next]_vars PROVE [OrderNext]_order_vars
    OBVIOUS
  <1>1. CASE EndOfManifest
    BY <1>1 DEF EndOfManifest, OrderNext
  <1>2. CASE PlanStep
    BY <1>2 DEF PlanStep, OrderNext
  <1>3. launch_init \/ service_worker => UNCHANGED order_vars
    BY Zenon DEF launch_init, service_worker
  <1>5. ParseLine \/ PlanRefused => UNCHANGED order_vars
    BY Zenon DEF ParseLine, PlanRefused
  <1>6. build \/ bootstrap_manifest_services => UNCHANGED order_vars
    BY ONLY SMT DEF build, bootstrap_manifest_services
  <1>4. CASE UNCHANGED vars
    BY <1>4 DEF vars
  <1> QED  BY <1>1, <1>2, <1>3, <1>4, <1>5, <1>6 DEF Next, BootStep

(* The boot implements the search: parsing, a failed first attempt and a   *)
(* second one on top of it never disturb a search in progress.             *)
THEOREM BootPlansAsSearched == Spec => PlansAsSearched
  <1>1. Init => OrderInit
    BY DEF Init
  <1>2. Spec => Init /\ [][Next]_vars
    BY PTL DEF Spec
  <1> QED  BY <1>1, <1>2, BootStepPlans, PTL DEF PlansAsSearched, OrderSpec

(* So the plan the kernel boots with is the one proved correct.            *)
THEOREM BootPlanIsCorrect == Spec => []StartupOrderCorrect
  BY BootPlansAsSearched, OrderIsCorrect, PTL DEF PlansAsSearched

---------------------------------------------------------------------------
(* A list of tests that reports no error has no test that fails.           *)
LEMMA NoFailure ==
  ASSUME NEW tests, NEW n \in Nat, DOMAIN tests = 1..n,
         \A i \in 1..n : tests[i].error # "Ok", FirstFailure(tests) = "Ok"
  PROVE  \A i \in 1..n : ~tests[i].fails
  <1> DEFINE failed == {i \in DOMAIN tests : tests[i].fails}
  <1> SUFFICES ASSUME failed # {} PROVE FALSE
    OBVIOUS
  <1>1. failed \in SUBSET Nat
    OBVIOUS
  <1> DEFINE first == CHOOSE i \in failed : \A j \in failed : i <= j
  <1>2. FirstFailure(tests) = tests[first].error
    BY DEF FirstFailure
  <1>3. \E i \in failed : \A j \in failed : i <= j
    <2> HIDE DEF failed
    <2> QED BY <1>1, LeastNumber
  <1>4. first \in failed
    BY <1>3
  <1> QED BY <1>2, <1>4

(* What the checks of parse_image establish, for an image whose size fits  *)
(* in 32 bits.                                                             *)
LEMMA ParsedImage ==
  ASSUME NEW h, NEW size \in Nat, size < U32, parse_image(h, size) = "Ok",
         h.header_size \in Nat, h.entry_offset \in Nat, h.text_offset \in Nat,
         h.text_size \in Nat, h.data_offset \in Nat, h.data_size \in Nat
  PROVE  /\ h.text_offset % PAGE_SIZE = 0 /\ h.data_offset % PAGE_SIZE = 0
         /\ h.header_size <= h.text_offset /\ h.header_size <= h.data_offset
         /\ h.text_offset + h.text_size <= size /\ h.data_offset + h.data_size <= size
         /\ \/ h.text_offset + h.text_size <= h.data_offset
            \/ h.data_offset + h.data_size <= h.text_offset
         /\ h.entry_offset < h.text_size
  <1> DEFINE f5 == h.text_offset % PAGE_SIZE # 0 \/ h.data_offset % PAGE_SIZE # 0
             f6 == h.text_offset < h.header_size \/ h.data_offset < h.header_size
             f7 == h.text_offset + h.text_size > size
             f8 == h.data_offset + h.data_size > size
             f9 == Overlap(h)
             f10 == h.entry_offset >= h.text_size
             f1 == size < HeaderBytes
             f2 == ~h.magic
             f3 == ~h.version
             f4 == h.header_size < HeaderBytes
             f11 == size < h.header_size
             tests == <<Test(f1, "Truncated"), Test(f2, "InvalidMagic"),
                        Test(f3, "UnsupportedVersion"), Test(f4, "Truncated"),
                        Test(f5, "MisalignedSection"), Test(f6, "OverlappingSection"),
                        Test(f7, "Truncated"), Test(f8, "Truncated"),
                        Test(f9, "OverlappingSection"), Test(f10, "EntryOutOfBounds"),
                        Test(f11, "Truncated")>>
  <1>1. FirstFailure(tests) = "Ok"
    BY DEF parse_image
  <1> HIDE DEF f1, f2, f3, f4, f5, f6, f7, f8, f9, f10, f11
  <1>2. /\ DOMAIN tests = 1..11 /\ tests[5] = Test(f5, "MisalignedSection")
        /\ tests[6] = Test(f6, "OverlappingSection") /\ tests[7] = Test(f7, "Truncated")
        /\ tests[8] = Test(f8, "Truncated") /\ tests[9] = Test(f9, "OverlappingSection")
        /\ tests[10] = Test(f10, "EntryOutOfBounds")
    BY SMTT(90)
  <1>3. \A i \in 1..11 : tests[i].error # "Ok"
    BY DEF Test
  <1> HIDE DEF tests
  <1>4. \A i \in 1..11 : ~tests[i].fails
    BY <1>1, <1>2, <1>3, NoFailure, Zenon
  <1>5. ~f5 /\ ~f6 /\ ~f7 /\ ~f8 /\ ~f9 /\ ~f10
    BY <1>2, <1>4 DEF Test
  <1>6. h.text_offset + h.text_size < U32 /\ h.data_offset + h.data_size < U32
    BY <1>5, ImageAssumption DEF f7, f8
  <1>7. /\ Add32(h.text_offset, h.text_size) = h.text_offset + h.text_size
        /\ Add32(h.data_offset, h.data_size) = h.data_offset + h.data_size
    <2>1. ASSUME NEW a \in Nat, a < U32 PROVE a % U32 = a
      <3>1. a \in 0 .. 2 * U32 - 1
        BY <2>1, ImageAssumption
      <3> QED BY <2>1, <3>1, ImageAssumption, ModWrap, Zenon
    <2>2. h.text_offset + h.text_size \in Nat /\ h.data_offset + h.data_size \in Nat
      OBVIOUS
    <2> QED BY <1>6, <2>1, <2>2 DEF Add32
  <1> QED BY <1>5, <1>7 DEF f5, f6, f7, f8, f9, f10, Overlap


(* The image that boots, and the hypothesis on it: it is smaller than      *)
(* 4 GiB.  The overlap test adds in 32 bits; the bounds, tested in 64 bits *)
(* before it, keep those sums from wrapping only in such an image.         *)
InitImage == IF payload.present THEN payload ELSE embedded_init_image
FitsIn32Bits == InitImage.size < U32

(* Only launch_init leaves the phase "load", and only with an image that   *)
(* passed the checks.                                                      *)
ImageInv ==
    /\ payload.present =>
          /\ payload.size \in Nat
          /\ payload.header \in
                [magic : BOOLEAN, version : BOOLEAN, header_size : Nat, entry_offset : Nat,
                 text_offset : Nat, text_size : Nat, data_offset : Nat, data_size : Nat]
    /\ phase \notin {"load", "halted"} => parse_image(InitImage.header, InitImage.size) = "Ok"

(* The image stays as it was parsed.                                       *)
LEMMA ImageStep == ImageInv /\ [Next]_vars => ImageInv'
  <1> SUFFICES ASSUME ImageInv, [Next]_vars PROVE ImageInv'
    OBVIOUS
  <1>1. ASSUME payload' = payload, phase' \notin {"load", "halted"} => phase \notin {"load", "halted"}
        PROVE  ImageInv'
    BY <1>1 DEF ImageInv, InitImage
  <1>2. CASE launch_init
    BY <1>2 DEF launch_init, load_payload_into_kernel, ImageInv, InitImage
  <1>3. CASE ParseLine
    BY <1>1, <1>3 DEF ParseLine
  <1>4. CASE EndOfManifest
    BY <1>1, <1>4 DEF EndOfManifest
  <1>5. CASE PlanStep
    BY <1>1, <1>5 DEF PlanStep, boot_vars
  <1>6. CASE build
    BY <1>1, <1>6 DEF build
  <1>7. CASE PlanRefused
    BY <1>1, <1>7 DEF PlanRefused
  <1>8. CASE bootstrap_manifest_services
    BY <1>1, <1>8 DEF bootstrap_manifest_services
  <1>9. CASE service_worker
    BY <1>1, <1>9 DEF service_worker
  <1>10. CASE UNCHANGED vars
    BY <1>1, <1>10 DEF vars, boot_vars
  <1> QED BY <1>2, <1>3, <1>4, <1>5, <1>6, <1>7, <1>8, <1>9, <1>10 DEF Next, BootStep

(* For every page size, header and image below 4 GiB: the kernel starts    *)
(* only from an image whose sections lie in the file, aligned and apart,   *)
(* with the entry point in the text.                                       *)
THEOREM BootsOnlySoundImages == Spec => [](FitsIn32Bits => ImageSound)
  <1>1. Init => ImageInv
    BY BootsAssumption, SMTT(30) DEF Init, ImageInv
  <1>2. ImageInv /\ FitsIn32Bits => ImageSound
    <2> SUFFICES ASSUME ImageInv, FitsIn32Bits, phase \notin {"load", "halted"}
                 PROVE  ImageSound
      BY Zenon DEF ImageSound
    <2> DEFINE h == InitImage.header
    <2>1. /\ InitImage.size \in Nat /\ h.header_size \in Nat /\ h.entry_offset \in Nat
          /\ h.text_offset \in Nat /\ h.text_size \in Nat /\ h.data_offset \in Nat
          /\ h.data_size \in Nat
      BY ImageAssumption, SMTT(90) DEF ImageInv, InitImage, embedded_init_image, EmbeddedHeader
    <2>2. /\ h.text_offset % PAGE_SIZE = 0 /\ h.data_offset % PAGE_SIZE = 0
          /\ h.header_size <= h.text_offset /\ h.header_size <= h.data_offset
          /\ h.text_offset + h.text_size <= InitImage.size
          /\ h.data_offset + h.data_size <= InitImage.size
          /\ \/ h.text_offset + h.text_size <= h.data_offset
             \/ h.data_offset + h.data_size <= h.text_offset
          /\ h.entry_offset < h.text_size
      BY <2>1, ParsedImage, SMTT(60) DEF ImageInv, FitsIn32Bits
    <2> DEFINE text_bytes == h.text_offset .. h.text_offset + h.text_size - 1
               data_bytes == h.data_offset .. h.data_offset + h.data_size - 1
    <2>3. /\ text_bytes \cup data_bytes \subseteq h.header_size .. InitImage.size - 1
          /\ text_bytes \cap data_bytes = {}
          /\ h.text_offset + h.entry_offset \in text_bytes
      BY ONLY <2>1, <2>2, SMTT(90)
    <2> QED BY <2>2, <2>3, ZenonT(40) DEF ImageSound, InitImage
  <1>3. Spec => Init /\ [][Next]_vars
    BY PTL DEF Spec
  <1> QED BY <1>1, <1>2, <1>3, ImageStep, PTL


---------------------------------------------------------------------------
(* What the parser has built at line pos: the lines before it are legal,   *)
(* the services are the sections opened, the current one is the last, and  *)
(* each key has the value of its last assignment so far.                   *)
Opened == {i \in SectionsIn(text) : i < pos}
LinesOf(i, key) == {j \in Body(text, i) : j < pos /\ text[j].kind = key}

TextOK ==
    /\ Len(text) \in Nat /\ DOMAIN text = 1..Len(text)
    /\ \A i \in DOMAIN text : text[i].kind \in Kinds
    /\ pos \in 1..Len(text) + 1

LegalSoFar ==
    /\ \A i \in DOMAIN text : i < pos =>
         /\ text[i].kind \in Keys \cup {"section", "comment"}
         /\ text[i].kind \in Keys => \E j \in SectionsIn(text) : j < i
    /\ \A i, j \in Opened : i # j => text[i].name # text[j].name

DeclaredSoFar ==
    /\ services = [n \in {text[i].name : i \in Opened} |-> services[n]]
    /\ \A i \in Opened : services[text[i].name] = [key \in Keys |-> services[text[i].name][key]]

CurrentIsLast ==
    \/ current = <<>> /\ Opened = {}
    \/ \E s \in Opened : current = <<text[s].name>> /\ \A k \in Opened : k <= s

(* The value of a key after these lines of a text assign it.               *)
LastOf(t, lines, key, value) ==
    /\ lines = {} => value = ServiceSpec_new[key]
    /\ \A j \in lines : (\A k \in lines : k <= j) => value = t[j].value

LastAssigned ==
    \A i \in Opened : \A key \in Keys :
        LastOf(text, LinesOf(i, key), key, services[text[i].name][key])

ParseInv == TextOK /\ LegalSoFar /\ DeclaredSoFar /\ CurrentIsLast /\ LastAssigned

(* Before the first line there is nothing.                                 *)
AtStart ==
    /\ Len(text) \in Nat /\ DOMAIN text = 1..Len(text)
    /\ \A i \in DOMAIN text : text[i].kind \in Kinds
    /\ pos = 1 /\ services = NoFunction /\ current = <<>>

(* A parse that has not begun is as ParseInv says.                         *)
LEMMA ParseStart == AtStart => ParseInv
  <1> SUFFICES ASSUME AtStart PROVE ParseInv
    OBVIOUS
  <1> USE DEF AtStart
  <1>1. Opened = {} /\ \A i \in DOMAIN text : ~(i < pos)
    BY DEF Opened, SectionsIn
  <1>2. TextOK
    BY DEF TextOK
  <1>3. LegalSoFar /\ CurrentIsLast /\ LastAssigned
    BY <1>1, SMTT(60) DEF LegalSoFar, CurrentIsLast, LastAssigned
  <1>4. DeclaredSoFar
    BY <1>1 DEF DeclaredSoFar, NoFunction
  <1> QED BY <1>2, <1>3, <1>4 DEF ParseInv

(* A line the parser has no objection to, by kind.                         *)
LEMMA LineKinds ==
  ASSUME NEW line, line.kind \in Kinds, LineError(line) = "none"
  PROVE  \/ line.kind = "comment"
         \/ line.kind = "section" /\ line.name \notin DOMAIN services
         \/ line.kind \in Keys /\ current # <<>>
  BY DEF LineError, Kinds, Keys

(* What moving on by one line adds.                                        *)
LEMMA OneMoreLine ==
  ASSUME TextOK, pos \in DOMAIN text, pos' = pos + 1, text' = text
  PROVE  /\ TextOK'
         /\ Opened' = IF text[pos].kind = "section" THEN Opened \cup {pos} ELSE Opened
         /\ pos \notin Opened
         /\ \A i \in Opened : i < pos
         /\ \A i, key : LinesOf(i, key)' =
              IF pos \in Body(text, i) /\ text[pos].kind = key THEN LinesOf(i, key) \cup {pos}
              ELSE LinesOf(i, key)
         /\ \A i \in Opened : pos \in Body(text, i) <=> \A k \in Opened \cup
              (IF text[pos].kind = "section" THEN {pos} ELSE {}) : k <= i
  <1>1. pos \in Nat /\ \A i \in DOMAIN text : i \in Nat /\ (i < pos + 1 <=> i < pos \/ i = pos)
    BY DEF TextOK
  <1>2. TextOK'
    BY DEF TextOK
  <1>3. Opened' = IF text[pos].kind = "section" THEN Opened \cup {pos} ELSE Opened
    BY <1>1 DEF Opened, SectionsIn
  <1>4. pos \notin Opened /\ \A i \in Opened : i < pos
    BY <1>1 DEF Opened, SectionsIn
  <1>5. ASSUME NEW i, NEW key
        PROVE  LinesOf(i, key)' =
              IF pos \in Body(text, i) /\ text[pos].kind = key THEN LinesOf(i, key) \cup {pos}
              ELSE LinesOf(i, key)
    <2>1. LinesOf(i, key)' = {j \in Body(text, i) : j < pos + 1 /\ text[j].kind = key}
      BY DEF LinesOf
    <2>2. \A j \in Body(text, i) : j \in DOMAIN text
      BY DEF Body
    <2> QED BY <1>1, <2>1, <2>2 DEF LinesOf
  <1>6. ASSUME NEW i \in Opened
        PROVE  pos \in Body(text, i) <=> \A k \in Opened \cup
              (IF text[pos].kind = "section" THEN {pos} ELSE {}) : k <= i
    BY <1>1 DEF Opened, Body, SectionsIn
  <1> QED BY <1>2, <1>3, <1>4, <1>5, <1>6, SMTT(60)


(* What depends on the sections opened alone stays while they do.          *)
LEMMA SameSections ==
  ASSUME DeclaredSoFar, CurrentIsLast, Opened' = Opened, UNCHANGED <<text, services, current>>
  PROVE  DeclaredSoFar' /\ CurrentIsLast'
  <1> DEFINE Declared(t, s, o) ==
               /\ s = [n \in {t[i].name : i \in o} |-> s[n]]
               /\ \A i \in o : s[t[i].name] = [key \in Keys |-> s[t[i].name][key]]
             Last(t, c, o) ==
               \/ c = <<>> /\ o = {}
               \/ \E s \in o : c = <<t[s].name>> /\ \A k \in o : k <= s
  <1>1. Declared(text, services, Opened) /\ Last(text, current, Opened)
    BY Zenon DEF DeclaredSoFar, CurrentIsLast
  <1>2. Declared(text', services', Opened') => DeclaredSoFar'
    BY Zenon DEF DeclaredSoFar
  <1>3. Last(text', current', Opened') => CurrentIsLast'
    BY Zenon DEF CurrentIsLast
  <1> HIDE DEF Declared, Last
  <1>4. text' = text /\ services' = services /\ current' = current
    OBVIOUS
  <1> QED BY <1>1, <1>2, <1>3, <1>4, Zenon

(* So does what depends on their assignments.                              *)
LEMMA SameLines ==
  ASSUME LastAssigned, Opened' = Opened, UNCHANGED <<text, services>>,
         \A i : \A key \in Keys : LinesOf(i, key)' = LinesOf(i, key)
  PROVE  LastAssigned'
  <1>1. text' = text /\ services' = services
    OBVIOUS
  <1>2. ASSUME NEW i \in Opened', NEW key \in Keys
        PROVE  LastOf(text', LinesOf(i, key)', key, services'[text'[i].name][key])
    <2>1. LastOf(text, LinesOf(i, key), key, services[text[i].name][key])
      BY Zenon DEF LastAssigned
    <2>2. LinesOf(i, key)' = LinesOf(i, key)
      BY Zenon
    <2> QED BY <1>1, <2>1, <2>2, Zenon
  <1> QED BY <1>2, Zenon DEF LastAssigned

(* A comment changes nothing.                                              *)
LEMMA CommentInv ==
  ASSUME ParseInv, pos \in DOMAIN text, pos' = pos + 1, text' = text,
         text[pos].kind = "comment", UNCHANGED <<services, current>>
  PROVE  ParseInv'
  <1>0. TextOK
    BY DEF ParseInv
  <1>1. /\ TextOK' /\ Opened' = Opened
        /\ \A i, key : key \in Keys => LinesOf(i, key)' = LinesOf(i, key)
    BY <1>0, OneMoreLine, SMTT(60) DEF Keys
  <1>2. LegalSoFar'
    <2>1. \A i \in DOMAIN text : i < pos + 1 => i < pos \/ i = pos
      BY <1>0, SMTT(30) DEF TextOK
    <2> QED BY <1>1, <2>1, SMTT(30) DEF ParseInv, LegalSoFar, Keys
  <1>3. DeclaredSoFar' /\ CurrentIsLast'
    BY <1>1, SameSections, Zenon DEF ParseInv
  <1>4. LastAssigned'
    BY <1>1, SameLines, Zenon DEF ParseInv
  <1> QED BY <1>1, <1>2, <1>3, <1>4, Zenon DEF ParseInv

(* A section header opens a service without assignments.                   *)
LEMMA SectionInv ==
  ASSUME ParseInv, pos \in DOMAIN text, pos' = pos + 1, text' = text,
         text[pos].kind = "section", text[pos].name \notin DOMAIN services,
         services' = Declare(text[pos].name), current' = <<text[pos].name>>
  PROVE  ParseInv'
  <1> DEFINE name == text[pos].name
  <1>0. /\ TextOK /\ LegalSoFar /\ DeclaredSoFar /\ LastAssigned
        /\ DOMAIN services = {text[i].name : i \in Opened}
    BY Zenon DEF ParseInv, DeclaredSoFar
  <1>1. /\ TextOK' /\ Opened' = Opened \cup {pos} /\ pos \notin Opened
        /\ \A i \in Opened : i < pos
        /\ \A i, key : key \in Keys => LinesOf(i, key)' = LinesOf(i, key)
    BY <1>0, OneMoreLine, Zenon DEF Keys
  <1>2. \A i \in Opened : text[i].name # name
    BY <1>0, SMTT(30)
  <1>3. LegalSoFar'
    <2>1. \A i \in DOMAIN text : i < pos + 1 => i < pos \/ i = pos
      BY <1>0, SMTT(30) DEF TextOK
    <2>2. \A i \in DOMAIN text : i < pos' =>
            /\ text[i].kind \in Keys \cup {"section", "comment"}
            /\ text[i].kind \in Keys => \E j \in SectionsIn(text) : j < i
      BY <1>0, <2>1, SMTT(30) DEF LegalSoFar, Keys
    <2>3. \A i, j \in Opened' : i # j => text[i].name # text[j].name
      BY <1>0, <1>1, <1>2, Zenon DEF LegalSoFar
    <2> QED BY <2>2, <2>3, Zenon DEF LegalSoFar
  <1>4. /\ DOMAIN services' = {text[i].name : i \in Opened'}
        /\ services'[name] = ServiceSpec_new
        /\ \A i \in Opened : services'[text[i].name] = services[text[i].name]
        /\ services' = [n \in DOMAIN services' |-> services'[n]]
    BY <1>0, <1>1, <1>2, ZenonT(40) DEF Declare
  <1>5. ServiceSpec_new = [key \in Keys |-> ServiceSpec_new[key]]
    BY Zenon DEF ServiceSpec_new, Keys
  <1>6. DeclaredSoFar'
    <2>1. ASSUME NEW i \in Opened'
          PROVE  services'[text[i].name] = [key \in Keys |-> services'[text[i].name][key]]
      <3>1. CASE i = pos
        BY <1>4, <1>5, <3>1, Zenon
      <3>2. CASE i \in Opened
        <4>1. services'[text[i].name] = services[text[i].name]
          BY <1>4, <3>2, Zenon
        <4>2. services[text[i].name] = [key \in Keys |-> services[text[i].name][key]]
          BY <1>0, <3>2, Zenon DEF DeclaredSoFar
        <4> QED BY <4>1, <4>2, Zenon
      <3> QED BY <1>1, <3>1, <3>2, Zenon
    <2>2. services' = [n \in {text[i].name : i \in Opened'} |-> services'[n]]
      BY <1>4, Zenon
    <2>3. text' = text
      OBVIOUS
    <2> QED BY <2>1, <2>2, <2>3, SMTT(30) DEF DeclaredSoFar
  <1>7. CurrentIsLast'
    <2>1. pos \in Opened' /\ \A k \in Opened' : k <= pos
      BY ONLY <1>0, <1>1, SMTT(90) DEF TextOK, Opened, SectionsIn
    <2> QED BY <2>1 DEF CurrentIsLast
  <1>8. LastAssigned'
    <2>1. ASSUME NEW i, i = pos, NEW key PROVE LinesOf(i, key)' = {}
      BY <1>0, <2>1 DEF LinesOf, Body, TextOK
    <2> SUFFICES ASSUME NEW i \in Opened', NEW key \in Keys
                 PROVE  LastOf(text, LinesOf(i, key)', key, services'[text[i].name][key])
      BY Zenon DEF LastAssigned
    <2>2. CASE i = pos
      <3>1. LinesOf(i, key)' = {} /\ services'[text[i].name][key] = ServiceSpec_new[key]
        BY <1>4, <2>1, <2>2, Zenon
      <3> QED BY <3>1, Zenon DEF LastOf
    <2>3. CASE i \in Opened
      <3>1. LinesOf(i, key)' = LinesOf(i, key) /\ services'[text[i].name] = services[text[i].name]
        BY <1>1, <1>4, <2>3, SMTT(60)
      <3>2. LastOf(text, LinesOf(i, key), key, services[text[i].name][key])
        BY <1>0, <2>3, Zenon DEF LastAssigned
      <3> QED BY <3>1, <3>2, Zenon
    <2> QED BY <1>1, <2>2, <2>3, ZenonT(40)
  <1> QED BY <1>1, <1>3, <1>6, <1>7, <1>8, Zenon DEF ParseInv

(* A record of the keys with one of them changed.                          *)
LEMMA SetKey ==
  ASSUME NEW S, NEW old, old = [k \in S |-> old[k]], NEW set \in S, NEW value, NEW new,
         new = [old EXCEPT ![set] = value]
  PROVE  /\ new = [k \in S |-> new[k]] /\ new[set] = value
         /\ \A k \in S : k # set => new[k] = old[k]
  <1>1. DOMAIN old = S
    BY Zenon
  <1>2. new[set] = value /\ \A k \in S : k # set => new[k] = old[k]
    BY <1>1, Zenon
  <1>3. new = [k \in S |-> new[k]]
    BY <1>1, Zenon
  <1> QED BY <1>2, <1>3, Zenon

(* An assignment sets a key of the section opened last.                    *)
LEMMA AssignInv ==
  ASSUME ParseInv, pos \in DOMAIN text, pos' = pos + 1, text' = text,
         text[pos].kind \in Keys, current # <<>>, current' = current,
         services' = [services EXCEPT ![current[1]][text[pos].kind] = text[pos].value]
  PROVE  ParseInv'
  <1>0. /\ TextOK /\ LegalSoFar /\ DeclaredSoFar /\ LastAssigned /\ CurrentIsLast
        /\ DOMAIN services = {text[i].name : i \in Opened}
    BY ZenonT(40) DEF ParseInv, DeclaredSoFar
  <1>1. PICK s \in Opened : current = <<text[s].name>> /\ \A k \in Opened : k <= s
    BY <1>0 DEF CurrentIsLast
  <1> DEFINE name == text[s].name
             set == text[pos].kind
  <1>2. set # "section"
    BY DEF Keys
  <1>3. /\ TextOK' /\ Opened' = Opened
        /\ \A i \in Opened : i < pos
        /\ \A i \in Opened : pos \in Body(text, i) <=> i = s
        /\ \A i \in Opened, key \in Keys :
             LinesOf(i, key)' = IF i = s /\ key = set THEN LinesOf(s, set) \cup {pos}
                                ELSE LinesOf(i, key)
    <2>1. \A i \in Opened : (\A k \in Opened : k <= i) <=> i = s
      BY ONLY <1>0, <1>1 DEF TextOK, Opened, SectionsIn
    <2>2. \A i \in Opened : pos \in Body(text, i) <=> i = s
      BY <1>0, <1>2, <2>1, OneMoreLine, SMTT(30)
    <2> QED BY <1>0, <1>2, <2>2, OneMoreLine, SMTT(90)
  <1>4. \A i \in Opened : i # s => text[i].name # name
    BY <1>0 DEF LegalSoFar
  <1>5. LegalSoFar'
    <2>1. \A i \in DOMAIN text : i < pos + 1 => i < pos \/ i = pos
      BY <1>0 DEF TextOK
    <2>2. s \in SectionsIn(text) /\ s < pos
      BY DEF Opened
    <2>3. \A i \in DOMAIN text : i < pos' =>
            /\ text[i].kind \in Keys \cup {"section", "comment"}
            /\ text[i].kind \in Keys => \E j \in SectionsIn(text) : j < i
      BY <1>0, <2>1, <2>2, Zenon DEF LegalSoFar
    <2>4. \A i, j \in Opened' : i # j => text[i].name # text[j].name
      BY <1>0, <1>3, Zenon DEF LegalSoFar
    <2> QED BY <2>3, <2>4, Zenon DEF LegalSoFar
  <1>6. /\ services' = [services EXCEPT ![name] = [services[name] EXCEPT ![set] = text[pos].value]]
        /\ name \in DOMAIN services
    BY <1>0, <1>1, SMTT(90)
  <1>7. /\ DOMAIN services' = DOMAIN services
        /\ services' = [n \in DOMAIN services |-> services'[n]]
        /\ services'[name] = [services[name] EXCEPT ![set] = text[pos].value]
        /\ \A i \in Opened : i # s => services'[text[i].name] = services[text[i].name]
    BY <1>0, <1>4, <1>6, ZenonT(60)
  <1>8. /\ services'[name] = [key \in Keys |-> services'[name][key]]
        /\ services'[name][set] = text[pos].value
        /\ \A key \in Keys : key # set => services'[name][key] = services[name][key]
    <2>1. services[name] = [key \in Keys |-> services[name][key]]
      BY <1>0, Zenon DEF DeclaredSoFar
    <2>2. services'[name] = [services[name] EXCEPT ![set] = text[pos].value] /\ set \in Keys
      BY <1>7, Zenon
    <2> HIDE DEF name, set
    <2> QED BY ONLY <2>1, <2>2, SetKey, SMTT(90)
  <1>9. DeclaredSoFar'
    <2>1. \A i \in Opened : services'[text[i].name] = [key \in Keys |-> services'[text[i].name][key]]
      <3> SUFFICES ASSUME NEW i \in Opened
                   PROVE  services'[text[i].name] = [key \in Keys |-> services'[text[i].name][key]]
        BY SMTT(30)
      <3>1. CASE i = s
        BY <1>8, <3>1, Zenon
      <3>2. CASE i # s
        <4>1. services'[text[i].name] = services[text[i].name]
          BY ONLY <1>7, <3>2, SMTT(90)
        <4> QED BY <1>0, <4>1, ZenonT(40) DEF DeclaredSoFar
      <3> QED BY ONLY <3>1, <3>2
    <2>2. services' = [n \in {text[i].name : i \in Opened'} |-> services'[n]]
      BY <1>0, <1>3, <1>7, Zenon
    <2> QED BY ONLY text' = text, <1>3, <2>1, <2>2, SMTT(90) DEF DeclaredSoFar
  <1>10. CurrentIsLast'
    BY <1>1, <1>3 DEF CurrentIsLast
  <1>11. LastAssigned'
    <2> SUFFICES ASSUME NEW i \in Opened, NEW key \in Keys
                 PROVE  LastOf(text, LinesOf(i, key)', key, services'[text[i].name][key])
      BY <1>3, Zenon DEF LastAssigned
    <2>1. CASE ~(i = s /\ key = set)
      <3>1. services'[text[i].name][key] = services[text[i].name][key]
        <4>1. CASE i = s
          BY <1>8, <2>1, <4>1, Zenon
        <4>2. CASE i # s
          BY <1>7, <4>2, Zenon
        <4> QED BY <4>1, <4>2, SMTT(60)
      <3>2. LinesOf(i, key)' = LinesOf(i, key)
        BY <1>3, <2>1, SMTT(30)
      <3>3. LastOf(text, LinesOf(i, key), key, services[text[i].name][key])
        BY <1>0, Zenon DEF LastAssigned
      <3> QED BY <3>1, <3>2, <3>3, Zenon
    <2>2. CASE i = s /\ key = set
      <3>1. \A k \in LinesOf(s, set) : k < pos /\ k \in Nat
        BY <1>0 DEF LinesOf, Body, TextOK
      <3>2. LinesOf(i, key)' = LinesOf(s, set) \cup {pos}
        BY <1>3, <2>2
      <3>3. \A j \in LinesOf(i, key)' : (\A k \in LinesOf(i, key)' : k <= j) => j = pos
        BY <1>0, <3>1, <3>2 DEF TextOK
      <3> QED BY <1>8, <2>2, <3>2, <3>3, Zenon DEF LastOf
    <2> QED BY <2>1, <2>2, Zenon
  <1> QED BY <1>3, <1>5, <1>9, <1>10, <1>11, SMTT(30) DEF ParseInv


(* A set of numbers below a bound has a greatest one.                      *)
LEMMA GreatestNumber ==
  ASSUME NEW S, NEW b \in Nat, \A x \in S : x \in 0..b, S # {}
  PROVE  \E x \in S : \A y \in S : y <= x
  <1> DEFINE T == {n \in 0..b : \A y \in S : y <= n}
  <1>1. T \in SUBSET Nat /\ b \in T
    OBVIOUS
  <1> HIDE DEF T
  <1>2. PICK m \in T : \A n \in T : m <= n
    BY <1>1, LeastNumber
  <1>3. m \in 0..b /\ \A y \in S : y <= m
    BY <1>2 DEF T
  <1>4. SUFFICES ASSUME m \notin S PROVE FALSE
    BY <1>3
  <1>5. PICK x \in S : TRUE
    OBVIOUS
  <1>6. \A y \in S : y <= m - 1 /\ y # m
    BY <1>3, <1>4
  <1>7. m - 1 \in T
    BY <1>3, <1>5, <1>6, SMTT(30) DEF T
  <1> QED BY <1>2, <1>3, <1>7

(* At the end of the text every key of a service has the value the section *)
(* gives it.                                                               *)
LEMMA ValueParsed ==
  ASSUME ParseInv, pos \notin DOMAIN text, NEW i \in SectionsIn(text), NEW key \in Keys
  PROVE  services[text[i].name][key] = ValueOf(text, i, key)
  <1> DEFINE lines == {j \in Body(text, i) : text[j].kind = key}
  <1>1. TextOK /\ LastAssigned
    BY DEF ParseInv
  <1>2. Opened = SectionsIn(text) /\ LinesOf(i, key) = lines
    BY <1>1 DEF TextOK, Opened, SectionsIn, LinesOf, Body
  <1>3. /\ lines = {} => services[text[i].name][key] = ServiceSpec_new[key]
        /\ \A j \in lines : (\A k \in lines : k <= j)
                               => services[text[i].name][key] = text[j].value
    <2>1. LastOf(text, LinesOf(i, key), key, services[text[i].name][key])
      BY <1>1, <1>2, Zenon DEF LastAssigned
    <2> HIDE DEF lines
    <2>2. LastOf(text, lines, key, services[text[i].name][key])
      BY <1>2, <2>1, Zenon
    <2> QED BY <2>2, Zenon DEF LastOf
  <1>4. CASE lines = {}
    BY ONLY <1>3, <1>4, SMTT(60) DEF ValueOf
  <1>5. CASE lines # {}
    <2> DEFINE last == CHOOSE j \in lines : \A k \in lines : k <= j
    <2>1. \A j \in lines : j \in 0..Len(text)
      BY <1>1 DEF TextOK, Body
    <2>2. ValueOf(text, i, key) = text[last].value
      BY <1>5 DEF ValueOf
    <2>3. Len(text) \in Nat
      BY <1>1 DEF TextOK
    <2> HIDE DEF lines
    <2>4. \E j \in lines : \A k \in lines : k <= j
      BY <1>5, <2>1, <2>3, GreatestNumber
    <2>5. last \in lines /\ \A k \in lines : k <= last
      BY <2>4
    <2> QED BY <1>3, <2>2, <2>5, SMTT(60)
  <1> QED BY <1>4, <1>5, Zenon

(* The services at the end of the text are the ones it declares.           *)
LEMMA DeclaredParsed ==
  ASSUME ParseInv, pos \notin DOMAIN text
  PROVE  /\ DOMAIN services = DOMAIN Declares(text)
         /\ \A n \in DOMAIN services : SameSpec(services[n], Declares(text)[n])
  <1>1. TextOK /\ LegalSoFar /\ DeclaredSoFar
    BY DEF ParseInv
  <1>2. Opened = SectionsIn(text)
    BY <1>1 DEF TextOK, Opened, SectionsIn
  <1>3. DOMAIN services = {text[i].name : i \in SectionsIn(text)}
    BY <1>1, <1>2, Zenon DEF DeclaredSoFar
  <1>4. DOMAIN Declares(text) = {text[i].name : i \in SectionsIn(text)}
    BY SMTT(60) DEF Declares
  <1>5. ASSUME NEW n \in DOMAIN services PROVE SameSpec(services[n], Declares(text)[n])
    <2> DEFINE i == CHOOSE j \in SectionsIn(text) : text[j].name = n
    <2>1. i \in SectionsIn(text) /\ text[i].name = n
      BY <1>3
    <2>2. Declares(text)[n] = [key \in Keys |-> ValueOf(text, i, key)]
      BY ONLY <1>3, SMTT(60) DEF Declares
    <2> HIDE DEF i
    <2>3. ASSUME NEW key \in Keys PROVE services[n][key] = Declares(text)[n][key]
      BY <2>1, <2>2, ValueParsed, Zenon
    <2> QED BY <2>3 DEF SameSpec
  <1> QED BY <1>3, <1>4, <1>5

(* The tests at the end decide whether the text is well-formed.            *)
LEMMA EndDecides ==
  ASSUME ParseInv, pos \notin DOMAIN text
  PROVE  WellFormed(text) <=> /\ DOMAIN services # {}
                              /\ \A n \in DOMAIN services : services[n].binary # Empty
  <1>1. TextOK /\ LegalSoFar /\ DeclaredSoFar
    BY DEF ParseInv
  <1>2. Opened = SectionsIn(text) /\ \A i \in DOMAIN text : i < pos
    BY <1>1 DEF TextOK, Opened, SectionsIn
  <1>3. DOMAIN services = {text[i].name : i \in SectionsIn(text)}
    BY <1>1, <1>2, Zenon DEF DeclaredSoFar
  <1>4. \A i \in SectionsIn(text) : services[text[i].name]["binary"] = ValueOf(text, i, "binary")
    BY ValueParsed, SMTT(60) DEF Keys
  <1>5. /\ \A i \in DOMAIN text :
             /\ text[i].kind \in Keys \cup {"section", "comment"}
             /\ text[i].kind \in Keys => \E j \in SectionsIn(text) : j < i
        /\ \A i, j \in SectionsIn(text) : i # j => text[i].name # text[j].name
    BY <1>1, <1>2 DEF LegalSoFar
  <1>6. WellFormed(text) <=> /\ SectionsIn(text) # {}
                             /\ \A i \in SectionsIn(text) : ValueOf(text, i, "binary") # Empty
    BY <1>5, SMTT(60) DEF WellFormed
  <1> QED BY <1>3, <1>4, <1>6, Zenon

(* A line the parser refuses makes the text ill-formed.                    *)
LEMMA RefusedLine ==
  ASSUME ParseInv, pos \in DOMAIN text, LineError(text[pos]) # "none"
  PROVE  ~WellFormed(text)
  <1>1. TextOK /\ DeclaredSoFar /\ CurrentIsLast
    BY DEF ParseInv
  <1>2. CASE text[pos].kind \notin Keys \cup {"section", "comment"}
    BY <1>2 DEF WellFormed
  <1>3. CASE text[pos].kind = "section"
    <2>1. text[pos].name \in DOMAIN services
      BY <1>3, Zenon DEF LineError
    <2>2. PICK i \in Opened : text[i].name = text[pos].name
      BY ONLY <1>1, <2>1, SMTT(90) DEF DeclaredSoFar
    <2>3. i \in SectionsIn(text) /\ pos \in SectionsIn(text) /\ i # pos
      BY <1>1, <1>3, <2>2 DEF Opened, SectionsIn, TextOK
    <2> QED BY <2>2, <2>3, SMTT(90) DEF WellFormed
  <1>4. CASE text[pos].kind \in Keys
    <2>1. current = <<>>
      BY <1>4 DEF LineError, Keys
    <2>2. Opened = {}
      BY <1>1, <2>1 DEF CurrentIsLast
    <2>3. ~\E j \in SectionsIn(text) : j < pos
      BY <2>2, SMTT(30) DEF Opened
    <2> QED BY <1>4, <2>3 DEF WellFormed
  <1>5. CASE text[pos].kind = "comment"
    BY <1>5, SMTT(60) DEF LineError
  <1> QED BY <1>2, <1>3, <1>4, <1>5, SMTT(30)


(* What ParsesExactly needs: the parse so far, the tests passed when the   *)
(* search begins, and the registry filled from the first manifest parsed.  *)
RegistryOK ==
    /\ registry = [n \in DOMAIN registry |-> registry[n]]
    /\ \A n \in DOMAIN registry :
         registry[n] = [state |-> registry[n].state,
                        granted_capabilities |-> Declares(text)[n]["capabilities"]]

ManifestInv ==
    /\ ParseInv
    /\ phase = "order" => /\ pos \notin DOMAIN text
                          /\ DOMAIN services # {}
                          /\ \A n \in DOMAIN services : services[n].binary # Empty
    /\ error \notin {"none"} \cup Errors => ~WellFormed(text)
    /\ RegistryOK

(* A step after which the parser starts over.                              *)
LEMMA StartOver ==
  ASSUME ManifestInv, text' = text, pos' = 1, services' = NoFunction, current' = <<>>,
         phase' # "order", error' \notin {"none"} \cup Errors => ~WellFormed(text),
         RegistryOK'
  PROVE  ManifestInv'
  <1>1. TextOK
    BY DEF ManifestInv, ParseInv
  <1>2. AtStart'
    BY <1>1 DEF TextOK, AtStart
  <1>3. ParseInv'
    BY <1>2, ParseStart, PTL
  <1> QED BY <1>3, Zenon DEF ManifestInv


(* The parser's state does not change.                                     *)
LEMMA ParseSame ==
  ASSUME ParseInv, UNCHANGED <<text, pos, services, current>>
  PROVE  ParseInv'
  <1>1. Opened' = Opened /\ \A i, key : LinesOf(i, key)' = LinesOf(i, key)
    BY DEF Opened, LinesOf
  <1>2. TextOK' /\ LegalSoFar'
    <2> DEFINE Legal(t, p, o) ==
                 /\ \A i \in DOMAIN t : i < p =>
                      /\ t[i].kind \in Keys \cup {"section", "comment"}
                      /\ t[i].kind \in Keys => \E j \in SectionsIn(t) : j < i
                 /\ \A i, j \in o : i # j => t[i].name # t[j].name
    <2>1. Legal(text, pos, Opened)
      BY Zenon DEF ParseInv, LegalSoFar
    <2>2. Legal(text', pos', Opened') => LegalSoFar'
      BY Zenon DEF LegalSoFar
    <2> HIDE DEF Legal
    <2>3. text' = text /\ pos' = pos
      OBVIOUS
    <2>4. LegalSoFar'
      BY <1>1, <2>1, <2>2, <2>3, Zenon
    <2>5. TextOK'
      BY DEF ParseInv, TextOK
    <2> QED BY <2>4, <2>5
  <1>3. DeclaredSoFar' /\ CurrentIsLast'
    BY <1>1, SameSections, Zenon DEF ParseInv
  <1>4. LastAssigned'
    BY <1>1, SameLines, Zenon DEF ParseInv
  <1> QED BY <1>2, <1>3, <1>4 DEF ParseInv

(* Every step of the boot keeps the invariant.                             *)
LEMMA ManifestStep == ManifestInv /\ [Next]_vars => ManifestInv'
  <1> SUFFICES ASSUME ManifestInv, [Next]_vars PROVE ManifestInv'
    OBVIOUS
  <1>0. ParseInv /\ TextOK /\ RegistryOK /\ (error \notin {"none"} \cup Errors => ~WellFormed(text))
    BY DEF ManifestInv, ParseInv
  <1>1. ASSUME UNCHANGED <<text, pos, services, current, error, registry>>,
               phase' = "order" => phase = "order"
        PROVE  ManifestInv'
    <2>1. ParseInv'
      BY <1>0, <1>1, ParseSame
    <2> QED BY <1>0, <1>1, <2>1, SMTT(60) DEF ManifestInv, RegistryOK
  <1>2. ASSUME NEW e, Unavailable(e), text' = text, e \notin {"none"} \cup Errors => ~WellFormed(text)
        PROVE  ManifestInv'
    <2>1. /\ pos' = 1 /\ services' = NoFunction /\ current' = <<>> /\ phase' # "order"
          /\ error' = e /\ registry' = registry
      BY <1>2 DEF Unavailable
    <2>2. RegistryOK'
      BY <1>0, <1>2, <2>1, SMTT(60) DEF RegistryOK
    <2> QED BY <1>2, <2>1, <2>2, StartOver
  <1>3. CASE ParseLine
    <2> DEFINE line == text[pos]
    <2>1. /\ phase = "parse" /\ pos \in DOMAIN text /\ text' = text
          /\ IF LineError(line) # "none" THEN Unavailable(LineError(line))
             ELSE /\ TakeLine(line) /\ pos' = pos + 1
                  /\ UNCHANGED <<phase, pass, error, manager, registry>>
      BY <1>3, SMTT(30) DEF ParseLine
    <2>2. CASE LineError(line) # "none"
      BY <1>0, <1>2, <2>1, <2>2, RefusedLine
    <2>3. CASE LineError(line) = "none"
      <3>1. TakeLine(line) /\ pos' = pos + 1 /\ UNCHANGED <<phase, error, registry>>
        BY <2>1, <2>3
      <3>2. line.kind \in Kinds
        BY <1>0, <2>1 DEF TextOK
      <3>3. ParseInv'
        <4>1. \/ line.kind = "comment"
              \/ line.kind = "section" /\ line.name \notin DOMAIN services
              \/ line.kind \in Keys /\ current # <<>>
          BY <2>3, <3>2, LineKinds
        <4>2. ASSUME line.kind = "comment" PROVE ParseInv'
          BY ONLY <1>0, <2>1, <3>1, <4>2, CommentInv, SMTT(60) DEF TakeLine
        <4>3. ASSUME line.kind = "section", line.name \notin DOMAIN services PROVE ParseInv'
          BY <1>0, <2>1, <3>1, <4>3, SectionInv, Zenon DEF TakeLine
        <4>4. ASSUME line.kind \in Keys, current # <<>> PROVE ParseInv'
          <5>1. line.kind # "section" /\ line.kind # "comment"
            BY <4>4 DEF Keys
          <5> QED BY <1>0, <2>1, <3>1, <4>4, <5>1, AssignInv, Zenon DEF TakeLine
        <4> QED BY <4>1, <4>2, <4>3, <4>4, SMTT(30)
      <3> QED BY ONLY <1>0, <2>1, <3>1, <3>3, SMTT(90) DEF ManifestInv, RegistryOK
    <2> QED BY <2>2, <2>3
  <1>4. CASE EndOfManifest
    <2>1. pos \notin DOMAIN text /\ text' = text
      BY <1>4 DEF EndOfManifest
    <2>2. WellFormed(text) <=> /\ DOMAIN services # {}
                               /\ \A n \in DOMAIN services : services[n].binary # Empty
      BY <1>0, <2>1, EndDecides
    <2>3. CASE \E n \in DOMAIN services : services[n].binary = Empty
      BY ONLY <1>2, <1>4, <2>1, <2>2, <2>3 DEF EndOfManifest
    <2>4. CASE (\A n \in DOMAIN services : services[n].binary # Empty) /\ DOMAIN services = {}
      BY ONLY <1>2, <1>4, <2>1, <2>2, <2>4 DEF EndOfManifest
    <2>5. CASE (\A n \in DOMAIN services : services[n].binary # Empty) /\ DOMAIN services # {}
      <3>1. UNCHANGED <<text, pos, services, current, error, registry>>
        BY <1>4, <2>5 DEF EndOfManifest
      <3>2. ParseInv'
        BY <1>0, <3>1, ParseSame
      <3> QED BY <1>0, <2>1, <2>5, <3>1, <3>2, Zenon DEF ManifestInv, RegistryOK
    <2> QED BY <2>3, <2>4, <2>5, ZenonT(40)
  <1>5. CASE build
    <2>1. /\ phase = "order" /\ text' = text /\ error' = "none" /\ phase' # "order"
          /\ pos' = 1 /\ services' = NoFunction /\ current' = <<>>
      BY <1>5, Zenon DEF build
    <2>2. RegistryOK'
      <3>1. CASE manager # <<>>
        BY <1>0, <1>5, <2>1, <3>1, Zenon DEF build, RegistryOK
      <3>2. CASE manager = <<>>
        <4>1. registry' = [n \in DOMAIN services |->
                             [state |-> "Pending",
                              granted_capabilities |-> services[n].capabilities]]
          BY ONLY <1>5, <3>2, SMTT(60) DEF build
        <4>2. \A n \in DOMAIN services : SameSpec(services[n], Declares(text)[n])
          BY <1>0, <2>1, DeclaredParsed, Zenon DEF ManifestInv
        <4>3. \A n \in DOMAIN services :
                services[n]["capabilities"] = Declares(text)[n]["capabilities"]
          BY <4>2 DEF SameSpec, Keys
        <4> QED BY <2>1, <4>1, <4>3, Zenon DEF RegistryOK
      <3> QED BY <3>1, <3>2
    <2> QED BY <2>1, <2>2, StartOver
  <1>6. CASE PlanRefused
    BY <1>2, <1>6 DEF PlanRefused
  <1>7. CASE PlanStep
    BY <1>1, <1>7 DEF PlanStep, boot_vars
  <1>8. CASE launch_init
    BY <1>1, <1>8 DEF launch_init, load_payload_into_kernel
  <1>9. CASE bootstrap_manifest_services
    BY <1>1, <1>9, SMTT(60) DEF bootstrap_manifest_services
  <1>10. CASE service_worker
    <2>1. PICK name : mark_ready(name)
      BY <1>10 DEF service_worker
    <2>2. UNCHANGED <<text, pos, services, current, error, phase>>
      BY <1>10 DEF service_worker
    <2>3. RegistryOK'
      <3> DEFINE old == registry[name]
                 st == IF old.state = "Pending" THEN "Ready" ELSE old.state
      <3>1. registry' = [registry EXCEPT ![name] = [old EXCEPT !.state = st]]
        BY <2>1 DEF mark_ready
      <3>2. DOMAIN registry' = DOMAIN registry /\ registry' = [n \in DOMAIN registry |-> registry'[n]]
        BY <1>0, <3>1, Zenon DEF RegistryOK
      <3>3. ASSUME NEW n \in DOMAIN registry
            PROVE  registry'[n] = [state |-> registry'[n].state,
                                   granted_capabilities |-> Declares(text)[n]["capabilities"]]
        <4> DEFINE caps == Declares(text)[n]["capabilities"]
        <4>1. registry[n] = [state |-> registry[n].state, granted_capabilities |-> caps]
          BY <1>0 DEF RegistryOK
        <4> HIDE DEF caps
        <4>2. CASE n # name
          BY <1>0, <3>1, <4>1, <4>2 DEF RegistryOK
        <4>3. CASE n = name
          <5>1. registry'[n] = [registry[n] EXCEPT !.state = st]
            BY <1>0, <3>1, <4>3 DEF RegistryOK
          <5> HIDE DEF st
          <5>2. ASSUME NEW a PROVE [[state |-> a, granted_capabilities |-> caps] EXCEPT !.state = st]
                                     = [state |-> st, granted_capabilities |-> caps]
            OBVIOUS
          <5>3. registry'[n] = [state |-> st, granted_capabilities |-> caps]
            BY <4>1, <5>1, <5>2
          <5>4. registry'[n].state = st
            BY <5>3
          <5> QED BY <5>3, <5>4, Zenon DEF caps
        <4> QED BY <4>2, <4>3, Zenon DEF caps
      <3> QED BY <2>2, <3>2, <3>3 DEF RegistryOK
    <2>4. ParseInv'
      BY <1>0, <2>2, ParseSame
    <2> QED BY <2>2, <2>3, <2>4 DEF ManifestInv
  <1>11. CASE UNCHANGED vars
    BY <1>1, <1>11 DEF vars, boot_vars
  <1> QED BY <1>3, <1>4, <1>5, <1>6, <1>7, <1>8, <1>9, <1>10, <1>11 DEF Next, BootStep

(* For every text: the parser accepts exactly the well-formed manifests,   *)
(* and what it hands on is what the manifest declares, on both attempts.   *)
THEOREM ManifestParsedExactly == Spec => []ParsesExactly
  <1>1. Init => ManifestInv
    <2> SUFFICES ASSUME Init PROVE ManifestInv
      BY SMTT(30)
    <2>1. AtStart
      BY BootsAssumption, SMTT(60) DEF Init, AtStart
    <2>2. RegistryOK
      BY Zenon DEF Init, RegistryOK, NoFunction
    <2> QED BY <2>1, <2>2, ParseStart DEF Init, ManifestInv
  <1>2. ManifestInv => ParsesExactly
    <2> SUFFICES ASSUME ManifestInv PROVE ParsesExactly
      OBVIOUS
    <2>1. phase = "order" => /\ WellFormed(text)
                             /\ DOMAIN services = DOMAIN Declares(text)
                             /\ \A n \in DOMAIN services : SameSpec(services[n], Declares(text)[n])
      BY EndDecides, DeclaredParsed, Zenon DEF ManifestInv
    <2>2. \A n \in DOMAIN registry :
            registry[n].granted_capabilities = Declares(text)[n]["capabilities"]
      BY DEF ManifestInv, RegistryOK
    <2> QED BY <2>1, <2>2, Zenon DEF ManifestInv, ParsesExactly
  <1>3. Spec => Init /\ [][Next]_vars
    BY PTL DEF Spec
  <1> QED BY <1>1, <1>2, <1>3, ManifestStep, PTL

=============================================================================
