----------------------------- MODULE StartupOrder -----------------------------
(***************************************************************************)
(* BootManifest::startup_order (service_manager.rs): the depth-first       *)
(* search that turns the dependencies of a manifest into a start plan.     *)
(* The recursive calls of visit are a stack of frames; every step is one   *)
(* turn of a loop or one return.  Services are numbered in the order of    *)
(* their names, which is the order in which a BTreeMap lists them.         *)
(***************************************************************************)
EXTENDS Integers, Sequences

CONSTANT Service                       \* the names a manifest may mention

ASSUME ServiceAssumption == Service \subseteq Nat

VARIABLES deps,                        \* depends_on of every declared service
          keys,                        \* the keys the outer loop has still to look at
          stack, visiting, visited,    \* the calls of visit, and its two sets
          order, result

order_vars == <<deps, keys, stack, visiting, visited, order, result>>

IsManifest(d) == DOMAIN d \subseteq Service /\ d \in [DOMAIN d -> Seq(Service)]
Errors == {"UnknownDependency", "DependencyCycle"}
Frames == [name : Service, next : Nat \ {0}]

OrderInit ==
    /\ deps = [name \in {} |-> <<>>]
    /\ keys = {} /\ stack = <<>> /\ visiting = {} /\ visited = {} /\ order = <<>>
    /\ result = "idle"

---------------------------------------------------------------------------
\* A call; the services are those of the manifest it is made on.
startup_order ==
    /\ result # "running"
    /\ IsManifest(deps')
    /\ keys' = DOMAIN deps'
    /\ stack' = <<>> /\ visiting' = {} /\ visited' = {} /\ order' = <<>>
    /\ result' = "running"

\* An error drops everything the search has built.
Refuse(error) ==
    /\ stack' = <<>> /\ visiting' = {} /\ visited' = {} /\ order' = <<>>
    /\ result' = error

visit_VisitingIsDone(name, below) ==
    /\ IF name \in visited \cup visiting THEN stack' = below /\ UNCHANGED visiting
       ELSE /\ stack' = Append(below, [name |-> name, next |-> 1])
            /\ visiting' = visiting \cup {name}
    /\ UNCHANGED <<visited, order, result>>

\* visit(name): the tests at its entry, then its frame on top of `below`.
visit(name, below) ==
    IF name \in visiting THEN Refuse("DependencyCycle")
    ELSE /\ IF name \in visited THEN stack' = below /\ UNCHANGED visiting
            ELSE /\ stack' = Append(below, [name |-> name, next |-> 1])
                 /\ visiting' = visiting \cup {name}
         /\ UNCHANGED <<visited, order, result>>

NextKey ==
    /\ result = "running" /\ stack = <<>>
    /\ \E name \in keys :
         /\ \A k \in keys : name <= k
         /\ keys' = keys \ {name}
         /\ IF name \in visited THEN UNCHANGED <<stack, visiting, visited, order, result>>
            ELSE visit(name, <<>>)
    /\ UNCHANGED deps

Top == stack[Len(stack)]
Below == SubSeq(stack, 1, Len(stack) - 1)

NextDependency ==
    /\ result = "running" /\ stack # <<>>
    /\ Top.next \in DOMAIN deps[Top.name]
    /\ LET dep == deps[Top.name][Top.next]
       IN  IF dep \notin DOMAIN deps THEN Refuse("UnknownDependency")
           ELSE visit(dep, Append(Below, [Top EXCEPT !.next = @ + 1]))
    /\ UNCHANGED <<deps, keys>>

Return ==
    /\ result = "running" /\ stack # <<>>
    /\ Top.next \notin DOMAIN deps[Top.name]
    /\ stack' = Below
    /\ visiting' = visiting \ {Top.name}
    /\ visited' = visited \cup {Top.name}
    /\ order' = Append(order, Top.name)
    /\ UNCHANGED <<deps, keys, result>>

Finish ==
    /\ result = "running" /\ stack = <<>> /\ keys = {}
    /\ result' = "Ok"
    /\ UNCHANGED <<deps, keys, stack, visiting, visited, order>>

Search == NextKey \/ NextDependency \/ Return \/ Finish

OrderNext == startup_order \/ Search

OrderSpec == OrderInit /\ [][OrderNext]_order_vars

---------------------------------------------------------------------------
Dependencies(name) == {deps[name][i] : i \in DOMAIN deps[name]}

Unresolved == \E name \in DOMAIN deps : \E d \in Dependencies(name) : d \notin DOMAIN deps

\* Some services of S cannot start before one another: each waits for one of S.
Circular(S) == S # {} /\ \A name \in S : \E d \in S : d \in Dependencies(name)

\* The variables have their types; the stack is the chain of services being
\* visited, and the plan lists exactly the visited ones.
OrderTypeOK ==
    /\ IsManifest(deps)
    /\ keys \in SUBSET DOMAIN deps
    /\ stack \in Seq(Frames)
    /\ visiting = {stack[i].name : i \in DOMAIN stack}
    /\ visited = {order[i] : i \in DOMAIN order}
    /\ order \in Seq(Service)
    /\ result \in {"idle", "running", "Ok"} \cup Errors

\* "dependency resolution uses a stable topological order": at every moment of
\* the search, whatever follows, each service already in the plan comes once,
\* and after all the services it depends on.
PlanTopological ==
    \A i \in DOMAIN order :
        /\ order[i] \in DOMAIN deps
        /\ \A j \in DOMAIN order : i # j => order[i] # order[j]
        /\ \A d \in Dependencies(order[i]) : \E j \in DOMAIN order : j < i /\ order[j] = d

\* A plan that is accepted starts every service declared.
PlanComplete == result = "Ok" => {order[i] : i \in DOMAIN order} = DOMAIN deps

\* The search refuses a manifest only for a reason it has: a name that is not
\* declared, or services that wait for one another in a circle.
RefusalsJustified ==
    /\ result = "UnknownDependency" => Unresolved
    /\ result = "DependencyCycle" => \E S \in SUBSET DOMAIN deps : Circular(S)

\* And it accepts none that has such a reason.
AcceptsOnlySound ==
    result = "Ok" => ~Unresolved /\ \A S \in SUBSET DOMAIN deps : ~Circular(S)

\* startup_order is correct: the plan is topological at every moment and complete
\* when it is returned, a manifest is refused for a reason it has, and no manifest
\* is accepted that has one.
StartupOrderCorrect ==
    PlanTopological /\ PlanComplete /\ RefusalsJustified /\ AcceptsOnlySound
=============================================================================
