--------------------------------- MODULE Boot ---------------------------------
(***************************************************************************)
(* launch_init (init_process.rs) and the service manager: the init image   *)
(* is checked and loaded, the manifest is parsed line by line and planned, *)
(* twice, and the services of the plan are started.                        *)
(*                                                                         *)
(* A manifest is a sequence of lines, each with its kind: "section" (a     *)
(* [service.name] header), "bracket" (any other line that begins with a    *)
(* bracket), "binary", "capabilities" and "depends_on" (assignments),      *)
(* "array" (an assignment of something that is not an array to one of the  *)
(* last two), "key" (an assignment to another key), "text" (a line without *)
(* an equals sign) and "comment".  Values are opaque; Empty is the empty   *)
(* string.                                                                 *)
(***************************************************************************)
EXTENDS Image, StartupOrder

CONSTANTS Boots,                       \* the images provided and the manifests embedded
          UiShell, Empty

Keys == {"binary", "capabilities", "depends_on"}
Kinds == Keys \cup {"section", "bracket", "array", "key", "text", "comment"}

\* The fields of a header are unsigned numbers, and every line has a kind.
ASSUME BootsAssumption ==
    \A boot \in Boots :
        /\ boot.payload.present =>
              /\ boot.payload.size \in Nat
              /\ boot.payload.header \in
                    [magic : BOOLEAN, version : BOOLEAN, header_size : Nat, entry_offset : Nat,
                     text_offset : Nat, text_size : Nat, data_offset : Nat, data_size : Nat]
        /\ Len(boot.text) \in Nat /\ DOMAIN boot.text = 1..Len(boot.text)
        /\ \A i \in DOMAIN boot.text : boot.text[i].kind \in Kinds

VARIABLES payload, text,
          phase, pass,
          pos, services, current,      \* parse_manifest
          error,                       \* of the last init_embedded_manifest
          manager,                     \* SERVICE_MANAGER, empty until set
          registry,
          index, threads               \* bootstrap_manifest_services, SERVICE_THREADS

boot_vars == <<payload, text, phase, pass, pos, services, current, error, manager, registry, index,
               threads>>
vars == <<boot_vars, order_vars>>

NoImage == [present |-> FALSE]
NoFunction == [name \in {} |-> 0]

ServiceSpec_new == [binary |-> Empty, capabilities |-> <<>>, depends_on |-> <<>>]

Init ==
    /\ \E boot \in Boots : payload = boot.payload /\ text = boot.text
    /\ phase = "load" /\ pass = 1
    /\ pos = 1 /\ services = NoFunction /\ current = <<>> /\ error = "none"
    /\ manager = <<>> /\ registry = NoFunction
    /\ index = 1 /\ threads = NoFunction
    /\ OrderInit

---------------------------------------------------------------------------
(* create_init_process.  Loading can fail for want of memory.              *)

load_payload_into_kernel(loaded) ==
    LET image == IF payload.present THEN payload ELSE embedded_init_image
    IN  IF parse_image(image.header, image.size) = "Ok" /\ loaded THEN "parse" ELSE "halted"

launch_init ==
    /\ phase = "load"
    /\ \E loaded \in BOOLEAN : phase' = load_payload_into_kernel(loaded)
    /\ UNCHANGED <<payload, text, pass, pos, services, current, error, manager, registry, index,
                   threads, order_vars>>

---------------------------------------------------------------------------
(* init_embedded_manifest, called by initialize_and_report and then again  *)
(* by bootstrap_manifest_services.                                         *)

\* One line: the services after it, or an error.
LineError(line) ==
    IF line.kind = "comment" THEN "none"
    ELSE IF line.kind = "bracket" THEN "InvalidSection"
    ELSE IF line.kind = "section"
      THEN (IF line.name \in DOMAIN services THEN "DuplicateService" ELSE "none")
    ELSE IF current = <<>> \/ line.kind = "text" THEN "OrphanKeyValue"
    ELSE IF line.kind = "array" THEN "InvalidSection"
    ELSE IF line.kind = "key" THEN "UnknownKey"
    ELSE "none"

Declare(name) == [s \in DOMAIN services \cup {name} |->
                    IF s = name THEN ServiceSpec_new ELSE services[s]]

TakeLine_KeepsFirst(line) ==
    IF line.kind = "section" THEN services' = Declare(line.name) /\ current' = <<line.name>>
    ELSE IF line.kind = "comment" THEN UNCHANGED <<services, current>>
    ELSE /\ services' = [services EXCEPT ![current[1]][line.kind] =
                            IF @ = ServiceSpec_new[line.kind] THEN line.value ELSE @]
         /\ UNCHANGED current

TakeLine(line) ==
    IF line.kind = "section" THEN services' = Declare(line.name) /\ current' = <<line.name>>
    ELSE IF line.kind = "comment" THEN UNCHANGED <<services, current>>
    ELSE /\ services' = [services EXCEPT ![current[1]][line.kind] = line.value]
         /\ UNCHANGED current

\* The result is an error: the first caller reports it and goes on to the
\* second call, the second caller starts no service.
Unavailable(e) ==
    /\ error' = e
    /\ pass' = 2
    /\ phase' = IF pass = 1 THEN "parse" ELSE "run"
    /\ pos' = 1 /\ services' = NoFunction /\ current' = <<>>
    /\ UNCHANGED <<manager, registry>>

ParseLine_StaysOnComment ==
    /\ phase = "parse" /\ pos \in DOMAIN text
    /\ LET line == text[pos]
       IN  IF LineError(line) # "none" THEN Unavailable(LineError(line))
           ELSE /\ TakeLine(line)
                /\ pos' = IF line.kind = "comment" THEN pos ELSE pos + 1
                /\ UNCHANGED <<phase, pass, error, manager, registry>>
    /\ UNCHANGED <<payload, text, index, threads, order_vars>>

ParseLine ==
    /\ phase = "parse" /\ pos \in DOMAIN text
    /\ LET line == text[pos]
       IN  IF LineError(line) # "none" THEN Unavailable(LineError(line))
           ELSE /\ TakeLine(line)
                /\ pos' = pos + 1
                /\ UNCHANGED <<phase, pass, error, manager, registry>>
    /\ UNCHANGED <<payload, text, index, threads, order_vars>>

EndOfManifest_KeepsVisited ==
    /\ phase = "parse" /\ pos \notin DOMAIN text
    /\ IF \E name \in DOMAIN services : services[name].binary = Empty
         THEN Unavailable("MissingBinary") /\ UNCHANGED order_vars
       ELSE IF DOMAIN services = {} THEN Unavailable("EmptyManifest") /\ UNCHANGED order_vars
       ELSE /\ deps' = [name \in DOMAIN services |-> services[name].depends_on]
            /\ keys' = DOMAIN deps' /\ stack' = <<>> /\ order' = <<>> /\ result' = "running"
            /\ UNCHANGED <<visiting, visited>>
            /\ phase' = "order"
            /\ UNCHANGED <<pass, pos, services, current, error, manager, registry>>
    /\ UNCHANGED <<payload, text, index, threads>>

\* The tests at the end of parse_manifest, then the call of startup_order.
EndOfManifest ==
    /\ phase = "parse" /\ pos \notin DOMAIN text
    /\ IF \E name \in DOMAIN services : services[name].binary = Empty
         THEN Unavailable("MissingBinary") /\ UNCHANGED order_vars
       ELSE IF DOMAIN services = {} THEN Unavailable("EmptyManifest") /\ UNCHANGED order_vars
       ELSE /\ deps' = [name \in DOMAIN services |-> services[name].depends_on]
            /\ startup_order
            /\ phase' = "order"
            /\ UNCHANGED <<pass, pos, services, current, error, manager, registry>>
    /\ UNCHANGED <<payload, text, index, threads>>

PlanStep == phase = "order" /\ Search /\ UNCHANGED boot_vars

\* build's registry, with every service pending, and call_once.
build ==
    /\ phase = "order" /\ result \notin {"running"} \cup Errors
    /\ IF manager = <<>>
       THEN /\ manager' = <<[manifest |-> services, plan |-> order]>>
            /\ registry' = [name \in DOMAIN services |->
                              [state |-> "Pending",
                               granted_capabilities |-> services[name].capabilities]]
       ELSE UNCHANGED <<manager, registry>>
    /\ error' = "none"
    /\ pass' = 2
    /\ phase' = IF pass = 1 THEN "parse" ELSE "bootstrap"
    /\ pos' = 1 /\ services' = NoFunction /\ current' = <<>>
    /\ UNCHANGED <<payload, text, index, threads, order_vars>>

PlanRefused ==
    /\ phase = "order" /\ result \in Errors
    /\ Unavailable(result)
    /\ UNCHANGED <<payload, text, index, threads, order_vars>>

---------------------------------------------------------------------------
(* Starting the services.                                                  *)

\* A thread for the service, if its stack can be allocated.
spawn_service_thread(name, stacked) ==
    threads' = IF stacked THEN [n \in DOMAIN threads \cup {name} |->
                                  IF n = name
                                  THEN [started |-> FALSE,
                                        capabilities |-> manager[1].manifest[name].capabilities]
                                  ELSE threads[n]]
               ELSE threads

bootstrap_manifest_services ==
    /\ phase = "bootstrap"
    /\ IF index \in DOMAIN manager[1].plan
       THEN LET name == manager[1].plan[index]
            IN  /\ IF name # UiShell THEN UNCHANGED threads
                   ELSE \E stacked \in BOOLEAN : spawn_service_thread(name, stacked)
                /\ index' = index + 1
                /\ UNCHANGED phase
       ELSE phase' = "run" /\ UNCHANGED <<index, threads>>
    /\ UNCHANGED <<payload, text, pass, pos, services, current, error, manager, registry, order_vars>>

\* Only a pending service changes its state.
mark_ready(name) ==
    registry' = [registry EXCEPT ![name].state = IF @ = "Pending" THEN "Ready" ELSE @]

\* The first run of a service's thread, once the scheduler has it.
service_worker ==
    /\ phase = "run"
    /\ \E name \in DOMAIN threads :
         /\ ~threads[name].started
         /\ threads' = [threads EXCEPT ![name].started = TRUE]
         /\ mark_ready(name)
    /\ UNCHANGED <<payload, text, phase, pass, pos, services, current, error, manager, index,
                   order_vars>>

BootStep == launch_init \/ ParseLine \/ EndOfManifest \/ PlanStep \/ build \/ PlanRefused
            \/ bootstrap_manifest_services

Next == BootStep \/ service_worker

\* Nothing else runs while the kernel boots.  The embedded init yields for
\* ever, so that the scheduler comes round to every thread; of an init image
\* from the bootloader nothing is known.
Spec == /\ Init /\ [][Next]_vars
        /\ WF_vars(BootStep) /\ WF_vars(service_worker /\ ~payload.present)

---------------------------------------------------------------------------
(* What a manifest means, read off the whole text.                         *)

SectionsIn(t) == {i \in DOMAIN t : t[i].kind = "section"}

\* The lines after a section header and before the next.
Body(t, i) == {j \in DOMAIN t : i < j /\ \A k \in SectionsIn(t) : k <= i \/ j < k}

\* The value a section gives a key: that of its last assignment.
ValueOf(t, i, key) ==
    LET lines == {j \in Body(t, i) : t[j].kind = key}
    IN  IF lines = {} THEN ServiceSpec_new[key]
        ELSE t[CHOOSE j \in lines : \A k \in lines : k <= j].value

WellFormed(t) ==
    /\ SectionsIn(t) # {}
    /\ \A i \in DOMAIN t :
         /\ t[i].kind \in Keys \cup {"section", "comment"}
         /\ t[i].kind \in Keys => \E j \in SectionsIn(t) : j < i
    /\ \A i \in SectionsIn(t) :
         /\ \A j \in SectionsIn(t) : i # j => t[i].name # t[j].name
         /\ ValueOf(t, i, "binary") # Empty

Declares(t) ==
    [name \in {t[i].name : i \in SectionsIn(t)} |->
        LET i == CHOOSE j \in SectionsIn(t) : t[j].name = name
        IN  [key \in Keys |-> ValueOf(t, i, key)]]

SameSpec(a, b) == \A key \in Keys : a[key] = b[key]

\* "manifest parsing is strict and rejects malformed input early": the parser
\* accepts exactly the well-formed texts, and what it hands to the planner, and
\* keeps in the manager, is what the text declares, in both calls.
ParsesExactly ==
    /\ phase = "order" => /\ WellFormed(text)
                          /\ DOMAIN services = DOMAIN Declares(text)
                          /\ \A n \in DOMAIN services : SameSpec(services[n], Declares(text)[n])
    /\ error \notin {"none"} \cup Errors => ~WellFormed(text)
    /\ manager # <<>> => \A n \in DOMAIN registry :
                           registry[n].granted_capabilities = Declares(text)[n]["capabilities"]

\* "Executables are validated before any mapping occurs": an image that boots
\* has its sections after its header and inside the file, page-aligned and apart
\* from one another, and its entry point inside the text.
ImageSound ==
    phase \notin {"load", "halted"} =>
        LET image == IF payload.present THEN payload ELSE embedded_init_image
            h == image.header
            text_bytes == h.text_offset .. h.text_offset + h.text_size - 1
            data_bytes == h.data_offset .. h.data_offset + h.data_size - 1
        IN  /\ text_bytes \cup data_bytes \subseteq h.header_size .. image.size - 1
            /\ text_bytes \cap data_bytes = {}
            /\ h.text_offset % PAGE_SIZE = 0 /\ h.data_offset % PAGE_SIZE = 0
            /\ h.text_offset + h.entry_offset \in text_bytes

\* The boot planner behaves as the search on its own does, so what is proved of
\* startup_order holds of the plan the boot uses.
PlansAsSearched == OrderSpec

\* Whatever the image and the manifest, the boot comes to an end: the parser and
\* the search terminate, and the kernel halts or runs; and if it has made a thread
\* for the shell, and init yields, the shell becomes ready.
BootFinishes ==
    <>(\/ phase = "halted"
       \/ /\ phase = "run"
          /\ (UiShell \in DOMAIN threads /\ ~payload.present)
                => UiShell \in DOMAIN registry /\ registry[UiShell].state = "Ready")

=============================================================================
