------------------------------- MODULE Input --------------------------------
(***************************************************************************)
(* Input, from the PS/2 controller to the program that reads it: the two   *)
(* interrupt handlers and the buffers they fill (kernel/src/input.rs), the *)
(* registry of IRQ handlers, and each of the programs of the repository    *)
(* that polls, with its decoder.  One program runs: `program` is           *)
(*                                                                         *)
(*   "desktop"  the kernel's desktop, on poll_key_event, poll_mouse_event  *)
(*   "shell"    ui_shell, on keyboard_poll and the library's MouseDriver   *)
(*   "terminal" the terminal, on its InputHandler                          *)
(*   "driver"   the keyboard driver                                        *)
(*   "mouse"    the mouse driver, which reads the controller itself        *)
(*   "client"   a program that sleeps until it is notified of IRQ 1        *)
(*                                                                         *)
(* The controller, the keyboard, the mouse and the client are external.    *)
(* A handler runs with the processor to itself, one byte per step.         *)
(***************************************************************************)
EXTENDS Decoders, RingBuffer, FiniteSets

CONSTANTS
    Keys,                   \* for each program, keys that are used: [ext, code]
    Motions,                \* for each program, movements: [dx, dy, left]
    KEYBOARD_BUFFER_SIZE,
    MOUSE_BUFFER_SIZE,
    DRAIN,                  \* size of local_bytes in poll_mouse_event
    MAX_QUEUE_DEPTH,        \* messages the client's port holds
    KeyBudget,              \* bound: for each program, key bytes of a behaviour
    MotionBudget,           \* bound: for each program, mouse packets of a behaviour
    CallBudget,             \* bound: registry calls of a behaviour
    ControllerDepth         \* bound: for each program, bytes sent before no more are

ASSUME InputAssumption ==
    /\ KEYBOARD_BUFFER_SIZE \in Nat \ {0} /\ MOUSE_BUFFER_SIZE \in Nat \ {0}
    /\ DRAIN \in Nat \ {0} /\ MAX_QUEUE_DEPTH \in Nat \ {0}

Programs == {"desktop", "shell", "terminal", "driver", "mouse", "client"}

\* The keys of a PS/2 keyboard.  None sends the prefix byte when it is released,
\* and only one key each is a left Shift, a right Shift and a Caps Lock.
ASSUME KeysAssumption ==
    \A p \in Programs : \A k \in Keys[p] :
        /\ k \in [ext : BOOLEAN, code : 1 .. 127]
        /\ k.code + 128 # EXTENDED_PREFIX
        /\ k.ext => k.code \notin {LeftShift, RightShift, CapsLock}

ASSUME MotionsAssumption ==
    \A p \in Programs : Motions[p] \subseteq [dx : Int, dy : Int, left : BOOLEAN]

Threads == {"client", "other"}
ALLOWED_IRQS == {1, 12}
NoHandler == "none"

VARIABLES
    program,
    controller,             \* bytes of the devices, the first one at or before the port
    irq,                    \* the handler in progress: 0, 1 or 12
    served,                 \* it has read a byte
    keyboard_buffer, mouse_buffer,
    keys_state, mouse_state, \* the decoders of the program
    aux_seen,               \* the mouse driver has seen the AUX bit
    IRQ_HANDLERS, notices,  \* who is notified of an IRQ; the client's port
    client,                 \* "start", "drain" or "wait"
    down, caps,             \* keys held; what Caps Lock should be
    typed, moved,           \* meanings of the bytes sent and not yet reported
    keys_right, motions_right, \* every event so far was the one meant
    caveats,                \* what has happened that the code does not handle
    budget

device_vars == <<down, caps>>
registry_vars == <<IRQ_HANDLERS, notices, client>>
key_vars == <<keyboard_buffer, keys_state, typed, keys_right>>
mouse_vars == <<mouse_buffer, mouse_state, moved, motions_right>>
vars == <<program, controller, irq, served, aux_seen, caveats, budget, device_vars, registry_vars,
          key_vars, mouse_vars>>

---------------------------------------------------------------------------
(* What the user means.  These definitions look at the keys held, never at *)
(* a decoder.                                                              *)

Held(keys, code) == \E k \in keys : k.code = code
ShiftHeld(keys) == Held(keys, LeftShift) \/ Held(keys, RightShift)
ModifierCodes == {LeftShift, RightShift, Ctrl, Alt, CapsLock}

\* The character a key bears with these modifiers.
Bears(code, shift, on) ==
    CASE code \in Letters -> <<[code |-> code, upper |-> shift # on]>>
      [] code \in Symbols -> <<[code |-> code, upper |-> shift]>>
      [] code = Space -> <<[code |-> code, upper |-> FALSE]>>
      [] OTHER -> <<>>

TerminalMeaning(k, keys, on) ==
    LET special == <<KeyEvent(IF k.ext THEN "navigation" ELSE "special", Char(k.code, FALSE))>>
        char == Bears(k.code, ShiftHeld(keys), on)
        lower == IF k.code \in Letters THEN Char(k.code, FALSE) ELSE char[1]
    IN  IF k.ext THEN (IF k.code \in NavigationKeys THEN special ELSE <<>>)
        ELSE IF k.code \in EditingKeys \cup FunctionKeys THEN special
        ELSE IF char = <<>> THEN <<>>
        ELSE IF Held(keys, Ctrl) THEN <<KeyEvent("control", lower)>>
        ELSE <<KeyEvent(IF Held(keys, Alt) THEN "alt" ELSE "char", char[1])>>

DriverMeaning(k, pressed, keys, on) ==
    <<DriverEvent(IF pressed THEN k.code ELSE k.code + 128,
                  IF ~pressed THEN <<>>
                  ELSE IF k.code \in EditingKeys THEN <<Char(k.code, FALSE)>>
                  ELSE Bears(k.code, ShiftHeld(keys), on),
                  Modifiers(ShiftHeld(keys), Held(keys, Ctrl), Held(keys, Alt), on))>>

Meaning(k, pressed, keys, on) ==
    CASE program = "terminal" ->
           IF pressed /\ k.code \notin ModifierCodes THEN TerminalMeaning(k, keys, on) ELSE <<>>
      [] program = "driver" ->
           IF k.code \in ModifierCodes THEN <<>> ELSE DriverMeaning(k, pressed, keys, on)
      [] program = "desktop" -> IF pressed THEN <<k.code>> ELSE <<>>
      [] program = "shell" -> IF pressed /\ k.code = Escape THEN <<Escape>> ELSE <<>>
      [] OTHER -> <<>>

\* What the decoders are known not to handle.
KeyCaveats(k, pressed, keys) ==
       (IF k.ext /\ k.code \in {Ctrl, Alt} THEN {"right"} ELSE {})
  \cup (IF \E code \in {Ctrl, Alt} : Cardinality({j \in keys : j.code = code}) > 1
           \/ (Held(keys, LeftShift) /\ Held(keys, RightShift))
        THEN {"overlap"} ELSE {})
  \cup (IF pressed /\ k.code = CapsLock /\ k \in down THEN {"caps_repeat"} ELSE {})
  \cup (IF ~pressed /\ k.code = 112 THEN {"F0"} ELSE {})

---------------------------------------------------------------------------
(* The devices (external). *)

Aux(byte) == [aux |-> TRUE, byte |-> byte]
Key(byte) == [aux |-> FALSE, byte |-> byte]

KeyBytes(k, pressed) ==
    (IF k.ext THEN <<Key(EXTENDED_PREFIX)>> ELSE <<>>)
    \o <<Key(IF pressed THEN k.code ELSE k.code + 128)>>

\* Pressing a key that is held is a typematic repeat.
UseKey(k, pressed) ==
    LET keys == IF pressed THEN down \cup {k} ELSE down \ {k}
        on == IF pressed /\ k.code = CapsLock /\ k \notin down THEN ~caps ELSE caps
        bytes == KeyBytes(k, pressed)
    IN  /\ pressed \/ k \in down
        /\ Len(bytes) <= budget.key /\ Len(controller) < ControllerDepth[program]
        /\ budget' = [budget EXCEPT !.key = @ - Len(bytes)]
        /\ controller' = controller \o bytes
        /\ down' = keys
        /\ caps' = on
        /\ typed' = typed \o Meaning(k, pressed, keys, on)
        /\ caveats' = caveats \cup KeyCaveats(k, pressed, keys)
        /\ UNCHANGED <<program, irq, served, aux_seen, registry_vars, keyboard_buffer, keys_state,
                       keys_right, mouse_vars>>

Flag(condition, mask) == IF condition THEN mask ELSE 0
Large(d) == d \notin -256 .. 255

PacketBytes(m) ==
    <<Aux(8 + Flag(m.left, 1) + Flag(m.dx < 0, 16) + Flag(m.dy < 0, 32)
            + Flag(Large(m.dx), 64) + Flag(Large(m.dy), 128)),
      Aux(m.dx % 256), Aux(m.dy % 256)>>

\* The programs that discard a packet with the overflow bits mean to.
MouseMove(m) ==
    LET large == Large(m.dx) \/ Large(m.dy)
    IN  /\ budget.motion > 0 /\ Len(controller) < ControllerDepth[program]
        /\ budget' = [budget EXCEPT !.motion = @ - 1]
        /\ controller' = controller \o PacketBytes(m)
        /\ moved' = IF large /\ program # "desktop" THEN moved
                    ELSE Append(moved, [dx |-> m.dx, dy |-> -m.dy, left |-> m.left])
        /\ caveats' = IF large THEN caveats \cup {"large"} ELSE caveats
        /\ UNCHANGED <<program, irq, served, aux_seen, device_vars, registry_vars, key_vars,
                       mouse_buffer, mouse_state, motions_right>>

---------------------------------------------------------------------------
(* The interrupt handlers and the notification of registered threads. *)

AtPort == Head(controller)
Waiting(aux) == controller # <<>> /\ AtPort.aux = aux

\* The controller raises IRQ 1 or IRQ 12 for the byte at its port.
TakeIrq ==
    /\ irq = 0 /\ controller # <<>>
    /\ irq' = IF AtPort.aux THEN 12 ELSE 1
    /\ served' = FALSE
    /\ UNCHANGED <<program, controller, aux_seen, caveats, budget, device_vars, registry_vars,
                   key_vars, mouse_vars>>

\* One iteration of the loop of on_keyboard_irq.
on_keyboard_irq ==
    LET p == push(keyboard_buffer, KEYBOARD_BUFFER_SIZE, AtPort.byte)
    IN  /\ irq = 1 /\ Waiting(FALSE)
        /\ controller' = Tail(controller)
        /\ served' = TRUE
        /\ keyboard_buffer' = p.ring
        /\ caveats' = IF p.stored THEN caveats ELSE caveats \cup {"keys_lost"}
        /\ UNCHANGED <<program, irq, aux_seen, budget, device_vars, registry_vars, keys_state,
                       typed, keys_right, mouse_vars>>

\* One iteration of the loop of on_mouse_irq.  The mouse driver misses the byte.
on_mouse_irq ==
    LET p == push(mouse_buffer, MOUSE_BUFFER_SIZE, AtPort.byte)
    IN  /\ irq = 12 /\ Waiting(TRUE)
        /\ controller' = Tail(controller)
        /\ served' = TRUE
        /\ mouse_buffer' = p.ring
        /\ caveats' = caveats \cup (IF p.stored THEN {} ELSE {"motions_lost"})
                              \cup (IF program = "mouse" THEN {"raced"} ELSE {})
        /\ UNCHANGED <<program, irq, aux_seen, budget, device_vars, registry_vars, key_vars,
                       mouse_state, moved, motions_right>>

\* send_message_async refuses a message for a full queue, and the refusal is
\* only logged.  The port of the other thread is not modelled.
notify_irq_handler_NotOnBreak(i) ==
    IF IRQ_HANDLERS[i] = "client" /\ Len(notices) < MAX_QUEUE_DEPTH /\ ~Waiting(i = 1)
    THEN notices' = Append(notices, i)
    ELSE UNCHANGED notices

notify_irq_handler(i) ==
    IF IRQ_HANDLERS[i] = "client" /\ Len(notices) < MAX_QUEUE_DEPTH
    THEN notices' = Append(notices, i)
    ELSE UNCHANGED notices

\* The loop ends: no byte, a byte of the other device, or one still on its way.
EndIrq ==
    /\ irq # 0 /\ served
    /\ notify_irq_handler(irq)
    /\ irq' = 0 /\ served' = FALSE
    /\ UNCHANGED <<program, controller, aux_seen, caveats, budget, device_vars, IRQ_HANDLERS,
                   client, key_vars, mouse_vars>>

\* Refused calls (EPERM, EBUSY, EINVAL) change nothing and are no steps.
sys_register_irq_handler(t, i) ==
    /\ irq = 0 /\ program = "client" /\ budget.call > 0
    /\ t = "client" => i = 12 \/ client = "start"
    /\ IRQ_HANDLERS[i] = NoHandler
    /\ IRQ_HANDLERS' = [IRQ_HANDLERS EXCEPT ![i] = t]
    /\ client' = IF t = "client" /\ i = 1 THEN "drain" ELSE client
    /\ budget' = [budget EXCEPT !.call = @ - 1]
    /\ UNCHANGED <<program, controller, irq, served, aux_seen, caveats, device_vars, notices, key_vars,
                   mouse_vars>>

sys_unregister_irq_handler(t, i) ==
    /\ irq = 0 /\ program = "client" /\ budget.call > 0
    /\ IRQ_HANDLERS[i] = t
    /\ IRQ_HANDLERS' = [IRQ_HANDLERS EXCEPT ![i] = NoHandler]
    /\ client' = IF t = "client" /\ i = 1 THEN "start" ELSE client
    /\ budget' = [budget EXCEPT !.call = @ - 1]
    /\ UNCHANGED <<program, controller, irq, served, aux_seen, caveats, device_vars, notices, key_vars,
                   mouse_vars>>

---------------------------------------------------------------------------
(* The programs.  None makes a step while a handler runs. *)

\* Whether the event reported next is the one meant next.
AsMeant(meant, events) ==
    \A i \in DOMAIN events : meant # <<>> /\ events[i] = Head(meant)

Unreported(meant, events) == IF events # <<>> /\ meant # <<>> THEN Tail(meant) ELSE meant

Report(events) ==
    /\ keys_right' = (keys_right /\ AsMeant(typed, events))
    /\ typed' = Unreported(typed, events)

ReportMotion(events) ==
    /\ motions_right' = (motions_right /\ AsMeant(moved, events))
    /\ moved' = Unreported(moved, events)

Decode(s, byte) ==
    CASE program = "terminal" -> process_scancode(s, byte)
      [] program = "driver" -> driver_process_scancode(s, byte)
      [] program = "shell" -> IF byte = Escape THEN Result([exited |-> TRUE], <<Escape>>) ELSE Result(s, <<>>)

\* The call exit(0) of ui_shell.
Exited == keys_state = [exited |-> TRUE]

\* keyboard_poll by the terminal, the keyboard driver or ui_shell, and what the
\* program makes of the byte.  ui_shell exits on Escape.
keyboard_poll ==
    LET d == Decode(keys_state, front(keyboard_buffer))
    IN  /\ irq = 0 /\ program \in {"terminal", "driver", "shell"}
        /\ ~Exited /\ ~is_empty(keyboard_buffer)
        /\ keyboard_buffer' = pop(keyboard_buffer, KEYBOARD_BUFFER_SIZE)
        /\ keys_state' = d.state
        /\ Report(d.events)
        /\ UNCHANGED <<program, controller, irq, served, aux_seen, caveats, budget, device_vars,
                       registry_vars, mouse_vars>>

\* The kernel's desktop takes F0 for the prefix of a release; it acts on presses.
poll_key_event ==
    LET byte == front(keyboard_buffer)
        rest == pop(keyboard_buffer, KEYBOARD_BUFFER_SIZE)
        prefix == byte = 240
    IN  /\ irq = 0 /\ program = "desktop" /\ ~is_empty(keyboard_buffer)
        /\ keyboard_buffer' = IF prefix /\ ~is_empty(rest) THEN pop(rest, KEYBOARD_BUFFER_SIZE)
                              ELSE rest
        /\ Report(IF prefix \/ IsRelease(byte) THEN <<>> ELSE <<Code(byte)>>)
        /\ UNCHANGED <<program, controller, irq, served, aux_seen, caveats, budget, device_vars,
                       registry_vars, keys_state, mouse_vars>>

\* Bytes taken into local_bytes go to add_byte until one completes a packet; the
\* others are gone.
poll_mouse_event ==
    LET stored == len(mouse_buffer, MOUSE_BUFFER_SIZE)
        count == IF stored < DRAIN THEN stored ELSE DRAIN
    IN  /\ irq = 0 /\ program = "desktop" /\ ~is_empty(mouse_buffer)
        /\ \E local_bytes \in {SubSeq(Contents(mouse_buffer, MOUSE_BUFFER_SIZE), 1, count)} :
           \E end \in {add_bytes(mouse_state, local_bytes)} :
              /\ mouse_state' = end.state
              /\ ReportMotion(end.events)
              /\ caveats' = IF end.used < count THEN caveats \cup {"discarded"} ELSE caveats
        /\ mouse_buffer' = [mouse_buffer EXCEPT !.tail = (@ + count) % MOUSE_BUFFER_SIZE]
        /\ UNCHANGED <<program, controller, irq, served, aux_seen, budget, device_vars,
                       registry_vars, key_vars>>

\* MouseDriver::poll_event in ui_shell, one mouse_poll_byte; apply_delta
\* subtracts dy.
mouse_poll_byte ==
    LET d == process_byte(mouse_state, front(mouse_buffer))
    IN  /\ irq = 0 /\ program = "shell" /\ ~Exited /\ ~is_empty(mouse_buffer)
        /\ mouse_buffer' = pop(mouse_buffer, MOUSE_BUFFER_SIZE)
        /\ mouse_state' = d.state
        /\ ReportMotion([i \in DOMAIN d.events |-> OnScreen(d.events[i])])
        /\ UNCHANGED <<program, controller, irq, served, aux_seen, caveats, budget, device_vars,
                       registry_vars, key_vars>>

\* poll_mouse of the mouse driver is two calls: the status port, then the data
\* port.  A handler may empty the port between the two.
aux_data_available ==
    /\ irq = 0 /\ program = "mouse" /\ ~aux_seen
    /\ Waiting(TRUE)
    /\ aux_seen' = TRUE
    /\ UNCHANGED <<program, controller, irq, served, caveats, budget, device_vars, registry_vars,
                   key_vars, mouse_vars>>

\* What an empty port returns: the byte read last, of which only bit 3 matters.
StaleBytes == {0, 8}

read_data ==
    /\ irq = 0 /\ aux_seen
    /\ aux_seen' = FALSE
    /\ \E byte \in IF controller = <<>> THEN StaleBytes ELSE {AtPort.byte} :
          LET d == process_byte(mouse_state, byte)
          IN  /\ mouse_state' = d.state
              /\ ReportMotion([i \in DOMAIN d.events |-> OnScreen(d.events[i])])
    /\ controller' = IF controller = <<>> THEN <<>> ELSE Tail(controller)
    /\ caveats' = IF Waiting(TRUE) THEN caveats ELSE caveats \cup {"raced"}
    /\ UNCHANGED <<program, irq, served, budget, device_vars, registry_vars, key_vars, mouse_buffer>>

\* The client empties the buffer, then sleeps until a notice is in its port.
ClientDrain ==
    /\ irq = 0 /\ program = "client" /\ client = "drain"
    /\ IF is_empty(keyboard_buffer)
       THEN client' = "wait" /\ UNCHANGED keyboard_buffer
       ELSE keyboard_buffer' = pop(keyboard_buffer, KEYBOARD_BUFFER_SIZE) /\ UNCHANGED client
    /\ UNCHANGED <<program, controller, irq, served, aux_seen, caveats, budget, device_vars, IRQ_HANDLERS,
                   notices, keys_state, typed, keys_right, mouse_vars>>

ClientWakes ==
    /\ irq = 0 /\ program = "client" /\ client = "wait" /\ notices # <<>>
    /\ notices' = Tail(notices)
    /\ client' = "drain"
    /\ UNCHANGED <<program, controller, irq, served, aux_seen, caveats, budget, device_vars, IRQ_HANDLERS,
                   key_vars, mouse_vars>>

---------------------------------------------------------------------------
(* The specification. *)

Decoder(p) ==
    CASE p = "terminal" -> NewHandler
      [] p = "driver" -> NewKeyboard
      [] OTHER -> [exited |-> FALSE]

Init ==
    /\ program \in Programs
    /\ controller = <<>> /\ irq = 0 /\ served = FALSE /\ aux_seen = FALSE /\ caveats = {}
    /\ keyboard_buffer = new_ring(KEYBOARD_BUFFER_SIZE)
    /\ mouse_buffer = new_ring(MOUSE_BUFFER_SIZE)
    /\ keys_state = Decoder(program) /\ mouse_state = NewPacket
    /\ IRQ_HANDLERS = [i \in ALLOWED_IRQS |-> NoHandler] /\ notices = <<>> /\ client = "start"
    /\ down = {} /\ caps = FALSE
    /\ typed = <<>> /\ moved = <<>> /\ keys_right = TRUE /\ motions_right = TRUE
    /\ budget = [key |-> KeyBudget[program], motion |-> MotionBudget[program], call |-> CallBudget]

Interrupt == TakeIrq \/ on_keyboard_irq \/ on_mouse_irq \/ EndIrq

PollsKeys == keyboard_poll \/ poll_key_event \/ ClientDrain \/ ClientWakes
PollsMouse == poll_mouse_event \/ mouse_poll_byte \/ aux_data_available \/ read_data

Next ==
    \/ \E k \in Keys[program], pressed \in BOOLEAN : UseKey(k, pressed)
    \/ \E m \in Motions[program] : MouseMove(m)
    \/ Interrupt
    \/ \E t \in Threads, i \in ALLOWED_IRQS :
          sys_register_irq_handler(t, i) \/ sys_unregister_irq_handler(t, i)
    \/ PollsKeys
    \/ PollsMouse

\* A pending interrupt is taken and its handler finishes; the program keeps
\* polling, as the loops of all of them do.
Spec ==
    /\ Init /\ [][Next]_vars
    /\ WF_vars(Interrupt) /\ WF_vars(PollsKeys) /\ WF_vars(PollsMouse)

---------------------------------------------------------------------------
(* Properties. *)

Offer(i) == IF irq = i /\ Waiting(i = 12) THEN <<AtPort.byte>> ELSE <<>>

KeyboardFifo == INSTANCE ByteFifo WITH
    Capacity <- KEYBOARD_BUFFER_SIZE - 1,
    queue <- Contents(keyboard_buffer, KEYBOARD_BUFFER_SIZE),
    refused <- "keys_lost" \in caveats, offer <- Offer(1)

MouseFifo == INSTANCE ByteFifo WITH
    Capacity <- MOUSE_BUFFER_SIZE - 1,
    queue <- Contents(mouse_buffer, MOUSE_BUFFER_SIZE),
    refused <- "motions_lost" \in caveats, offer <- Offer(12)

\* The two buffers, filled by IRQ 1 and IRQ 12 and emptied by polls, one byte or
\* many at a time, are bounded FIFOs: no byte is duplicated, reordered or
\* overwritten when the indices wrap, and one is refused only when all N - 1
\* usable cells are taken (input.rs, push and pop).
BuffersAreFifos == KeyboardFifo!Spec /\ MouseFifo!Spec

NoneLeft(aux) == irq = 0 /\ \A i \in DOMAIN controller : controller[i].aux # aux

\* Every key event a program reports is the one the user's keys mean, in their
\* order, whatever the interleaving with interrupts and mouse bytes; and once
\* all bytes are read, none is missing.  The cases that the decoders do not
\* handle are excepted, each for the program it concerns: a byte refused by a
\* full buffer; in the terminal, right Ctrl or Alt; in the keyboard driver, both
\* keys of a modifier held; Caps Lock repeating; the byte F0 in the desktop.
KeysDecoded ==
    LET excepted == {"keys_lost"} \cup
            (CASE program = "terminal" -> {"right", "caps_repeat"}
               [] program = "driver" -> {"overlap", "caps_repeat"}
               [] program = "desktop" -> {"F0"}
               [] OTHER -> {})
    IN  caveats \cap excepted = {} =>
            /\ keys_right
            /\ NoneLeft(FALSE) /\ is_empty(keyboard_buffer) /\ ~Exited => typed = <<>>

\* Every motion reported to the desktop, to ui_shell or by the mouse driver is
\* one the mouse made, in order and with the sign and direction the screen
\* expects, and none is missing once all bytes are read.  Excepted: bytes
\* refused by a full buffer; in the kernel's poll_mouse_event, packets drained
\* behind the first and motions too large for a packet; in the mouse driver,
\* bytes that its unlocked port reads lose to the handlers.
MotionsDecoded ==
    LET excepted == {"motions_lost"} \cup
            (CASE program = "desktop" -> {"discarded", "large"}
               [] program = "mouse" -> {"raced"}
               [] OTHER -> {})
    IN  program \in {"desktop", "shell", "mouse"} /\ caveats \cap excepted = {} =>
            /\ motions_right
            /\ NoneLeft(TRUE) /\ is_empty(mouse_buffer) /\ ~aux_seen /\ ~Exited
                 => moved = <<>>

Reads == program # "mouse" /\ ~Exited /\ (program = "client" => client # "start")

\* A byte in the keyboard buffer is read eventually: by the polling programs, and
\* by the client that has emptied the buffer, sleeps and is woken for it.  No
\* wake-up is lost: the handler buffers first and notifies next, a notice refused
\* by a full port is one too many (handlers.rs, keyboard_interrupt_handler), and
\* no other thread ends the client's registration (sys_unregister_irq_handler).
KeysAreRead == (Reads /\ ~is_empty(keyboard_buffer)) ~> (~Reads \/ is_empty(keyboard_buffer))
=============================================================================
