------------------------------ MODULE Decoders ------------------------------
(***************************************************************************)
(* The five decoders of the repository, as functions from a state and a    *)
(* byte to a state and at most one event: scancodes in the terminal, in    *)
(* the keyboard driver and in the kernel's desktop, and mouse packets in   *)
(* the kernel and in the userspace library and mouse driver.  Bytes are    *)
(* numbers.  A character is the key that bears it and the half of the key. *)
(***************************************************************************)
EXTENDS Integers, Sequences

Result(s, events) == [state |-> s, events |-> events]

Letters == 16 .. 25 \cup 30 .. 38 \cup 44 .. 50
Symbols == 2 .. 13 \cup {26, 27, 39, 40, 41, 43, 51, 52, 53}
Space == 57
Escape == 1
EditingKeys == {Escape, 14, 15, 28}
FunctionKeys == 59 .. 68 \cup {87, 88}
NavigationKeys == {71, 72, 73, 75, 77, 79, 80, 81, 82, 83}

LeftShift == 42
RightShift == 54
Ctrl == 29
Alt == 56
CapsLock == 58

EXTENDED_PREFIX == 224
Code(byte) == byte % 128
IsRelease(byte) == byte >= 128

---------------------------------------------------------------------------
(* The terminal's InputHandler. *)

NewHandler == [shift_left |-> FALSE, shift_right |-> FALSE, ctrl |-> FALSE,
               alt |-> FALSE, caps_lock |-> FALSE, extended |-> FALSE]

Char(code, upper) == [code |-> code, upper |-> upper]

\* translate_scancode and letter: the character of a key, if it has one.
translate_scancode_ShiftWins(code, shift, caps) ==
    CASE code \in Letters -> <<Char(code, shift \/ caps)>>
      [] code \in Symbols -> <<Char(code, shift)>>
      [] code = Space -> <<Char(code, FALSE)>>
      [] OTHER -> <<>>

translate_scancode(code, shift, caps) ==
    CASE code \in Letters -> <<Char(code, shift # caps)>>
      [] code \in Symbols -> <<Char(code, shift)>>
      [] code = Space -> <<Char(code, FALSE)>>
      [] OTHER -> <<>>

KeyEvent(kind, char) == [kind |-> kind, char |-> char]

\* Ctrl + letter is a control code: the case is lost.
WithModifiers(ctrl, alt, char) ==
    IF ctrl THEN KeyEvent("control", IF char.code \in Letters THEN Char(char.code, FALSE) ELSE char)
    ELSE KeyEvent(IF alt THEN "alt" ELSE "char", char)

process_extended_scancode(s, code, is_release) ==
    IF is_release THEN Result(s, <<>>)
    ELSE CASE code \in NavigationKeys -> Result(s, <<KeyEvent("navigation", Char(code, FALSE))>>)
           [] code = Ctrl -> Result([s EXCEPT !.ctrl = TRUE], <<>>)
           [] code = Alt -> Result([s EXCEPT !.alt = TRUE], <<>>)
           [] OTHER -> Result(s, <<>>)

\* The press of a key that is no modifier.
PressedKey(s, code) ==
    IF code \in EditingKeys \cup FunctionKeys
    THEN <<KeyEvent("special", Char(code, FALSE))>>
    ELSE LET ch == translate_scancode(code, s.shift_left \/ s.shift_right, s.caps_lock)
         IN  [i \in DOMAIN ch |-> WithModifiers(s.ctrl, s.alt, ch[i])]

process_scancode(s, byte) ==
    LET code == Code(byte)
        is_release == IsRelease(byte)
        t == [s EXCEPT !.extended = FALSE]
    IN  IF byte = EXTENDED_PREFIX THEN Result([s EXCEPT !.extended = TRUE], <<>>)
        ELSE IF s.extended THEN process_extended_scancode(t, code, is_release)
        ELSE CASE code = LeftShift -> Result([t EXCEPT !.shift_left = ~is_release], <<>>)
               [] code = RightShift -> Result([t EXCEPT !.shift_right = ~is_release], <<>>)
               [] code = Ctrl -> Result([t EXCEPT !.ctrl = ~is_release], <<>>)
               [] code = Alt -> Result([t EXCEPT !.alt = ~is_release], <<>>)
               [] code = CapsLock ->
                    Result([t EXCEPT !.caps_lock = IF is_release THEN @ ELSE ~@], <<>>)
               [] OTHER -> Result(t, IF is_release THEN <<>> ELSE PressedKey(t, code))

---------------------------------------------------------------------------
(* The keyboard driver: one flag per modifier, and events for releases too. *)

NewKeyboard == [shift |-> FALSE, ctrl |-> FALSE, alt |-> FALSE, caps_lock |-> FALSE,
                extended |-> FALSE]

Modifiers(shift, ctrl, alt, caps) ==
    [shift |-> shift, ctrl |-> ctrl, alt |-> alt, caps_lock |-> caps]

\* The driver's translate_scancode has ASCII codes for the editing keys.
driver_translate(code, shift, caps) ==
    IF code \in EditingKeys THEN <<Char(code, FALSE)>> ELSE translate_scancode(code, shift, caps)

DriverEvent(byte, character, modifiers) ==
    [scancode |-> byte, character |-> character, modifiers |-> modifiers]

driver_process_scancode(s, byte) ==
    LET code == Code(byte)
        is_release == IsRelease(byte)
        t == [s EXCEPT !.extended = FALSE]
    IN  IF byte = EXTENDED_PREFIX THEN Result([s EXCEPT !.extended = TRUE], <<>>)
        ELSE CASE code \in {LeftShift, RightShift} -> Result([t EXCEPT !.shift = ~is_release], <<>>)
               [] code = Ctrl -> Result([t EXCEPT !.ctrl = ~is_release], <<>>)
               [] code = Alt -> Result([t EXCEPT !.alt = ~is_release], <<>>)
               [] code = CapsLock ->
                    Result([t EXCEPT !.caps_lock = IF is_release THEN @ ELSE ~@], <<>>)
               [] OTHER ->
                    Result(t, <<DriverEvent(byte,
                                  IF is_release THEN <<>>
                                  ELSE driver_translate(code, t.shift, t.caps_lock),
                                  Modifiers(t.shift, t.ctrl, t.alt, t.caps_lock))>>)

---------------------------------------------------------------------------
(* Mouse packets: three bytes, the first with bit 3 set. *)

\* byte & mask # 0, for a mask of one bit.
Bit(byte, mask) == (byte \div mask) % 2 = 1

NewPacket == <<>>

SignExtended(byte, negative) == IF negative THEN byte - 256 ELSE byte

\* What a whole packet says, in the mouse's coordinates (dy grows upwards).
Motion(packet) ==
    [dx |-> SignExtended(packet[2], Bit(packet[1], 16)),
     dy |-> SignExtended(packet[3], Bit(packet[1], 32)),
     left |-> Bit(packet[1], 1)]

\* The same in screen coordinates.
OnScreen(motion) == [motion EXCEPT !.dy = -@]

Overflow(packet) == Bit(packet[1], 64) \/ Bit(packet[1], 128)

\* MousePacketState::add_byte on one byte after the other until one completes a
\* packet, in screen coordinates.  A byte without bit 3 is skipped where a packet
\* should begin.  An overflowed packet is an event too.
add_bytes(packet, bytes) ==
    LET begins == {i \in DOMAIN bytes : Bit(bytes[i], 8)}
        skipped == IF packet # <<>> THEN 0
                   ELSE CHOOSE n \in 0 .. Len(bytes) :
                            /\ \A i \in begins : i > n
                            /\ n = Len(bytes) \/ n + 1 \in begins
        needed == skipped + 3 - Len(packet)
        p == packet \o SubSeq(bytes, skipped + 1, IF needed < Len(bytes) THEN needed ELSE Len(bytes))
    IN  IF Len(p) = 3
        THEN [state |-> NewPacket, events |-> <<OnScreen(Motion(p))>>, used |-> needed]
        ELSE [state |-> p, events |-> <<>>, used |-> Len(bytes)]

\* MouseDriver::process_byte of the library, and process_byte with
\* finalize_packet of the mouse driver: an overflowed packet is discarded.
process_byte_KeepsOverflow(packet, byte) ==
    LET p == Append(packet, byte)
    IN  IF packet = <<>> /\ ~Bit(byte, 8) THEN Result(packet, <<>>)
        ELSE IF Len(p) < 3 THEN Result(p, <<>>)
        ELSE Result(NewPacket, <<Motion(p)>>)

process_byte(packet, byte) ==
    LET p == Append(packet, byte)
    IN  IF packet = <<>> /\ ~Bit(byte, 8) THEN Result(packet, <<>>)
        ELSE IF Len(p) < 3 THEN Result(p, <<>>)
        ELSE Result(NewPacket, IF Overflow(p) THEN <<>> ELSE <<Motion(p)>>)
=============================================================================
