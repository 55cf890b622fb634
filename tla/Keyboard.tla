------------------------------ MODULE Keyboard ------------------------------
(***************************************************************************)
(* The keyboard driver, Kernel/keyboardDriver.c: scan codes arrive one     *)
(* byte per IRQ1, kbd_get_key turns them into key states, modifier states  *)
(* and characters in the ring buffer of module KeyboardBuffer, and system  *)
(* calls take the characters out.                                          *)
(*                                                                         *)
(* The keyboard itself is outside the program.  It is modelled by what     *)
(* kbd_get_key expects of it: set 1 scan codes, an 0xE0 byte before the    *)
(* code of an extended key, bit 7 set when a key is released, a make code  *)
(* repeated while a key is held, and bytes kept in order until IRQ1 reads  *)
(* them.  Lost bytes are not modelled.                                     *)
(***************************************************************************)
EXTENDS KeyboardBuffer

CONSTANTS
    TblNoShift,     \* tbl_no_shift
    TblShift,       \* tbl_shift
    Upper,          \* to_upper, a function on Chars
    Keys,           \* physical keys, records [ext |-> BOOLEAN, code |-> 0..127]
    MaxWire         \* bound: scan codes waiting to be read

ASSUME TablesAssumption ==
    /\ TblNoShift \in [0 .. 127 -> Chars \cup {Nul}]
    /\ TblShift \in [0 .. 127 -> Chars \cup {Nul}]
    /\ Upper \in [Chars -> Chars]
    /\ Chars \cap {"up", "down", "left", "right"} = {}
    \* no key that prints stops printing when shifted, ...
    /\ \A c \in 0 .. 127 : TblNoShift[c] # Nul => TblShift[c] # Nul
    \* ... and no two keys share an entry of key_state.
    /\ \A c, d \in 0 .. 127 : TblNoShift[c] = TblNoShift[d] /\ c # d => TblNoShift[c] = Nul
    \* The keys kbd_get_key handles apart hold no character.
    /\ \A c \in {42, 54, 58} : TblNoShift[c] = Nul

\* Set 1 has no key 0x60: its release would look like the prefix 0xE0.
ASSUME KeysAssumption ==
    /\ Keys \subseteq [ext : BOOLEAN, code : (0 .. 127) \ {96}]
    /\ MaxWire \in Nat

VARIABLES
    shift, caps, extended,  \* the modifier flags
    key_state,              \* which keys are down
    held,                   \* the keys physically down
    rolled,                 \* both shift keys were held since shift was last free
    capsOn,                 \* parity of the Caps Lock make codes sent
    wire                    \* bytes sent and not read, each with the characters
                            \* the press may legitimately produce

driverVars == <<shift, caps, extended, key_state>>
deviceVars == <<held, rolled, capsOn, wire>>
vars == <<buf, head, tail, got, shift, caps, extended, key_state,
          held, rolled, capsOn, wire>>

-----------------------------------------------------------------------------
(* The driver *)

E0 == 224
ShiftCodes == {42, 54}          \* 0x2A, 0x36
CapsCode == 58                  \* 0x3A
ArrowCodes == {72, 80, 75, 77}  \* 0x48, 0x50, 0x4B, 0x4D

Arrow(code) ==
    CASE code = 72 -> "up" [] code = 80 -> "down" [] code = 75 -> "left" [] code = 77 -> "right"

KeyIds == Chars \cup {"up", "down", "left", "right"}

IsMake(sc) == sc < 128
Code(sc) == sc % 128

\* The character a make code stores.
Printed(code) ==
    LET ch == IF shift THEN TblShift[code] ELSE TblNoShift[code]
    IN  IF caps THEN Upper[ch] ELSE ch

\* Mutant of Prefix: the prefix byte is skipped.
PrefixSkipped(sc) ==
    /\ sc = E0
    /\ UNCHANGED <<bufVars, driverVars>>

Prefix(sc) ==
    /\ sc = E0
    /\ extended' = TRUE
    /\ UNCHANGED <<bufVars, shift, caps, key_state>>

\* Mutant of ExtendedKey: the prefix is cleared only by an arrow key.
ExtendedKeySticky(sc) ==
    /\ sc # E0 /\ extended
    /\ extended' = (Code(sc) \notin ArrowCodes)
    /\ key_state' = IF Code(sc) \in ArrowCodes
                    THEN [key_state EXCEPT ![Arrow(Code(sc))] = IsMake(sc)]
                    ELSE key_state
    /\ UNCHANGED <<bufVars, shift, caps>>

ExtendedKey(sc) ==
    /\ sc # E0 /\ extended
    /\ extended' = FALSE
    /\ key_state' = IF Code(sc) \in ArrowCodes
                    THEN [key_state EXCEPT ![Arrow(Code(sc))] = IsMake(sc)]
                    ELSE key_state
    /\ UNCHANGED <<bufVars, shift, caps>>

PlainKey(sc) == sc # E0 /\ ~extended

ShiftKey(sc) ==
    /\ PlainKey(sc) /\ Code(sc) \in ShiftCodes
    /\ shift' = IsMake(sc)
    /\ UNCHANGED <<bufVars, caps, extended, key_state>>

CapsKey(sc) ==
    /\ PlainKey(sc) /\ Code(sc) = CapsCode /\ IsMake(sc)
    /\ caps' = ~caps
    /\ UNCHANGED <<bufVars, shift, extended, key_state>>

TableKey(sc) ==
    /\ PlainKey(sc)
    /\ Code(sc) \notin ShiftCodes
    /\ ~(Code(sc) = CapsCode /\ IsMake(sc))

NotPrintable(sc) ==
    /\ TableKey(sc) /\ TblNoShift[Code(sc)] = Nul
    /\ UNCHANGED <<bufVars, driverVars>>

KeyUp(sc) ==
    /\ TableKey(sc) /\ TblNoShift[Code(sc)] # Nul /\ ~IsMake(sc)
    /\ key_state' = [key_state EXCEPT ![TblNoShift[Code(sc)]] = FALSE]
    /\ UNCHANGED <<bufVars, shift, caps, extended>>

KeyDown(sc) ==
    /\ TableKey(sc) /\ TblNoShift[Code(sc)] # Nul /\ IsMake(sc)
    /\ key_state' = [key_state EXCEPT ![TblNoShift[Code(sc)]] = TRUE]
    /\ Put(Printed(Code(sc)))
    /\ UNCHANGED <<shift, caps, extended>>

kbd_get_key(sc) ==
    \/ Prefix(sc)
    \/ ExtendedKey(sc)
    \/ ShiftKey(sc)
    \/ CapsKey(sc)
    \/ NotPrintable(sc)
    \/ KeyUp(sc)
    \/ KeyDown(sc)

-----------------------------------------------------------------------------
(* The keyboard *)

IsShift(k) == ~k.ext /\ k.code \in ShiftCodes
IsCaps(k) == ~k.ext /\ k.code = CapsCode
Prints(k) == ~k.ext /\ TblNoShift[k.code] # Nul

ShiftsHeld(h) == {k \in h : IsShift(k)}

\* What a press of k should type, given which shift keys are down.  While two
\* shift keys overlap, either reading is accepted: the driver has one flag.
Wanted(k) ==
    LET Cased(ch) == IF capsOn THEN Upper[ch] ELSE ch
        plain == Cased(TblNoShift[k.code])
        shifted == Cased(TblShift[k.code])
    IN  IF ~Prints(k) THEN {}
        ELSE IF rolled THEN {plain, shifted}
        ELSE IF ShiftsHeld(held) # {} THEN {shifted} ELSE {plain}

Send(k, make, wanted) ==
    LET code == [sc |-> IF make THEN k.code ELSE k.code + 128, wanted |-> wanted]
        prefix == [sc |-> E0, wanted |-> {}]
        bytes == IF k.ext THEN <<prefix, code>> ELSE <<code>>
    IN  /\ Len(wire) + Len(bytes) <= MaxWire
        /\ wire' = wire \o bytes

\* A press, or the repetition of the make code while the key is held.
Press(k) ==
    /\ Send(k, TRUE, Wanted(k))
    /\ held' = held \cup {k}
    /\ rolled' = (rolled \/ \E j \in ShiftsHeld(held) : IsShift(k) /\ j # k)
    /\ capsOn' = IF IsCaps(k) THEN ~capsOn ELSE capsOn
    /\ UNCHANGED <<bufVars, driverVars>>

Release(k) ==
    /\ k \in held
    /\ Send(k, FALSE, {})
    /\ held' = held \ {k}
    /\ rolled' = (rolled /\ ShiftsHeld(held \ {k}) # {})
    /\ UNCHANGED <<bufVars, driverVars, capsOn>>

-----------------------------------------------------------------------------
\* _irq01Handler: one byte is read from port 0x60 and handled.
Irq1 ==
    /\ wire # << >>
    /\ wire' = Tail(wire)
    /\ kbd_get_key(Head(wire).sc)
    /\ UNCHANGED <<held, rolled, capsOn>>

\* The system calls that take characters out.
Syscall ==
    /\ GetCharEmpty \/ GetChar \/ ResetBuff
    /\ UNCHANGED <<driverVars, deviceVars>>

Init ==
    /\ BufInit
    /\ shift = FALSE /\ caps = FALSE /\ extended = FALSE
    /\ key_state = [id \in KeyIds |-> FALSE]
    /\ held = {} /\ rolled = FALSE /\ capsOn = FALSE
    /\ wire = << >>

Next ==
    \/ \E k \in Keys : Press(k) \/ Release(k)
    \/ Irq1
    \/ Syscall

Spec == Init /\ [][Next]_vars

-----------------------------------------------------------------------------
(* Properties *)

TypeOK ==
    /\ BufTypeOK
    /\ shift \in BOOLEAN /\ caps \in BOOLEAN /\ extended \in BOOLEAN
    /\ key_state \in [KeyIds -> BOOLEAN]
    /\ held \subseteq Keys
    /\ rolled \in BOOLEAN /\ capsOn \in BOOLEAN
    /\ wire \in Seq([sc : 0 .. 255, wanted : SUBSET Chars])

Tracked(k) == Prints(k) \/ (k.ext /\ k.code \in ArrowCodes)
KeyId(k) == IF k.ext THEN Arrow(k.code) ELSE TblNoShift[k.code]

\* Once every byte has been handled the driver agrees with the keyboard: the
\* keys it reports down (kbd_is_key_down) are the ones held, shift is not left
\* set with no shift key held, Caps Lock has the right parity and no 0xE0 is
\* left over for the next key, whatever the order of presses and releases.
DriverAgreesWithKeyboard ==
    /\ TypeOK
    /\ wire = << >> =>
           /\ \A k \in Keys : Tracked(k) => (key_state[KeyId(k)] <=> k \in held)
           /\ shift => ShiftsHeld(held) # {}
           /\ ~rolled => (ShiftsHeld(held) # {} => shift)
           /\ caps = capsOn
           /\ ~extended

\* Handling a byte stores one character exactly when the byte is the make code
\* of a printing key, and the character is the one the user meant when the key
\* was pressed, however many bytes were waiting before it.
TypesWhatWasMeant ==
    [][Irq1 => LET wanted == Head(wire).wanted
               IN  IF wanted = {}
                   THEN UNCHANGED <<buf, head, tail>>
                   ELSE head' = Advance(head) /\ buf'[head] \in wanted]_vars

=============================================================================
