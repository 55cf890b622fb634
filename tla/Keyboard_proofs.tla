--------------------------- MODULE Keyboard_proofs ---------------------------
(***************************************************************************)
(* The driver and the keyboard, for every table, every set of keys, every  *)
(* buffer size and any number of bytes on their way: the driver's picture  *)
(* of the keyboard, and the characters it stores.                          *)
(***************************************************************************)
EXTENDS Keyboard, KeyboardBuffer_proofs

-----------------------------------------------------------------------------
(* kbd_get_key as a function of what the driver knows                      *)

Driver == [shift |-> shift, caps |-> caps, extended |-> extended, keys |-> key_state]

DriverState == [shift : BOOLEAN, caps : BOOLEAN, extended : BOOLEAN, keys : [KeyIds -> BOOLEAN]]

ScanCode == 0 .. 255

\* What handling the byte sc makes of the driver's state d.
Handled(d, sc) ==
    IF sc = E0 THEN [d EXCEPT !.extended = TRUE]
    ELSE IF d.extended
    THEN [d EXCEPT !.extended = FALSE,
                   !.keys = IF Code(sc) \in ArrowCodes THEN [@ EXCEPT ![Arrow(Code(sc))] = IsMake(sc)] ELSE @]
    ELSE IF Code(sc) \in ShiftCodes THEN [d EXCEPT !.shift = IsMake(sc)]
    ELSE IF Code(sc) = CapsCode /\ IsMake(sc) THEN [d EXCEPT !.caps = ~@]
    ELSE IF TblNoShift[Code(sc)] # Nul THEN [d EXCEPT !.keys = [@ EXCEPT ![TblNoShift[Code(sc)]] = IsMake(sc)]]
    ELSE d

\* Whether a character is stored, and which.
Stores(d, sc) ==
    /\ sc # E0 /\ ~d.extended /\ IsMake(sc)
    /\ Code(sc) \notin ShiftCodes /\ Code(sc) # CapsCode
    /\ TblNoShift[Code(sc)] # Nul

CharOf(d, sc) ==
    LET ch == IF d.shift THEN TblShift[Code(sc)] ELSE TblNoShift[Code(sc)]
    IN  IF d.caps THEN Upper[ch] ELSE ch

-----------------------------------------------------------------------------
(* The inductive invariant *)

\* The driver's state d is that of the keyboard.
Settled(d) ==
    /\ \A k \in Keys : Tracked(k) => (d.keys[KeyId(k)] <=> k \in held)
    /\ d.shift => ShiftsHeld(held) # {}
    /\ ~rolled => (ShiftsHeld(held) # {} => d.shift)
    /\ d.caps = capsOn
    /\ ~d.extended

\* A byte handled in state d stores what its key was pressed for.
Meant(d, byte) ==
    IF Stores(d, byte.sc) THEN CharOf(d, byte.sc) \in byte.wanted ELSE byte.wanted = {}

\* t is the driver's way through the bytes of w, from the state it is in.
Way(t, w) ==
    /\ t \in [0 .. Len(w) -> DriverState]
    /\ t[0] = Driver
    /\ \A n \in 1 .. Len(w) : t[n] = Handled(t[n - 1], w[n].sc) /\ Meant(t[n - 1], w[n])

\* The bytes that wait take the driver to a state that agrees with the
\* keyboard.
WireInv == \E t : Way(t, wire) /\ Settled(t[Len(wire)])

\* Until two shift keys are down, rolled is not set.
RolledInv == ~rolled => \A j, k \in ShiftsHeld(held) : j = k

IInv == TypeOK /\ RolledInv /\ WireInv

-----------------------------------------------------------------------------
(* Scan codes and key ids *)

Byte == [sc : ScanCode, wanted : SUBSET Chars]

LEMMA CodeRange ==
    ASSUME NEW sc \in ScanCode
    PROVE  Code(sc) \in 0 .. 127
BY DEF ScanCode, Code

\* The byte of a plain key names the key again.
LEMMA KeyByte ==
    ASSUME NEW k \in Keys, NEW make \in BOOLEAN, NEW sc, sc = IF make THEN k.code ELSE k.code + 128
    PROVE  /\ sc \in ScanCode /\ sc # E0
           /\ Code(sc) = k.code /\ (IsMake(sc) <=> make)
<1>1. k.code \in 0 .. 127 /\ k.code # 96
  BY KeysAssumption
<1>2. CASE make
  BY <1>1, <1>2 DEF ScanCode, Code, IsMake, E0
<1>3. CASE ~make
  BY <1>1, <1>3 DEF ScanCode, Code, IsMake, E0
<1> QED
  BY <1>2, <1>3

LEMMA KeyIdOfTracked ==
    ASSUME NEW k \in Keys, Tracked(k)
    PROVE  KeyId(k) \in KeyIds
<1>1. k.code \in 0 .. 127
  BY KeysAssumption
<1>2. CASE k.ext
  BY <1>1, <1>2 DEF Tracked, Prints, KeyId, KeyIds, Arrow, ArrowCodes
<1>3. CASE ~k.ext
  <2>1. TblNoShift[k.code] # Nul /\ KeyId(k) = TblNoShift[k.code]
    BY <1>3 DEF Tracked, Prints, KeyId
  <2>2. TblNoShift[k.code] \in Chars \cup {Nul}
    <3>1. TblNoShift \in [0 .. 127 -> Chars \cup {Nul}]
      BY TablesAssumption
    <3> QED
      BY <1>1, <3>1
  <2> QED
    BY <2>1, <2>2 DEF KeyIds
<1> QED
  BY <1>2, <1>3

\* No two keys share an entry of key_state.
LEMMA KeyIdInjective ==
    ASSUME NEW j \in Keys, NEW k \in Keys, Tracked(j), Tracked(k), KeyId(j) = KeyId(k)
    PROVE  j = k
<1>1. j.ext \in BOOLEAN /\ k.ext \in BOOLEAN /\ j.code \in 0 .. 127 /\ k.code \in 0 .. 127
  BY KeysAssumption
<1>2. /\ IF j.ext THEN j.code \in ArrowCodes ELSE TblNoShift[j.code] \in Chars
      /\ IF k.ext THEN k.code \in ArrowCodes ELSE TblNoShift[k.code] \in Chars
  <2>1. TblNoShift[j.code] \in Chars \cup {Nul} /\ TblNoShift[k.code] \in Chars \cup {Nul}
    BY <1>1, TablesAssumption
  <2>2. /\ IF j.ext THEN j.code \in ArrowCodes ELSE TblNoShift[j.code] # Nul
        /\ IF k.ext THEN k.code \in ArrowCodes ELSE TblNoShift[k.code] # Nul
    BY DEF Tracked, Prints
  <2> QED
    BY <2>1, <2>2
<1>3. \A c \in ArrowCodes : Arrow(c) \in {"up", "down", "left", "right"} /\ Arrow(c) \notin Chars
  <2>1. \A c \in ArrowCodes : Arrow(c) \in {"up", "down", "left", "right"}
    BY DEF Arrow, ArrowCodes
  <2>2. Chars \cap {"up", "down", "left", "right"} = {}
    BY TablesAssumption
  <2> QED
    BY <2>1, <2>2
<1>4. \A c, e \in ArrowCodes : Arrow(c) = Arrow(e) => c = e
  BY DEF Arrow, ArrowCodes
<1>5. j.ext <=> k.ext
  BY <1>2, <1>3 DEF KeyId
<1>6. j.code = k.code
  <2>1. CASE j.ext
    BY <1>2, <1>4, <1>5, <2>1 DEF KeyId
  <2>2. CASE ~j.ext
    BY <1>1, <1>2, <1>5, <2>2, NulAssumption, TablesAssumption DEF KeyId
  <2> QED
    BY <2>1, <2>2
<1>7. j = [ext |-> j.ext, code |-> j.code] /\ k = [ext |-> k.ext, code |-> k.code]
  BY KeysAssumption
<1> QED
  BY <1>1, <1>5, <1>6, <1>7

-----------------------------------------------------------------------------
(* kbd_get_key *)

LEMMA HandledType ==
    ASSUME NEW d \in DriverState, NEW sc \in ScanCode
    PROVE  Handled(d, sc) \in DriverState
<1>1. Code(sc) \in 0 .. 127
  BY CodeRange
<1>2. Code(sc) \in ArrowCodes => Arrow(Code(sc)) \in KeyIds
  BY DEF ArrowCodes, Arrow, KeyIds
<1>3. TblNoShift[Code(sc)] # Nul => TblNoShift[Code(sc)] \in KeyIds
  BY <1>1, TablesAssumption DEF KeyIds
<1>4. IsMake(sc) \in BOOLEAN
  BY DEF IsMake
<1> QED
  BY <1>2, <1>3, <1>4, ZenonT(60) DEF Handled, DriverState

LEMMA CharType ==
    ASSUME NEW d \in DriverState, NEW sc \in ScanCode, Stores(d, sc)
    PROVE  CharOf(d, sc) \in Chars
<1>1. Code(sc) \in 0 .. 127 /\ TblNoShift[Code(sc)] # Nul
  BY CodeRange DEF Stores
<1>2. TblNoShift[Code(sc)] \in Chars /\ TblShift[Code(sc)] \in Chars
  <2>1. TblNoShift \in [0 .. 127 -> Chars \cup {Nul}] /\ TblShift \in [0 .. 127 -> Chars \cup {Nul}]
    BY TablesAssumption
  <2>2. \A c \in 0 .. 127 : TblNoShift[c] # Nul => TblShift[c] # Nul
    BY TablesAssumption
  <2> QED
    BY <1>1, <2>1, <2>2
<1>3. \A ch \in Chars : Upper[ch] \in Chars
  BY TablesAssumption
<1> QED
  BY <1>2, <1>3 DEF CharOf

LEMMA DriverType == TypeOK => Driver \in DriverState
BY DEF TypeOK, Driver, DriverState

\* The branches of kbd_get_key together are Handled, and a store of CharOf
\* exactly where Stores says so.
LEMMA GetKeyStep ==
    ASSUME TypeOK, NEW sc \in ScanCode, kbd_get_key(sc)
    PROVE  /\ Driver' = Handled(Driver, sc)
           /\ Stores(Driver, sc) => Put(CharOf(Driver, sc))
           /\ ~Stores(Driver, sc) => UNCHANGED bufVars
<1> USE DEF Driver, Handled, Stores, CharOf, driverVars
<1>1. CASE Prefix(sc)
  BY <1>1 DEF Prefix
<1>2. CASE ExtendedKey(sc)
  BY <1>2 DEF ExtendedKey
<1>3. CASE ShiftKey(sc)
  BY <1>3 DEF ShiftKey, PlainKey
<1>4. CASE CapsKey(sc)
  BY <1>4 DEF CapsKey, PlainKey, CapsCode, ShiftCodes
<1>5. CASE NotPrintable(sc)
  BY <1>5 DEF NotPrintable, TableKey, PlainKey
<1>6. CASE KeyUp(sc)
  <2>1. IsMake(sc) = FALSE
    BY <1>6 DEF KeyUp, IsMake
  <2>2. key_state' = [key_state EXCEPT ![TblNoShift[Code(sc)]] = IsMake(sc)]
    BY <1>6, <2>1 DEF KeyUp
  <2> QED
    BY <1>6, <2>2 DEF KeyUp, TableKey, PlainKey
<1>7. CASE KeyDown(sc)
  BY <1>7 DEF KeyDown, TableKey, PlainKey, Printed
<1> QED
  BY <1>1, <1>2, <1>3, <1>4, <1>5, <1>6, <1>7 DEF kbd_get_key

-----------------------------------------------------------------------------
(* Bytes arrive at the driver in order                                     *)

\* The first byte of the wire is the first step of the way.
LEMMA WayTail ==
    ASSUME TypeOK, wire # << >>, NEW t, Way(t, wire), Settled(t[Len(wire)]),
           Driver' = Handled(Driver, Head(wire).sc), wire' = Tail(wire), UNCHANGED <<held, rolled, capsOn>>
    PROVE  WireInv'
<1>1. PICK N : N = Len(wire)
  OBVIOUS
<1>2. PICK u : u = [n \in 0 .. N - 1 |-> t[n + 1]]
  OBVIOUS
<1>3. PICK d : d = t[N]
  OBVIOUS
<1>4. N \in Nat \ {0} /\ wire \in Seq(Byte) /\ Len(wire') = N - 1
      /\ \A n \in 1 .. N - 1 : wire'[n] = wire[n + 1]
  BY <1>1 DEF TypeOK, Byte, ScanCode
<1>5. u \in [0 .. Len(wire') -> DriverState]
  BY <1>1, <1>2, <1>4 DEF Way
<1>6. u[0] = Driver'
  BY <1>1, <1>2, <1>4 DEF Way
<1>7. \A n \in 1 .. Len(wire') : u[n] = Handled(u[n - 1], wire'[n].sc) /\ Meant(u[n - 1], wire'[n])
  <2> SUFFICES ASSUME NEW n \in 1 .. N - 1
               PROVE  u[n] = Handled(u[n - 1], wire'[n].sc) /\ Meant(u[n - 1], wire'[n])
    BY <1>4
  <2>1. u[n] = t[n + 1] /\ u[n - 1] = t[n] /\ n + 1 \in 1 .. N /\ (n + 1) - 1 = n
    BY <1>2, <1>4
  <2> QED
    BY <1>1, <1>4, <2>1 DEF Way
<1>8. u[Len(wire')] = d /\ Settled(d)'
  BY <1>1, <1>2, <1>3, <1>4 DEF Settled
<1> QED
  BY <1>5, <1>6, <1>7, <1>8 DEF Way, WireInv

\* A byte sent is a step more.
LEMMA WayAppend ==
    ASSUME NEW w \in Seq(Byte), NEW t, Way(t, w), NEW b \in Byte, Meant(t[Len(w)], b)
    PROVE  \E u : Way(u, Append(w, b)) /\ u[Len(Append(w, b))] = Handled(t[Len(w)], b.sc)
<1> DEFINE N == Len(w)
           u == [n \in 0 .. N + 1 |-> IF n <= N THEN t[n] ELSE Handled(t[N], b.sc)]
           v == Append(w, b)
<1>1. N \in Nat /\ Len(v) = N + 1 /\ v[N + 1] = b /\ \A n \in 1 .. N : v[n] = w[n]
  OBVIOUS
<1>2. t[N] \in DriverState /\ b.sc \in ScanCode
  BY <1>1 DEF Way, Byte
<1>3. u \in [0 .. Len(v) -> DriverState] /\ u[0] = Driver
  BY <1>1, <1>2, HandledType DEF Way
<1>4. \A n \in 1 .. Len(v) : u[n] = Handled(u[n - 1], v[n].sc) /\ Meant(u[n - 1], v[n])
  <2> SUFFICES ASSUME NEW n \in 1 .. N + 1
               PROVE  u[n] = Handled(u[n - 1], v[n].sc) /\ Meant(u[n - 1], v[n])
    BY <1>1
  <2>1. u[n - 1] = t[n - 1]
    BY <1>1
  <2>2. CASE n \in 1 .. N
    BY <1>1, <2>1, <2>2 DEF Way
  <2>3. CASE n = N + 1
    BY <1>1, <2>1, <2>3
  <2> QED
    BY <1>1, <2>2, <2>3
<1>5. u[Len(v)] = Handled(t[N], b.sc)
  BY <1>1
<1> QED
  BY <1>3, <1>4, <1>5 DEF Way

-----------------------------------------------------------------------------
(* Keys are pressed and released                                           *)

\* What handling all the bytes of a key makes of a settled driver.
HandledKey(d, k, make) ==
    LET sc == IF make THEN k.code ELSE k.code + 128
    IN  IF k.ext THEN Handled(Handled(d, E0), sc) ELSE Handled(d, sc)

LEMMA HandledKeyValue ==
    ASSUME NEW d \in DriverState, ~d.extended, NEW k \in Keys, NEW make \in BOOLEAN
    PROVE  LET f == HandledKey(d, k, make)
           IN  /\ ~f.extended
               /\ f.shift = IF IsShift(k) THEN make ELSE d.shift
               /\ f.caps = IF IsCaps(k) /\ make THEN ~d.caps ELSE d.caps
               /\ f.keys = IF Tracked(k) THEN [d.keys EXCEPT ![KeyId(k)] = make] ELSE d.keys
<1> DEFINE sc == IF make THEN k.code ELSE k.code + 128
<1>1. sc \in ScanCode /\ sc # E0 /\ Code(sc) = k.code /\ IsMake(sc) = make
  <2>1. IsMake(sc) \in BOOLEAN
    BY DEF IsMake
  <2> QED
    BY <2>1, KeyByte
<1> HIDE DEF sc
<1>2. CASE k.ext
  <2>1. Handled(d, E0) = [d EXCEPT !.extended = TRUE]
    BY DEF Handled
  <2>2. Handled(Handled(d, E0), sc)
           = [d EXCEPT !.extended = FALSE,
                       !.keys = IF k.code \in ArrowCodes THEN [@ EXCEPT ![Arrow(k.code)] = make] ELSE @]
    BY <1>1, <2>1 DEF Handled, DriverState
  <2>3. ~IsShift(k) /\ ~IsCaps(k) /\ (Tracked(k) <=> k.code \in ArrowCodes) /\ KeyId(k) = Arrow(k.code)
    BY <1>2 DEF IsShift, IsCaps, Tracked, Prints, KeyId
  <2>4. HandledKey(d, k, make) = Handled(Handled(d, E0), sc)
    BY <1>2 DEF HandledKey, sc
  <2> QED
    BY <2>2, <2>3, <2>4 DEF DriverState
<1>3. CASE ~k.ext
  <2>1. HandledKey(d, k, make) = Handled(d, sc)
    BY <1>3 DEF HandledKey, sc
  <2>2. /\ IsShift(k) <=> k.code \in ShiftCodes
        /\ IsCaps(k) <=> k.code = CapsCode
        /\ Tracked(k) <=> TblNoShift[k.code] # Nul
        /\ KeyId(k) = TblNoShift[k.code]
    BY <1>3 DEF IsShift, IsCaps, Tracked, Prints, KeyId
  <2>3. \A c \in ShiftCodes \cup {CapsCode} : TblNoShift[c] = Nul
    BY TablesAssumption DEF ShiftCodes, CapsCode
  <2>4. CapsCode \notin ShiftCodes
    BY DEF CapsCode, ShiftCodes
  <2> QED
    BY <1>1, <2>1, <2>2, <2>3, <2>4 DEF Handled, DriverState
<1> QED
  BY <1>2, <1>3

\* The bytes of a key, and what they do to a settled driver.
KeyBytes(k, make, wanted) ==
    LET code == [sc |-> IF make THEN k.code ELSE k.code + 128, wanted |-> wanted]
        prefix == [sc |-> E0, wanted |-> {}]
    IN  IF k.ext THEN <<prefix, code>> ELSE <<code>>

\* A release stores nothing, a press stores what Wanted names.
LEMMA KeyIsMeant ==
    ASSUME TypeOK, NEW d \in DriverState, Settled(d), NEW k \in Keys, ~k.ext
    PROVE  /\ Meant(d, [sc |-> k.code, wanted |-> Wanted(k)])
           /\ Meant(d, [sc |-> k.code + 128, wanted |-> {}])
<1>1. k.code \in 0 .. 127 /\ k.code # 96
  BY KeysAssumption
<1>2. /\ k.code # E0 /\ Code(k.code) = k.code /\ IsMake(k.code)
      /\ ~IsMake(k.code + 128)
  BY <1>1 DEF E0, Code, IsMake
<1>3. \A c \in ShiftCodes \cup {CapsCode} : TblNoShift[c] = Nul
  BY TablesAssumption DEF ShiftCodes, CapsCode
<1>4. Stores(d, k.code) <=> Prints(k)
  BY <1>2, <1>3 DEF Stores, Prints, Settled
<1>5. ASSUME Prints(k) PROVE CharOf(d, k.code) \in Wanted(k)
  BY <1>2, <1>5 DEF CharOf, Wanted, Settled, DriverState
<1>6. ~Prints(k) => Wanted(k) = {}
  BY DEF Wanted
<1>7. ~Stores(d, k.code + 128)
  BY <1>2 DEF Stores
<1> QED
  BY <1>4, <1>5, <1>6, <1>7 DEF Meant

LEMMA AppendTwice ==
    ASSUME NEW S, NEW w \in Seq(S), NEW p \in S, NEW c \in S
    PROVE  w \o <<p, c>> = Append(Append(w, p), c)
<1>2. <<p, c>> \in Seq(S) /\ Len(<<p, c>>) = 2 /\ <<p, c>>[1] = p /\ <<p, c>>[2] = c
  OBVIOUS
<1> DEFINE a == w \o <<p, c>>
           b == Append(Append(w, p), c)
<1>3. a \in Seq(S) /\ b \in Seq(S) /\ Len(a) = Len(w) + 2 /\ Len(b) = Len(w) + 2
  BY <1>2
<1>4. \A i \in 1 .. Len(a) : a[i] = b[i]
  BY <1>2, <1>3
<1> QED
  BY <1>3, <1>4

LEMMA WantedType ==
    ASSUME NEW k \in Keys
    PROVE  Wanted(k) \subseteq Chars
<1>1. CASE Prints(k)
  <2>1. TblNoShift[k.code] \in Chars /\ TblShift[k.code] \in Chars
    <3>1. k.code \in 0 .. 127 /\ TblNoShift[k.code] # Nul
      BY <1>1, KeysAssumption DEF Prints
    <3>2. TblNoShift[k.code] \in Chars \cup {Nul} /\ TblShift[k.code] \in Chars \cup {Nul}
      <4>1. TblNoShift \in [0 .. 127 -> Chars \cup {Nul}] /\ TblShift \in [0 .. 127 -> Chars \cup {Nul}]
        BY TablesAssumption
      <4> QED
        BY <3>1, <4>1
    <3>3. TblShift[k.code] # Nul
      <4>1. \A c \in 0 .. 127 : TblNoShift[c] # Nul => TblShift[c] # Nul
        BY TablesAssumption
      <4> QED
        BY <3>1, <4>1
    <3> QED
      BY <3>1, <3>2, <3>3
  <2>2. Upper[TblNoShift[k.code]] \in Chars /\ Upper[TblShift[k.code]] \in Chars
    BY <2>1, TablesAssumption
  <2> QED
    BY <2>1, <2>2 DEF Wanted
<1>2. CASE ~Prints(k)
  BY <1>2 DEF Wanted
<1> QED
  BY <1>1, <1>2

\* The bytes of a key lead from a settled driver, through no character but the
\* one meant, to HandledKey.
LEMMA WayOfKey ==
    ASSUME TypeOK, NEW t, Way(t, wire), Settled(t[Len(wire)]),
           NEW k \in Keys, NEW make \in BOOLEAN, NEW wanted,
           wanted = IF make THEN Wanted(k) ELSE {}
    PROVE  LET w == wire \o KeyBytes(k, make, wanted)
           IN  /\ w \in Seq(Byte)
               /\ \E u : Way(u, w) /\ u[Len(w)] = HandledKey(t[Len(wire)], k, make)
<1> DEFINE sc == IF make THEN k.code ELSE k.code + 128
           code == [sc |-> sc, wanted |-> wanted]
           prefix == [sc |-> E0, wanted |-> {}]
<1>1. wire \in Seq(Byte) /\ Len(wire) \in Nat
  BY DEF TypeOK, Byte, ScanCode
<1>2. PICK d : d = t[Len(wire)]
  OBVIOUS
<1>3. d \in DriverState /\ Settled(d) /\ ~d.extended
  BY <1>1, <1>2 DEF Way, Settled
<1>4. sc \in ScanCode /\ sc # E0
  BY KeyByte
<1>5. wanted \subseteq Chars
  BY WantedType
<1>6. code \in Byte /\ prefix \in Byte
  BY <1>4, <1>5 DEF Byte, ScanCode, E0
<1>7. CASE ~k.ext
  <2>1. Meant(d, code)
    <3>1. /\ Meant(d, [sc |-> k.code, wanted |-> Wanted(k)])
          /\ Meant(d, [sc |-> k.code + 128, wanted |-> {}])
      BY <1>3, <1>7, KeyIsMeant
    <3>2. CASE make
      BY <3>1, <3>2
    <3>3. CASE ~make
      BY <3>1, <3>3
    <3> QED
      BY <3>2, <3>3
  <2>2. wire \o KeyBytes(k, make, wanted) = Append(wire, code)
    BY <1>1, <1>6, <1>7 DEF KeyBytes
  <2>3. HandledKey(d, k, make) = Handled(d, code.sc)
    BY <1>7 DEF HandledKey
  <2>4. Append(wire, code) \in Seq(Byte)
    BY <1>1, <1>6
  <2> HIDE DEF code
  <2>5. \E u : Way(u, Append(wire, code)) /\ u[Len(Append(wire, code))] = Handled(d, code.sc)
    BY <1>1, <1>2, <1>6, <2>1, WayAppend
  <2> QED
    BY <1>2, <2>2, <2>3, <2>4, <2>5
<1>8. CASE k.ext
  <2>1. PICK w : w = Append(wire, prefix)
    OBVIOUS
  <2>2. w \in Seq(Byte) /\ Append(w, code) \in Seq(Byte)
    BY <1>1, <1>6, <2>1
  <2>3. wire \o KeyBytes(k, make, wanted) = Append(w, code)
    <3>1. KeyBytes(k, make, wanted) = <<prefix, code>>
      BY <1>8 DEF KeyBytes
    <3>2. wire \o <<prefix, code>> = Append(Append(wire, prefix), code)
      <4> HIDE DEF prefix, code
      <4> QED
        BY <1>1, <1>6, AppendTwice
    <3> QED
      BY <2>1, <3>1, <3>2
  <2>4. Meant(d, prefix)
    BY DEF Meant, Stores
  <2>5. \E u : Way(u, w) /\ u[Len(w)] = Handled(d, E0)
    <3> HIDE DEF prefix
    <3>1. \E u : Way(u, w) /\ u[Len(w)] = Handled(d, prefix.sc)
      BY <1>1, <1>2, <1>6, <2>1, <2>4, WayAppend
    <3> QED
      BY <3>1 DEF prefix
  <2>6. PICK u : Way(u, w) /\ u[Len(w)] = Handled(d, E0)
    BY <2>5
  <2>7. wanted = {}
    BY <1>8 DEF Wanted, Prints
  <2>8. Meant(u[Len(w)], code)
    <3>1. Handled(d, E0).extended = TRUE
      BY <1>3 DEF Handled, DriverState
    <3> QED
      BY <2>6, <2>7, <3>1 DEF Meant, Stores
  <2>9. HandledKey(d, k, make) = Handled(Handled(d, E0), code.sc)
    BY <1>8 DEF HandledKey
  <2> HIDE DEF code
  <2>10. \E v : Way(v, Append(w, code)) /\ v[Len(Append(w, code))] = Handled(u[Len(w)], code.sc)
    BY <1>6, <2>2, <2>6, <2>8, WayAppend
  <2> QED
    BY <1>2, <2>2, <2>3, <2>6, <2>9, <2>10
<1> QED
  BY <1>7, <1>8

-----------------------------------------------------------------------------
(* The keyboard's steps *)

\* The keys that share no entry of key_state with k keep theirs.
LEMMA KeysFollow ==
    ASSUME NEW d \in DriverState, NEW f \in DriverState, NEW k \in Keys, NEW make \in BOOLEAN,
           f.keys = IF Tracked(k) THEN [d.keys EXCEPT ![KeyId(k)] = make] ELSE d.keys,
           \A j \in Keys : Tracked(j) => (d.keys[KeyId(j)] <=> j \in held),
           held' = IF make THEN held \cup {k} ELSE held \ {k}
    PROVE  \A j \in Keys : Tracked(j) => (f.keys[KeyId(j)] <=> j \in held')
<1> SUFFICES ASSUME NEW j \in Keys, Tracked(j)
             PROVE  f.keys[KeyId(j)] <=> j \in held'
  OBVIOUS
<1>1. KeyId(j) \in KeyIds /\ d.keys \in [KeyIds -> BOOLEAN]
  BY KeyIdOfTracked DEF DriverState
<1>2. CASE j = k
  BY <1>1, <1>2
<1>3. CASE j # k
  <2>1. Tracked(k) => KeyId(k) # KeyId(j)
    BY <1>3, KeyIdInjective
  <2>2. f.keys[KeyId(j)] = d.keys[KeyId(j)]
    BY <1>1, <2>1
  <2> QED
    BY <1>3, <2>2
<1> QED
  BY <1>2, <1>3

LEMMA HandledKeyType ==
    ASSUME NEW d \in DriverState, NEW k \in Keys, NEW make \in BOOLEAN
    PROVE  HandledKey(d, k, make) \in DriverState
<1> DEFINE sc == IF make THEN k.code ELSE k.code + 128
<1>1. sc \in ScanCode /\ E0 \in ScanCode
  BY KeyByte DEF ScanCode, E0
<1> QED
  BY <1>1, HandledType DEF HandledKey

LEMMA PressSettles ==
    ASSUME TypeOK, RolledInv, NEW d \in DriverState, Settled(d), NEW k \in Keys, Press(k)
    PROVE  RolledInv' /\ Settled(HandledKey(d, k, TRUE))'
<1> PICK f : f = HandledKey(d, k, TRUE)
  OBVIOUS
<1>1. /\ f \in DriverState /\ ~f.extended
      /\ f.shift = IF IsShift(k) THEN TRUE ELSE d.shift
      /\ f.caps = IF IsCaps(k) THEN ~d.caps ELSE d.caps
      /\ f.keys = IF Tracked(k) THEN [d.keys EXCEPT ![KeyId(k)] = TRUE] ELSE d.keys
  BY HandledKeyValue, HandledKeyType DEF Settled
<1>2. held' = held \cup {k} /\ capsOn' = IF IsCaps(k) THEN ~capsOn ELSE capsOn
  BY DEF Press
<1>3. ShiftsHeld(held)' = IF IsShift(k) THEN ShiftsHeld(held) \cup {k} ELSE ShiftsHeld(held)
  BY <1>2 DEF ShiftsHeld
<1>4. \A j \in Keys : Tracked(j) => (f.keys[KeyId(j)] <=> j \in held')
  BY <1>1, <1>2, KeysFollow DEF Settled
<1>5. f.shift => ShiftsHeld(held)' # {}
  BY <1>1, <1>3 DEF Settled
<1>6. ~rolled' => (ShiftsHeld(held)' # {} => f.shift)
  BY <1>1, <1>3 DEF Settled, Press
<1>7. f.caps = capsOn'
  BY <1>1, <1>2 DEF Settled
<1>8. Settled(f)'
  BY <1>1, <1>4, <1>5, <1>6, <1>7 DEF Settled
<1>9. RolledInv'
  BY <1>3 DEF RolledInv, Press
<1> QED
  BY <1>8, <1>9

LEMMA ReleaseSettles ==
    ASSUME TypeOK, RolledInv, NEW d \in DriverState, Settled(d), NEW k \in Keys, Release(k)
    PROVE  RolledInv' /\ Settled(HandledKey(d, k, FALSE))'
<1> PICK f : f = HandledKey(d, k, FALSE)
  OBVIOUS
<1>1. /\ f \in DriverState /\ ~f.extended
      /\ f.shift = IF IsShift(k) THEN FALSE ELSE d.shift
      /\ f.caps = d.caps
      /\ f.keys = IF Tracked(k) THEN [d.keys EXCEPT ![KeyId(k)] = FALSE] ELSE d.keys
  BY HandledKeyValue, HandledKeyType DEF Settled
<1>2. held' = held \ {k} /\ capsOn' = capsOn
  BY DEF Release
<1>3. ShiftsHeld(held)' = IF IsShift(k) THEN ShiftsHeld(held) \ {k} ELSE ShiftsHeld(held)
  BY <1>2 DEF ShiftsHeld
<1>4. rolled' = (rolled /\ ShiftsHeld(held)' # {})
  BY DEF Release
<1>5. \A j \in Keys : Tracked(j) => (f.keys[KeyId(j)] <=> j \in held')
  BY <1>1, <1>2, KeysFollow DEF Settled
<1>6. f.shift => ShiftsHeld(held)' # {}
  BY <1>1, <1>3 DEF Settled
<1>7. ~rolled' => (ShiftsHeld(held)' # {} => f.shift)
  <2>1. k \in held
    BY DEF Release
  <2>2. ~rolled /\ IsShift(k) => ShiftsHeld(held)' = {}
    BY <1>3, <2>1 DEF RolledInv, ShiftsHeld
  <2> QED
    BY <1>1, <1>3, <1>4, <2>2 DEF Settled
<1>8. f.caps = capsOn'
  BY <1>1, <1>2 DEF Settled
<1>9. Settled(f)'
  BY <1>1, <1>5, <1>6, <1>7, <1>8 DEF Settled
<1>10. RolledInv'
  BY <1>3, <1>4 DEF RolledInv
<1> QED
  BY <1>9, <1>10

-----------------------------------------------------------------------------
(* The invariant *)

LEMMA FirstByte ==
    ASSUME NEW w \in Seq(Byte), w # << >>
    PROVE  Head(w) = w[1] /\ Head(w) \in Byte /\ 1 \in 1 .. Len(w) /\ Tail(w) \in Seq(Byte)
OBVIOUS

LEMMA IInvInit == Init => IInv
<1> SUFFICES ASSUME Init PROVE IInv
  OBVIOUS
<1> PICK t : t = [n \in 0 .. 0 |-> Driver]
  OBVIOUS
<1>1. BufTypeOK
  BY BufInvInit DEF Init, BufInv
<1>2. TypeOK
  BY <1>1 DEF Init, TypeOK
<1>3. Way(t, wire)
  <2>1. wire = << >> /\ Len(wire) = 0 /\ Driver \in DriverState
    BY <1>2, DriverType DEF Init
  <2>2. t \in [0 .. Len(wire) -> DriverState] /\ t[0] = Driver
    BY <2>1
  <2>3. 1 .. Len(wire) = {}
    BY <2>1
  <2> QED
    BY <2>2, <2>3 DEF Way
<1>4. Settled(t[0])
  <2>1. \A k \in Keys : Tracked(k) => ~key_state[KeyId(k)]
    BY KeyIdOfTracked DEF Init
  <2>2. t[0] = Driver
    OBVIOUS
  <2>3. Driver = [shift |-> FALSE, caps |-> FALSE, extended |-> FALSE, keys |-> key_state]
    BY DEF Init, Driver
  <2>4. held = {} /\ rolled = FALSE /\ capsOn = FALSE
    BY DEF Init
  <2>5. ShiftsHeld(held) = {}
    BY <2>4 DEF ShiftsHeld
  <2>6. Settled(Driver)
    BY <2>1, <2>3, <2>4, <2>5 DEF Settled
  <2> QED
    BY <2>2, <2>6
<1>5. WireInv
  BY <1>3, <1>4 DEF WireInv, Init
<1>6. RolledInv
  BY DEF Init, RolledInv, ShiftsHeld
<1> QED
  BY <1>2, <1>5, <1>6 DEF IInv

\* A key is pressed or released: its bytes go to the end of the wire.
LEMMA KeyStep ==
    ASSUME IInv, NEW k \in Keys, NEW make \in BOOLEAN, IF make THEN Press(k) ELSE Release(k)
    PROVE  IInv'
<1> DEFINE wanted == IF make THEN Wanted(k) ELSE {}
           w == wire \o KeyBytes(k, make, wanted)
<1>1. wire' = w
  BY DEF Press, Release, Send, KeyBytes
<1>2. UNCHANGED <<bufVars, driverVars>> /\ Driver' = Driver
  BY DEF Press, Release, Driver, driverVars
<1>3. PICK t : Way(t, wire) /\ Settled(t[Len(wire)])
  BY DEF IInv, WireInv
<1>4. PICK d : d = t[Len(wire)]
  OBVIOUS
<1>5. d \in DriverState
  <2>1. Len(wire) \in Nat
    BY DEF IInv, TypeOK
  <2> QED
    BY <1>3, <1>4, <2>1 DEF Way
<1>6. /\ w \in Seq(Byte)
      /\ \E u : Way(u, w) /\ u[Len(w)] = HandledKey(d, k, make)
  BY <1>3, <1>4, WayOfKey DEF IInv
<1>7. RolledInv' /\ Settled(HandledKey(d, k, make))'
  <2>1. CASE make
    BY <1>3, <1>4, <1>5, <2>1, PressSettles DEF IInv
  <2>2. CASE ~make
    BY <1>3, <1>4, <1>5, <2>2, ReleaseSettles DEF IInv
  <2> QED
    BY <2>1, <2>2
<1>8. WireInv'
  <2> HIDE DEF w
  <2>1. PICK u : Way(u, w) /\ u[Len(w)] = HandledKey(d, k, make)
    BY <1>6
  <2>2. PICK N : N = Len(w)
    OBVIOUS
  <2>3. Way(u, wire)'
    BY <1>1, <1>2, <2>1 DEF Way
  <2>4. Settled(u[N])'
    <3>1. PICK f : f = u[N]
      OBVIOUS
    <3>2. f = HandledKey(d, k, make)
      BY <2>1, <2>2, <3>1
    <3> QED
      BY <1>7, <3>1, <3>2
  <2> QED
    BY <1>1, <2>2, <2>3, <2>4 DEF WireInv
<1>9. BufTypeOK'
  BY <1>2 DEF IInv, TypeOK, BufTypeOK, bufVars
<1>10. held' \subseteq Keys /\ rolled' \in BOOLEAN /\ capsOn' \in BOOLEAN
  BY DEF IInv, TypeOK, Press, Release
<1>11. TypeOK'
  BY <1>1, <1>2, <1>6, <1>9, <1>10 DEF IInv, TypeOK, driverVars, Byte, ScanCode
<1> QED
  BY <1>7, <1>8, <1>11 DEF IInv

\* A byte is handled.
LEMMA Irq1Step ==
    ASSUME IInv, Irq1
    PROVE  IInv'
<1>1. TypeOK /\ wire # << >> /\ wire' = Tail(wire) /\ kbd_get_key(Head(wire).sc)
      /\ UNCHANGED <<held, rolled, capsOn>>
  BY DEF IInv, Irq1
<1>2. wire \in Seq(Byte) /\ Head(wire).sc \in ScanCode /\ wire' \in Seq(Byte)
  <2>1. wire \in Seq(Byte)
    BY <1>1 DEF TypeOK, Byte, ScanCode
  <2>2. Head(wire) \in Byte /\ Tail(wire) \in Seq(Byte)
    BY <1>1, <2>1, FirstByte
  <2> QED
    BY <1>1, <2>1, <2>2 DEF Byte
<1>3. /\ Driver' = Handled(Driver, Head(wire).sc)
      /\ Stores(Driver, Head(wire).sc) => Put(CharOf(Driver, Head(wire).sc))
      /\ ~Stores(Driver, Head(wire).sc) => UNCHANGED bufVars
  BY <1>1, <1>2, GetKeyStep
<1>4. PICK t : Way(t, wire) /\ Settled(t[Len(wire)])
  BY DEF IInv, WireInv
<1>5. WireInv'
  BY <1>1, <1>3, <1>4, WayTail
<1>6. RolledInv'
  BY <1>1 DEF IInv, RolledInv, ShiftsHeld
<1>7. BufTypeOK'
  <2>1. BufTypeOK
    BY <1>1 DEF TypeOK
  <2>2. CASE Stores(Driver, Head(wire).sc)
    BY <1>1, <1>2, <1>3, <2>1, <2>2, DriverType, CharType, PutContents
  <2>3. CASE ~Stores(Driver, Head(wire).sc)
    BY <1>3, <2>1, <2>3 DEF bufVars, BufTypeOK
  <2> QED
    BY <2>2, <2>3
<1>8. Driver' \in DriverState
  BY <1>1, <1>2, <1>3, DriverType, HandledType
<1>9. TypeOK'
  <2>1. shift' \in BOOLEAN /\ caps' \in BOOLEAN /\ extended' \in BOOLEAN /\ key_state' \in [KeyIds -> BOOLEAN]
    BY <1>8 DEF Driver, DriverState
  <2> QED
    BY <1>1, <1>2, <1>7, <2>1 DEF TypeOK, Byte, ScanCode
<1> QED
  BY <1>5, <1>6, <1>9 DEF IInv

\* The system calls, and stuttering, leave the driver and the keyboard alone.
LEMMA IdleStep ==
    ASSUME IInv, BufTypeOK', UNCHANGED <<driverVars, deviceVars>>
    PROVE  IInv'
<1>1. Driver' = Driver /\ UNCHANGED <<held, rolled, capsOn, wire>>
  BY DEF Driver, driverVars, deviceVars
<1>2. TypeOK' /\ RolledInv'
  BY <1>1 DEF IInv, TypeOK, driverVars, RolledInv, ShiftsHeld
<1>3. PICK t : Way(t, wire) /\ Settled(t[Len(wire)])
  BY DEF IInv, WireInv
<1>4. PICK d : d = t[Len(wire)]
  OBVIOUS
<1>5. Way(t, wire)' /\ Settled(d)'
  BY <1>1, <1>3, <1>4 DEF Way, Settled
<1>6. WireInv'
  BY <1>1, <1>4, <1>5 DEF WireInv
<1> QED
  BY <1>2, <1>6 DEF IInv

LEMMA SyscallBuf ==
    ASSUME BufTypeOK, GetCharEmpty \/ GetChar \/ ResetBuff
    PROVE  BufTypeOK'
<1>1. CASE GetCharEmpty
  BY <1>1 DEF GetCharEmpty, BufTypeOK
<1>2. CASE GetChar
  BY <1>2, GetContents
<1>3. CASE ResetBuff
  BY <1>3 DEF ResetBuff, BufTypeOK
<1> QED
  BY <1>1, <1>2, <1>3

LEMMA IInvNext == IInv /\ [Next]_vars => IInv'
<1> SUFFICES ASSUME IInv, [Next]_vars PROVE IInv'
  OBVIOUS
<1>1. ASSUME NEW k \in Keys, Press(k) PROVE IInv'
  BY <1>1, KeyStep
<1>2. ASSUME NEW k \in Keys, Release(k) PROVE IInv'
  BY <1>2, KeyStep
<1>3. CASE Irq1
  BY <1>3, Irq1Step
<1>4. CASE Syscall
  BY <1>4, SyscallBuf, IdleStep DEF Syscall, IInv, TypeOK
<1>5. CASE UNCHANGED vars
  BY <1>5, IdleStep DEF vars, IInv, TypeOK, BufTypeOK, driverVars, deviceVars
<1> QED
  BY <1>1, <1>2, <1>3, <1>4, <1>5 DEF Next

-----------------------------------------------------------------------------
(* The theorems *)

\* The bytes on their way take the driver to the keyboard's state, and every
\* one of them stores what its key was pressed for.
THEOREM KeyboardInvariant == Spec => []IInv
BY IInvInit, IInvNext, PTL DEF Spec

\* Once every byte has been handled, the driver of keyboardDriver.c agrees with
\* the keyboard on the keys that are down, on shift, on Caps Lock and on the
\* prefix, for every table, every set of keys and any number of bytes waiting.
THEOREM DriverAgreesWithKeyboardHolds == Spec => []DriverAgreesWithKeyboard
<1>1. IInv => DriverAgreesWithKeyboard
  <2> SUFFICES ASSUME IInv, wire = << >> PROVE DriverAgreesWithKeyboard
    BY DEF IInv, DriverAgreesWithKeyboard
  <2>1. Settled(Driver)
    BY DEF IInv, WireInv, Way
  <2> QED
    BY <2>1 DEF IInv, DriverAgreesWithKeyboard, Settled, Driver
<1> QED
  BY KeyboardInvariant, <1>1, PTL

\* A make code of a printing key stores the character that was meant when the
\* key was pressed, and every other byte stores none, however many bytes were
\* waiting before it.
THEOREM TypesWhatWasMeantHolds == Spec => TypesWhatWasMeant
<1> DEFINE Step == LET wanted == Head(wire).wanted
                   IN  IF wanted = {}
                       THEN UNCHANGED <<buf, head, tail>>
                       ELSE head' = Advance(head) /\ buf'[head] \in wanted
<1>1. IInv /\ Irq1 => Step
  <2> SUFFICES ASSUME IInv, Irq1 PROVE Step
    OBVIOUS
  <2>1. TypeOK /\ wire # << >> /\ wire \in Seq(Byte) /\ kbd_get_key(Head(wire).sc)
    BY DEF IInv, Irq1, TypeOK, Byte, ScanCode
  <2>2. Head(wire).sc \in ScanCode /\ Head(wire) = wire[1] /\ 1 \in 1 .. Len(wire)
    <3>1. Head(wire) \in Byte /\ Head(wire) = wire[1] /\ 1 \in 1 .. Len(wire)
      BY <2>1, FirstByte
    <3> QED
      BY <3>1 DEF Byte
  <2>3. Meant(Driver, Head(wire))
    BY <2>2 DEF IInv, WireInv, Way
  <2>4. CASE Stores(Driver, Head(wire).sc)
    <3>1. Put(CharOf(Driver, Head(wire).sc))
      BY <2>1, <2>2, <2>4, GetKeyStep
    <3>2. CharOf(Driver, Head(wire).sc) \in Head(wire).wanted
      BY <2>3, <2>4 DEF Meant
    <3>3. head \in Index /\ buf \in [Index -> Chars \cup {Nul}]
      BY <2>1 DEF TypeOK, BufTypeOK
    <3> QED
      BY <3>1, <3>2, <3>3 DEF Put, StoreChar
  <2>5. CASE ~Stores(Driver, Head(wire).sc)
    <3>1. UNCHANGED bufVars
      BY <2>1, <2>2, <2>5, GetKeyStep
    <3> QED
      BY <2>3, <2>5, <3>1 DEF Meant, bufVars
  <2> QED
    BY <2>4, <2>5
<1>2. IInv /\ [Next]_vars => [Irq1 => Step]_vars
  BY <1>1
<1> QED
  BY KeyboardInvariant, <1>2, PTL DEF Spec, TypesWhatWasMeant

=============================================================================
