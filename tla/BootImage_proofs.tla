--------------------------- MODULE BootImage_proofs ---------------------------
(***************************************************************************)
(* From the packer to the program's main, for every number of modules to   *)
(* two, all sizes of binaries, of the packer's buffer and of the BSSs, and *)
(* every memory map with room for them.                                    *)
(***************************************************************************)
EXTENDS MCImages, FiniteSetTheorems, SequenceTheorems, TLAPS

-----------------------------------------------------------------------------
(* Where the packer puts each part, and the inductive invariant *)

\* The number of modules behind the kernel.
Count(fs) == Cardinality(DOMAIN fs) - 1

FilesType(fs) ==
    /\ Count(fs) \in 0..2 /\ DOMAIN fs = 0..Count(fs)
    /\ \A f \in 0..Count(fs) : fs[f] \in BinarySizes

\* Where file f begins in the packed file: behind its size, and the first module
\* behind the number of modules too.
Base(fs, f) ==
    CASE f = 0 -> 0
      [] f = 1 -> fs[0] + 2
      [] f = 2 -> fs[0] + fs[1] + 3
      [] OTHER -> fs[0] + fs[1] + fs[2] + 4

FileCell(f, i) == <<"file", f, i>>
NumberCell(n) == <<"number", n>>
Cell == ({"file"} \X Nat \X Nat) \cup ({"number"} \X Nat)

\* The packed file up to file f: the files before it and their heads.
Packed(fs, c, f) ==
    /\ \A g \in 0..f - 1 : \A i \in 1..fs[g] : c[Base(fs, g) + i] = FileCell(g, i)
    /\ f > 0 => c[fs[0] + 1] = NumberCell(Count(fs))
    /\ \A g \in 1..f - 1 : c[Base(fs, g)] = NumberCell(fs[g])

\* The first d cells of file f behind it.
Begun(fs, c, f, d) ==
    /\ f > 0 => c[Base(fs, f)] = NumberCell(fs[f])
    /\ \A i \in 1..d : c[Base(fs, f) + i] = FileCell(f, i)

PackInv ==
    /\ pc = "check" => disk = <<>> /\ file = 0 /\ done = 0
    /\ pc = "body" =>
        /\ file \in 0..Count(files) /\ done \in 0..files[file]
        /\ Len(disk) = Base(files, file) + done
        /\ Packed(files, disk, file) /\ Begun(files, disk, file, done)
    /\ pc = "count" =>
        /\ file = 1 /\ done = 0 /\ Len(disk) = files[0] /\ Begun(files, disk, 0, files[0])
    /\ pc = "size" =>
        /\ file \in 1..Count(files) + 1 /\ done = 0
        /\ Len(disk) = Base(files, file) - 1 /\ Packed(files, disk, file)

\* The packed file in memory, from the kernel's address on.
Loaded(fs, m) ==
    /\ \A g \in 0..Count(fs) : \A i \in 1..fs[g] : m[Base(fs, g) + i - 1] = FileCell(g, i)
    /\ m[fs[0]] = NumberCell(Count(fs))
    /\ \A g \in 1..Count(fs) : m[Base(fs, g) - 1] = NumberCell(fs[g])

\* The first f modules at their addresses.
Placed(fs, m, f) == \A g \in 1..f : \A i \in 1..fs[g] : m[Targets[g] + i - 1] = FileCell(g, i)

Kernel(fs, m) == \A i \in 1..fs[0] : m[i - 1] = FileCell(0, i)
ZeroFrom(m, a) == \A b \in a..a + BssSize - 1 : m[b] = Machine!Zero

KernelBss(fs) == Machine!Align(fs[0])
ProgramBss(fs) == Machine!Align(Targets[1] + fs[1])

LoadInv ==
    /\ pc \in {"load", "module", "start", "main"} => DOMAIN memory = 0..MemorySize - 1
    /\ pc = "load" => Loaded(files, memory)
    /\ pc = "module" =>
        /\ Loaded(files, memory) /\ Placed(files, memory, file)
        /\ done = Count(files) /\ file \in 0..Count(files) /\ currentModule = Base(files, file + 1) - 1
    /\ pc \in {"start", "main"} =>
        /\ Count(files) > 0 /\ Kernel(files, memory) /\ Placed(files, memory, Count(files))
        /\ ZeroFrom(memory, KernelBss(files))
    /\ pc = "main" => ZeroFrom(memory, ProgramBss(files))

\* The packer and the start of the machine at each of their places.
MachineInv ==
    /\ pc \in {"check", "refused", "body", "count", "size", "load", "module", "stopped", "start", "main"}
    /\ disk \in Seq(Cell) /\ FilesType(files) /\ PackInv /\ LoadInv

-----------------------------------------------------------------------------
(* The layout of the packed file and of the memory *)

LEMMA Layout ==
    ASSUME NEW fs, FilesType(fs)
    PROVE  /\ \A f \in 0..Count(fs) : fs[f] \in Nat
           /\ \A f \in 0..Count(fs) + 1 : Base(fs, f) \in Nat
           /\ Base(fs, 0) = 0 /\ Base(fs, 1) = fs[0] + 2
           /\ \A f \in 1..Count(fs) : Base(fs, f + 1) = Base(fs, f) + fs[f] + 1
           /\ Base(fs, Count(fs) + 1) - 1 <= Targets[1]
<1>1. \A f \in 0..Count(fs) : fs[f] \in BinarySizes /\ fs[f] \in Nat
  BY BootAssumption DEF FilesType
<1>2. \A k, s, d \in BinarySizes : k + s + d + 3 <= Targets[1]
  BY BootAssumption
<1>3. Count(fs) \in 0..2 /\ 0 \in 0..Count(fs)
  BY DEF FilesType
<1>4. CASE Count(fs) = 0
  <2>1. Base(fs, 0) = 0 /\ Base(fs, 1) = fs[0] + 2
    BY DEF Base
  <2> QED BY <1>1, <1>2, <1>3, <1>4, <2>1, BootAssumption
<1>5. CASE Count(fs) = 1
  <2>1. Base(fs, 0) = 0 /\ Base(fs, 1) = fs[0] + 2 /\ Base(fs, 2) = fs[0] + fs[1] + 3
    BY DEF Base
  <2>2. fs[0] \in BinarySizes /\ fs[1] \in BinarySizes /\ fs[0] \in Nat /\ fs[1] \in Nat
    BY <1>1, <1>5
  <2> QED BY <1>1, <1>2, <1>5, <2>1, <2>2, BootAssumption
<1>6. CASE Count(fs) = 2
  <2>1. /\ Base(fs, 0) = 0 /\ Base(fs, 1) = fs[0] + 2 /\ Base(fs, 2) = fs[0] + fs[1] + 3
        /\ Base(fs, 3) = fs[0] + fs[1] + fs[2] + 4
    BY DEF Base
  <2>2. /\ fs[0] \in BinarySizes /\ fs[1] \in BinarySizes /\ fs[2] \in BinarySizes
        /\ fs[0] \in Nat /\ fs[1] \in Nat /\ fs[2] \in Nat
    BY <1>1, <1>6
  <2> QED BY <1>1, <1>2, <1>6, <2>1, <2>2, BootAssumption
<1> QED BY <1>3, <1>4, <1>5, <1>6

\* A file ends before the head of the next.
LEMMA FilesApart ==
    ASSUME NEW fs, FilesType(fs), NEW f \in 0..Count(fs) + 1, NEW g \in 0..Count(fs), g < f
    PROVE  /\ Base(fs, g) + fs[g] <= Base(fs, f) - 1
           /\ fs[0] + 1 <= Base(fs, f) - 1
<1>1. /\ \A h \in 0..Count(fs) : fs[h] \in Nat
      /\ \A h \in 0..Count(fs) + 1 : Base(fs, h) \in Nat
      /\ Base(fs, 0) = 0 /\ Base(fs, 1) = fs[0] + 2
      /\ \A h \in 1..Count(fs) : Base(fs, h + 1) = Base(fs, h) + fs[h] + 1
  BY Layout
<1>2. Count(fs) \in 0..2
  BY DEF FilesType
<1>3. CASE Count(fs) = 0
  BY <1>1, <1>3
<1>4. CASE Count(fs) = 1
  <2>1. Base(fs, 2) = Base(fs, 1) + fs[1] + 1 /\ fs[0] \in Nat /\ fs[1] \in Nat
    BY <1>1, <1>4
  <2>2. f \in 0..2 /\ g \in 0..1
    BY <1>4
  <2> QED BY <1>1, <2>1, <2>2
<1>5. CASE Count(fs) = 2
  <2>1. /\ Base(fs, 2) = Base(fs, 1) + fs[1] + 1 /\ Base(fs, 3) = Base(fs, 2) + fs[2] + 1
        /\ fs[0] \in Nat /\ fs[1] \in Nat /\ fs[2] \in Nat
    BY <1>1, <1>5
  <2>2. f \in 0..3 /\ g \in 0..2
    BY <1>5
  <2> QED BY <1>1, <2>1, <2>2
<1> QED BY <1>2, <1>3, <1>4, <1>5

\* What a longer file begins with, it keeps.
LEMMA PackedStays ==
    ASSUME NEW fs, FilesType(fs), NEW f \in 0..Count(fs) + 1, NEW c, NEW d, NEW n \in Nat,
           Base(fs, f) - 1 <= n, \A i \in 1..n : d[i] = c[i], Packed(fs, c, f)
    PROVE  Packed(fs, d, f)
<1>1. /\ \A h \in 0..Count(fs) : fs[h] \in Nat
      /\ \A h \in 0..Count(fs) + 1 : Base(fs, h) \in Nat
      /\ Count(fs) \in Nat
  BY Layout DEF FilesType
<1>2. ASSUME NEW g \in 0..f - 1, NEW i \in 1..fs[g] PROVE d[Base(fs, g) + i] = FileCell(g, i)
  <2>1. g \in 0..Count(fs) /\ g < f
    BY <1>1
  <2>2. Base(fs, g) + fs[g] <= Base(fs, f) - 1 /\ fs[g] \in Nat /\ Base(fs, g) \in Nat /\ Base(fs, f) \in Nat
    BY <1>1, <2>1, FilesApart
  <2>3. Base(fs, g) + i \in 1..n
    BY <2>2
  <2> QED BY <2>3 DEF Packed
<1>3. f > 0 => d[fs[0] + 1] = NumberCell(Count(fs))
  <2> SUFFICES ASSUME f > 0 PROVE d[fs[0] + 1] = NumberCell(Count(fs))
    OBVIOUS
  <2>1. 0 \in 0..Count(fs) /\ fs[0] \in Nat
    BY <1>1
  <2>2. fs[0] + 1 <= Base(fs, f) - 1 /\ Base(fs, f) \in Nat
    BY <1>1, <2>1, FilesApart
  <2>3. fs[0] + 1 \in 1..n
    BY <2>1, <2>2
  <2> QED BY <2>3 DEF Packed
<1>4. ASSUME NEW g \in 1..f - 1 PROVE d[Base(fs, g)] = NumberCell(fs[g])
  <2>1. g \in 0..Count(fs) /\ g < f /\ 0 \in 0..Count(fs) /\ 0 < g /\ g \in 0..Count(fs) + 1
    BY <1>1
  <2>2. /\ Base(fs, g) + fs[g] <= Base(fs, f) - 1 /\ fs[g] \in Nat /\ fs[0] \in Nat
        /\ Base(fs, g) \in Nat /\ Base(fs, f) \in Nat
    BY <1>1, <2>1, FilesApart
  <2>3. fs[0] + 1 <= Base(fs, g) - 1
    BY <2>1, FilesApart
  <2>4. Base(fs, g) \in 1..n
    BY <2>2, <2>3
  <2> QED BY <2>4 DEF Packed
<1> QED BY <1>2, <1>3, <1>4 DEF Packed

-----------------------------------------------------------------------------
(* ModulePacker *)

LEMMA MachineInit == Machine!Init => MachineInv
<1> SUFFICES ASSUME Machine!Init PROVE MachineInv
  OBVIOUS
<1>1. PICK n \in ModuleCounts : files \in [0..n -> BinarySizes]
  BY DEF Machine!Init
<1>2. n \in 0..2
  BY BootAssumption
<1>3. Cardinality(0..n) = n + 1
  BY <1>2, FS_Interval
<1>4. Count(files) = n /\ DOMAIN files = 0..n
  BY <1>1, <1>2, <1>3 DEF Count
<1>5. FilesType(files)
  BY <1>1, <1>2, <1>4 DEF FilesType
<1> QED BY <1>5 DEF Machine!Init, MachineInv, PackInv, LoadInv

LEMMA CheckFiles ==
    ASSUME MachineInv, Machine!checkFiles PROVE MachineInv'
<1>1. /\ pc = "check" /\ disk = <<>> /\ file = 0 /\ done = 0 /\ disk \in Seq(Cell) /\ FilesType(files)
      /\ pc' \in {"body", "refused"}
      /\ files' = files /\ disk' = disk /\ file' = file /\ done' = done
  BY DEF MachineInv, PackInv, Machine!checkFiles
<1>2. 0 \in 0..Count(files) /\ files[0] \in Nat /\ Base(files, 0) = 0
  BY <1>1, Layout DEF FilesType
<1>3. Packed(files, disk, 0) /\ Begun(files, disk, 0, 0)
  BY DEF Packed, Begun
<1>4. PackInv'
  BY <1>1, <1>2, <1>3 DEF PackInv
<1> QED BY <1>1, <1>4 DEF MachineInv, LoadInv

\* A buffer's worth of the file.
LEMMA ContentIsCells ==
    ASSUME NEW f \in Nat, NEW d \in Nat, NEW n \in Nat
    PROVE  /\ Machine!Content(f, d, n) \in Seq(Cell) /\ Len(Machine!Content(f, d, n)) = n
           /\ \A i \in 1..n : Machine!Content(f, d, n)[i] = FileCell(f, d + i)
<1>1. \A i \in 1..n : <<"file", f, d + i>> \in Cell
  BY DEF Cell
<1>2. Machine!Content(f, d, n) = [i \in 1..n |-> <<"file", f, d + i>>]
  BY DEF Machine!Content
<1> HIDE DEF Cell
<1>3. Machine!Content(f, d, n) \in [1..n -> Cell]
  BY <1>1, <1>2
<1>4. Machine!Content(f, d, n) \in Seq(Cell)
  BY <1>3
<1>5. Len(Machine!Content(f, d, n)) = n
  BY <1>2
<1>6. \A i \in 1..n : Machine!Content(f, d, n)[i] = FileCell(f, d + i)
  BY <1>2 DEF FileCell
<1> QED BY <1>4, <1>5, <1>6

LEMMA Appended ==
    ASSUME NEW s \in Seq(Cell), NEW c \in Seq(Cell)
    PROVE  /\ s \o c \in Seq(Cell) /\ Len(s \o c) = Len(s) + Len(c)
           /\ \A i \in 1..Len(s) : (s \o c)[i] = s[i]
           /\ \A i \in 1..Len(c) : (s \o c)[Len(s) + i] = c[i]
<1>1. s \o c \in Seq(Cell) /\ Len(s \o c) = Len(s) + Len(c) /\ Len(s) \in Nat /\ Len(c) \in Nat
  BY ConcatProperties
<1>2. \A i \in 1..Len(s) + Len(c) : (s \o c)[i] = IF i <= Len(s) THEN s[i] ELSE c[i - Len(s)]
  BY ConcatProperties
<1>3. ASSUME NEW i \in 1..Len(c) PROVE (s \o c)[Len(s) + i] = c[i]
  <2>1. Len(s) + i \in 1..Len(s) + Len(c) /\ ~(Len(s) + i <= Len(s)) /\ (Len(s) + i) - Len(s) = i
    BY <1>1
  <2> QED BY <1>2, <2>1
<1>4. ASSUME NEW i \in 1..Len(s) PROVE (s \o c)[i] = s[i]
  <2>1. i \in 1..Len(s) + Len(c) /\ i <= Len(s)
    BY <1>1
  <2> QED BY <1>2, <2>1
<1> QED BY <1>1, <1>3, <1>4

LEMMA LesserOf ==
    ASSUME NEW a \in Nat, NEW b \in Nat, NEW m, m = Machine!Min({a, b})
    PROVE  m \in Nat /\ m <= a /\ m <= b /\ (m = a \/ m = b)
<1>1. \E x \in {a, b} : \A y \in {a, b} : x <= y
  OBVIOUS
<1>2. m \in {a, b} /\ \A y \in {a, b} : m <= y
  BY <1>1 DEF Machine!Min
<1> QED BY <1>2

LEMMA WriteFile ==
    ASSUME MachineInv, Machine!write_file PROVE MachineInv'
<1> DEFINE n == Machine!Min({BUFFER_SIZE, files[file] - done})
<1>1. /\ pc = "body" /\ disk \in Seq(Cell) /\ FilesType(files)
      /\ file \in 0..Count(files) /\ done \in 0..files[file]
      /\ Len(disk) = Base(files, file) + done
      /\ Packed(files, disk, file) /\ Begun(files, disk, file, done)
  BY DEF MachineInv, PackInv, Machine!write_file
<1>2. /\ Count(files) \in 0..2 /\ files[file] \in Nat /\ Base(files, file) \in Nat /\ file \in Nat /\ done \in Nat
      /\ file \in 0..Count(files) + 1 /\ file + 1 \in 1..Count(files) + 1 /\ BUFFER_SIZE \in Nat /\ BUFFER_SIZE > 0
  BY <1>1, Layout, BootAssumption DEF FilesType
<1>3. /\ n \in Nat /\ n <= BUFFER_SIZE /\ n <= files[file] - done
      /\ n < BUFFER_SIZE => n = files[file] - done
  <2>1. files[file] - done \in Nat
    BY <1>1, <1>2
  <2> QED BY <1>2, <2>1, LesserOf
<1>4. /\ disk' = disk \o Machine!Content(file, done, n)
      /\ IF n < BUFFER_SIZE
         THEN pc' = (IF file = 0 THEN "count" ELSE "size") /\ file' = file + 1 /\ done' = 0
         ELSE done' = done + n /\ pc' = pc /\ file' = file
      /\ files' = files
  BY DEF Machine!write_file
<1> HIDE DEF n
<1>5. /\ disk' \in Seq(Cell) /\ Len(disk') = Len(disk) + n
      /\ \A i \in 1..Len(disk) : disk'[i] = disk[i]
      /\ \A i \in 1..n : disk'[Len(disk) + i] = FileCell(file, done + i)
  <2>1. /\ Machine!Content(file, done, n) \in Seq(Cell) /\ Len(Machine!Content(file, done, n)) = n
        /\ \A i \in 1..n : Machine!Content(file, done, n)[i] = FileCell(file, done + i)
    <3>1. file \in Nat /\ done \in Nat /\ n \in Nat
      BY <1>2, <1>3
    <3> QED BY <3>1, ContentIsCells
  <2> DEFINE c == Machine!Content(file, done, n)
  <2>2. disk' = disk \o c /\ c \in Seq(Cell) /\ Len(c) = n /\ \A i \in 1..n : c[i] = FileCell(file, done + i)
    BY <1>4, <2>1
  <2> HIDE DEF c
  <2>3. /\ disk \o c \in Seq(Cell) /\ Len(disk \o c) = Len(disk) + Len(c)
        /\ \A i \in 1..Len(disk) : (disk \o c)[i] = disk[i]
        /\ \A i \in 1..Len(c) : (disk \o c)[Len(disk) + i] = c[i]
    BY <1>1, <2>2, Appended
  <2> QED BY <2>2, <2>3
<1>6. Packed(files, disk', file)
  <2>1. Len(disk) \in Nat /\ Base(files, file) - 1 <= Len(disk)
    BY <1>1, <1>2
  <2> QED BY <1>1, <1>2, <1>5, <2>1, PackedStays
<1>7. Begun(files, disk', file, done + n)
  <2>1. file > 0 => Base(files, file) \in 1..Len(disk)
    <3>1. 0 \in 0..Count(files) /\ files[0] \in Nat
      BY <1>1, <1>2, Layout
    <3>2. file > 0 => files[0] + 1 <= Base(files, file) - 1
      BY <1>1, <1>2, <3>1, FilesApart
    <3> QED BY <1>1, <1>2, <3>1, <3>2
  <2>2. ASSUME NEW i \in 1..done + n PROVE disk'[Base(files, file) + i] = FileCell(file, i)
    <3>1. CASE i <= done
      <4>1. i \in 1..done /\ Base(files, file) + i \in 1..Len(disk)
        BY <1>1, <1>2, <1>3, <3>1
      <4> QED BY <1>1, <1>5, <4>1 DEF Begun
    <3>2. CASE i > done
      <4> DEFINE k == i - done
      <4>1. k \in 1..n /\ Base(files, file) + i = Len(disk) + k /\ done + k = i
        BY <1>1, <1>2, <1>3, <3>2
      <4> HIDE DEF k
      <4> QED BY <1>5, <4>1
    <3> QED BY <1>2, <1>3, <3>1, <3>2
  <2> QED BY <1>1, <1>5, <2>1, <2>2 DEF Begun
<1>8. CASE ~(n < BUFFER_SIZE)
  <2>1. done' = done + n /\ pc' = "body" /\ file' = file
    BY <1>1, <1>4, <1>8
  <2>2. done + n \in 0..files[file] /\ Len(disk') = Base(files, file) + (done + n)
    <3>1. done + n \in 0..files[file]
      BY <1>2, <1>3
    <3>2. Len(disk') = Len(disk) + n
      BY <1>5
    <3> QED BY <1>1, <1>2, <1>3, <3>1, <3>2
  <2>3. PackInv'
    BY <1>1, <1>4, <1>6, <1>7, <2>1, <2>2 DEF PackInv
  <2> QED BY <1>1, <1>4, <1>5, <2>1, <2>3 DEF MachineInv, LoadInv
<1>9. CASE n < BUFFER_SIZE
  <2>1. pc' = (IF file = 0 THEN "count" ELSE "size") /\ file' = file + 1 /\ done' = 0 /\ done + n = files[file]
    <3>1. done + n = files[file]
      BY <1>2, <1>3, <1>9
    <3> QED BY <1>4, <1>9, <3>1
  <2>2. Begun(files, disk', file, files[file]) /\ Len(disk') = Base(files, file) + files[file]
    BY <1>1, <1>2, <1>3, <1>5, <1>7, <2>1
  <2>3. CASE file = 0
    <3>1. Base(files, 0) = 0
      BY <1>1, Layout
    <3>2. PackInv'
      BY <1>2, <1>4, <2>1, <2>2, <2>3, <3>1 DEF PackInv
    <3> QED BY <1>1, <1>4, <1>5, <2>1, <2>3, <3>2 DEF MachineInv, LoadInv
  <2>4. CASE file > 0
    <3>1. Base(files, file + 1) = Base(files, file) + files[file] + 1
      BY <1>1, <1>2, <2>4, Layout
    <3>2. Packed(files, disk', file + 1)
      <4>1. \A g \in 0..file : g \in 0..file - 1 \/ g = file
        BY <1>2
      <4>2. \A g \in 1..file : g \in 1..file - 1 \/ g = file
        BY <1>2
      <4>3. (file + 1) - 1 = file /\ file + 1 > 0
        BY <1>2
      <4> QED BY <1>6, <2>2, <2>4, <4>1, <4>2, <4>3 DEF Packed, Begun
    <3>3. Len(disk') = Base(files, file + 1) - 1
      BY <1>2, <2>2, <3>1
    <3>4. PackInv'
      BY <1>2, <1>4, <2>1, <2>4, <3>2, <3>3 DEF PackInv
    <3> QED BY <1>1, <1>4, <1>5, <2>1, <2>4, <3>4 DEF MachineInv, LoadInv
  <2> QED BY <1>2, <2>3, <2>4
<1> QED BY <1>8, <1>9

LEMMA ModulesCounted == Machine!modules = Count(files)
BY DEF Machine!modules, Count, Machine!Cardinality, Cardinality

\* A head is a cell.
LEMMA HeadAppended ==
    ASSUME NEW s \in Seq(Cell), NEW k \in Nat, NEW t, t = Append(s, Machine!Number(k))
    PROVE  /\ t \in Seq(Cell) /\ Len(t) = Len(s) + 1
           /\ \A i \in 1..Len(s) : t[i] = s[i]
           /\ t[Len(s) + 1] = NumberCell(k)
<1>1. Machine!Number(k) = NumberCell(k) /\ NumberCell(k) \in Cell
  BY DEF Machine!Number, NumberCell, Cell
<1> HIDE DEF NumberCell, Cell
<1> QED BY <1>1

LEMMA WriteCountStep ==
    ASSUME MachineInv, Machine!WriteCount PROVE MachineInv'
<1>1. /\ pc = "count" /\ disk \in Seq(Cell) /\ FilesType(files)
      /\ file = 1 /\ done = 0 /\ Len(disk) = files[0] /\ Begun(files, disk, 0, files[0])
  BY DEF MachineInv, PackInv, Machine!WriteCount
<1>2. /\ disk' = Append(disk, Machine!Number(Machine!modules)) /\ pc' = "size"
      /\ files' = files /\ file' = file /\ done' = done
  BY DEF Machine!WriteCount
<1> Machine!modules = Count(files)
  BY ModulesCounted
<1>3. Count(files) \in 0..2 /\ files[0] \in Nat /\ Base(files, 0) = 0 /\ Base(files, 1) = files[0] + 2
  BY <1>1, <1>2, Layout DEF FilesType
<1>4. /\ disk' \in Seq(Cell) /\ Len(disk') = files[0] + 1
      /\ \A i \in 1..files[0] : disk'[i] = disk[i]
      /\ disk'[files[0] + 1] = NumberCell(Count(files))
  <2>1. Count(files) \in Nat
    BY <1>3
  <2> QED BY <1>1, <1>2, <2>1, HeadAppended
<1>5. Packed(files, disk', 1)
  <2>1. \A i \in 1..files[0] : disk'[Base(files, 0) + i] = FileCell(0, i)
    <3> TAKE i \in 1..files[0]
    <3>1. Base(files, 0) + i = i
      BY <1>3
    <3>2. disk[i] = FileCell(0, i)
      BY <1>1, <1>2, <3>1 DEF Begun
    <3> QED BY <1>4, <3>1, <3>2
  <2> QED BY <1>4, <2>1 DEF Packed
<1>6. PackInv'
  BY <1>1, <1>2, <1>3, <1>4, <1>5 DEF PackInv
<1> QED BY <1>1, <1>2, <1>4, <1>6 DEF MachineInv, LoadInv

LEMMA WriteSizeStep ==
    ASSUME MachineInv, Machine!write_size PROVE MachineInv'
<1>1. /\ pc = "size" /\ disk \in Seq(Cell) /\ FilesType(files)
      /\ file \in 1..Count(files) + 1 /\ file <= Machine!modules /\ done = 0
      /\ Len(disk) = Base(files, file) - 1 /\ Packed(files, disk, file)
  BY DEF MachineInv, PackInv, Machine!write_size
<1> Machine!modules = Count(files)
  BY ModulesCounted
<1>2. /\ disk' = Append(disk, Machine!Number(files[file])) /\ pc' = "body"
      /\ files' = files /\ file' = file /\ done' = done
  BY DEF Machine!write_size
<1>3. /\ Count(files) \in 0..2 /\ file \in 0..Count(files) /\ file > 0 /\ file \in 0..Count(files) + 1
      /\ files[file] \in Nat /\ Base(files, file) \in Nat
  BY <1>1, <1>2, Layout DEF FilesType
<1>4. /\ disk' \in Seq(Cell) /\ Len(disk') = Len(disk) + 1
      /\ \A i \in 1..Len(disk) : disk'[i] = disk[i]
      /\ disk'[Len(disk) + 1] = NumberCell(files[file])
  BY <1>1, <1>2, <1>3, HeadAppended
<1>5. Len(disk) \in Nat /\ Base(files, file) = Len(disk) + 1
  BY <1>1, <1>2, <1>3
<1>6. Packed(files, disk', file)
  <2>1. Base(files, file) - 1 <= Len(disk)
    BY <1>1, <1>2, <1>5
  <2> QED BY <1>1, <1>2, <1>3, <1>4, <1>5, <2>1, PackedStays
<1>7. Begun(files, disk', file, 0)
  BY <1>4, <1>5 DEF Begun
<1>8. 0 \in 0..files[file] /\ Len(disk') = Base(files, file) + 0
  BY <1>3, <1>4, <1>5
<1>9. PackInv'
  BY <1>1, <1>2, <1>3, <1>6, <1>7, <1>8 DEF PackInv
<1> QED BY <1>1, <1>2, <1>4, <1>9 DEF MachineInv, LoadInv

-----------------------------------------------------------------------------
(* The machine starts *)

\* The linker's alignment goes up.
LEMMA AlignsUp == ASSUME NEW n \in Nat PROVE Machine!Align(n) \in Nat /\ n <= Machine!Align(n)
<1> DEFINE q == (n + Alignment - 1) \div Alignment
<1>1. Alignment \in Nat /\ Alignment > 0
  BY BootAssumption
<1>2. q \in Nat /\ q * Alignment <= n + Alignment - 1 /\ n + Alignment - 1 < q * Alignment + Alignment
  BY <1>1, SMT
<1>3. Machine!Align(n) = q * Alignment
  BY DEF Machine!Align
<1> HIDE DEF q
<1>4. q * Alignment \in Nat
  BY <1>1, <1>2
<1> QED BY <1>1, <1>2, <1>3, <1>4

\* What lies where in memory.
LEMMA Addresses ==
    ASSUME NEW fs, FilesType(fs)
    PROVE  /\ fs[0] \in Nat /\ KernelBss(fs) \in Nat /\ BssSize \in Nat /\ MemorySize \in Nat
           /\ fs[0] <= KernelBss(fs) /\ KernelBss(fs) + BssSize <= Targets[1]
           /\ Targets[1] \in Nat /\ Targets[1] <= MemorySize
           /\ Count(fs) > 0 =>
                /\ ProgramBss(fs) \in Nat /\ Targets[1] + fs[1] <= ProgramBss(fs)
                /\ ProgramBss(fs) + BssSize <= MemorySize
           /\ Count(fs) > 1 => ProgramBss(fs) + BssSize <= Targets[2]
           /\ \A g \in 1..Count(fs) :
                /\ Targets[g] \in Nat /\ fs[g] \in Nat
                /\ Targets[1] <= Targets[g] /\ Targets[g] + fs[g] <= MemorySize
           /\ Count(fs) > 1 => Targets[1] + fs[1] <= Targets[2]
<1>1. /\ Count(fs) \in 0..2 /\ \A g \in 0..Count(fs) : fs[g] \in BinarySizes /\ fs[g] \in Nat
      /\ 0 \in 0..Count(fs)
  <2>1. BinarySizes \subseteq Nat /\ ModuleCounts \subseteq 0..2
    BY BootAssumption
  <2>2. Count(fs) \in 0..2 /\ \A g \in 0..Count(fs) : fs[g] \in BinarySizes
    BY DEF FilesType
  <2>3. 0 \in 0..Count(fs)
    BY <2>2
  <2>4. \A g \in 0..Count(fs) : fs[g] \in Nat
    BY <2>1, <2>2
  <2> QED BY <2>2, <2>3, <2>4
<1>2. /\ Targets[1] \in Nat /\ Targets[2] \in Nat /\ BssSize \in Nat /\ MemorySize \in Nat
      /\ \A k \in BinarySizes : Machine!Align(k) + BssSize <= Targets[1]
      /\ \A k \in BinarySizes : Machine!Align(Targets[1] + k) + BssSize <= Targets[2]
      /\ \A k \in BinarySizes : Targets[2] + k <= MemorySize
  BY BootAssumption
<1>3. \A g \in 0..Count(fs) :
        /\ Machine!Align(fs[g]) \in Nat /\ fs[g] <= Machine!Align(fs[g])
        /\ Machine!Align(Targets[1] + fs[g]) \in Nat /\ Targets[1] + fs[g] <= Machine!Align(Targets[1] + fs[g])
  <2> TAKE g \in 0..Count(fs)
  <2>1. fs[g] \in Nat /\ Targets[1] + fs[g] \in Nat
    BY <1>1, <1>2
  <2> QED BY <2>1, AlignsUp
<1>4. \A g \in 0..Count(fs) :
        /\ Machine!Align(fs[g]) + BssSize <= Targets[1]
        /\ Machine!Align(Targets[1] + fs[g]) + BssSize <= Targets[2]
        /\ Targets[2] + fs[g] <= MemorySize
        /\ Targets[1] + fs[g] <= Targets[2]
  <2> TAKE g \in 0..Count(fs)
  <2>1. /\ Machine!Align(fs[g]) + BssSize <= Targets[1]
        /\ Machine!Align(Targets[1] + fs[g]) + BssSize <= Targets[2]
        /\ Targets[2] + fs[g] <= MemorySize
    BY <1>1, <1>2
  <2>2. Targets[1] + fs[g] <= Targets[2]
    BY <1>1, <1>2, <1>3, <2>1
  <2> QED BY <2>1, <2>2
<1>5. /\ KernelBss(fs) \in Nat /\ fs[0] <= KernelBss(fs) /\ KernelBss(fs) + BssSize <= Targets[1]
      /\ Targets[1] <= Targets[2] /\ Targets[2] <= MemorySize
  BY <1>1, <1>2, <1>3, <1>4 DEF KernelBss
<1>6. Count(fs) > 0 =>
        /\ ProgramBss(fs) \in Nat /\ Targets[1] + fs[1] <= ProgramBss(fs)
        /\ ProgramBss(fs) + BssSize <= Targets[2] /\ ProgramBss(fs) + BssSize <= MemorySize
        /\ Targets[1] + fs[1] <= Targets[2]
  <2> SUFFICES ASSUME Count(fs) > 0 PROVE
        /\ ProgramBss(fs) \in Nat /\ Targets[1] + fs[1] <= ProgramBss(fs)
        /\ ProgramBss(fs) + BssSize <= Targets[2] /\ ProgramBss(fs) + BssSize <= MemorySize
        /\ Targets[1] + fs[1] <= Targets[2]
    OBVIOUS
  <2>1. 1 \in 0..Count(fs)
    BY <1>1
  <2>2. /\ ProgramBss(fs) \in Nat /\ Targets[1] + fs[1] <= ProgramBss(fs)
        /\ ProgramBss(fs) + BssSize <= Targets[2] /\ Targets[1] + fs[1] <= Targets[2]
    BY <1>3, <1>4, <2>1 DEF ProgramBss
  <2> QED BY <1>2, <1>5, <2>2
<1>7. \A g \in 1..Count(fs) :
        /\ Targets[g] \in Nat /\ fs[g] \in Nat
        /\ Targets[1] <= Targets[g] /\ Targets[g] + fs[g] <= MemorySize
  <2> TAKE g \in 1..Count(fs)
  <2>1. g \in 0..Count(fs) /\ (g = 1 \/ g = 2)
    BY <1>1
  <2> QED BY <1>1, <1>2, <1>4, <1>5, <2>1
<1> QED BY <1>1, <1>2, <1>5, <1>6, <1>7

LEMMA BootStep ==
    ASSUME MachineInv, Machine!Boot PROVE MachineInv'
<1> DEFINE n == Count(files)
<1>1. /\ pc = "size" /\ disk \in Seq(Cell) /\ FilesType(files)
      /\ file \in 1..n + 1 /\ Len(disk) = Base(files, file) - 1 /\ Packed(files, disk, file)
  BY DEF MachineInv, PackInv, Machine!Boot
<1>2. /\ memory' = [a \in 0..MemorySize - 1 |-> IF a < Len(disk) THEN disk[a + 1] ELSE Machine!Junk]
      /\ pc' = "load" /\ files' = files /\ disk' = disk /\ file > n
  BY ModulesCounted DEF Machine!Boot
<1>3. n \in 0..2 /\ file = n + 1
  BY <1>1, <1>2 DEF FilesType
<1>4. /\ Len(disk) = Base(files, n + 1) - 1 /\ Base(files, n + 1) \in Nat /\ Len(disk) <= MemorySize
      /\ \A g \in 0..n : Base(files, g) \in Nat /\ files[g] \in Nat
      /\ MemorySize \in Nat
  <2>1. n + 1 \in 0..n + 1 /\ \A g \in 0..n : g \in 0..n + 1
    BY <1>3
  <2>2. Base(files, n + 1) - 1 <= Targets[1]
    BY <1>1, Layout
  <2>3. Targets[1] \in Nat /\ Targets[1] <= MemorySize /\ MemorySize \in Nat
    BY <1>1, Addresses
  <2>4. \A g \in 0..n + 1 : Base(files, g) \in Nat
    BY <1>1, Layout
  <2>5. \A g \in 0..n : files[g] \in Nat
    BY <1>1, Layout
  <2> QED BY <1>1, <1>3, <2>1, <2>2, <2>3, <2>4, <2>5
<1>5. ASSUME NEW a \in 1..Len(disk) PROVE memory'[a - 1] = disk[a]
  <2>1. a - 1 \in 0..MemorySize - 1 /\ a - 1 < Len(disk) /\ (a - 1) + 1 = a
    BY <1>4
  <2> QED BY <1>2, <2>1
<1>6. \A g \in 0..n : Base(files, g) + files[g] <= Len(disk) /\ files[0] + 1 <= Len(disk)
  <2> TAKE g \in 0..n
  <2>1. g < n + 1 /\ n + 1 \in 0..n + 1
    BY <1>3
  <2> QED BY <1>1, <1>4, <2>1, FilesApart
<1>7. ASSUME NEW g \in 0..n, NEW i \in 1..files[g]
      PROVE  memory'[Base(files, g) + i - 1] = FileCell(g, i)
  <2> DEFINE a == Base(files, g) + i
  <2>1. a \in 1..Len(disk)
    BY <1>4, <1>6
  <2>2. disk[a] = FileCell(g, i)
    BY <1>1, <1>3 DEF Packed
  <2>3. Base(files, g) + i - 1 = a - 1
    BY <1>4
  <2> HIDE DEF a
  <2>4. memory'[a - 1] = FileCell(g, i)
    BY <1>5, <2>1, <2>2
  <2> QED BY <2>3, <2>4
<1>8. memory'[files[0]] = NumberCell(n)
  <2>1. 0 \in 0..n
    BY <1>3
  <2>2. files[0] + 1 \in 1..Len(disk) /\ (files[0] + 1) - 1 = files[0]
    BY <1>4, <1>6, <2>1
  <2>3. disk[files[0] + 1] = NumberCell(n)
    BY <1>1, <1>3 DEF Packed
  <2> QED BY <1>5, <2>2, <2>3
<1>9. ASSUME NEW g \in 1..n PROVE memory'[Base(files, g) - 1] = NumberCell(files[g])
  <2>1. g \in 0..n /\ 0 \in 0..n /\ 0 < g /\ g \in 0..n + 1
    BY <1>3
  <2>2. files[0] + 1 <= Base(files, g) - 1
    BY <1>1, <2>1, FilesApart
  <2>3. Base(files, g) \in 1..Len(disk)
    <3>1. Base(files, g) \in Nat /\ files[g] \in Nat /\ files[0] \in Nat
      BY <1>4, <2>1
    <3>2. Base(files, g) + files[g] <= Len(disk)
      BY <1>6, <2>1
    <3> QED BY <1>4, <2>2, <3>1, <3>2
  <2>4. disk[Base(files, g)] = NumberCell(files[g])
    <3>1. file - 1 = n
      BY <1>3
    <3> QED BY <1>1, <3>1 DEF Packed
  <2> QED BY <1>5, <2>3, <2>4
<1>10. Loaded(files, memory')
  BY <1>7, <1>8, <1>9 DEF Loaded
<1>11. LoadInv'
  BY <1>2, <1>10 DEF LoadInv
<1> QED BY <1>1, <1>2, <1>11 DEF MachineInv, PackInv

LEMMA ReadCountStep ==
    ASSUME MachineInv, Machine!ReadCount PROVE MachineInv'
<1>1. /\ pc = "load" /\ disk \in Seq(Cell) /\ FilesType(files) /\ DOMAIN memory = 0..MemorySize - 1
      /\ Loaded(files, memory)
  BY DEF MachineInv, LoadInv, Machine!ReadCount
<1>2. /\ currentModule' = files[0] + 1 /\ done' = memory[files[0]][2] /\ file' = 0 /\ pc' = "module"
      /\ files' = files /\ disk' = disk /\ memory' = memory
  BY DEF Machine!ReadCount, Machine!endOfKernelBinary
<1>3. done' = Count(files)
  BY <1>1, <1>2 DEF Loaded, NumberCell
<1>4. 0 \in 0..Count(files) /\ Base(files, 1) = files[0] + 2 /\ files[0] \in Nat
  BY <1>1, Layout DEF FilesType
<1>5. Placed(files, memory, 0)
  BY DEF Placed
<1>6. currentModule' = Base(files, 0 + 1) - 1
  BY <1>2, <1>4
<1>7. LoadInv'
  BY <1>1, <1>2, <1>3, <1>4, <1>5, <1>6 DEF LoadInv
<1> QED BY <1>1, <1>2, <1>7 DEF MachineInv, PackInv

\* A module is copied from behind its size to its address.
LEMMA LoadModuleStep ==
    ASSUME MachineInv, Machine!loadModule PROVE MachineInv'
<1> DEFINE n == Count(files)
           f == file + 1
           target == Targets[f]
           size == memory[currentModule][2]
<1>1. /\ pc = "module" /\ disk \in Seq(Cell) /\ FilesType(files) /\ DOMAIN memory = 0..MemorySize - 1
      /\ Loaded(files, memory) /\ Placed(files, memory, file)
      /\ done = n /\ file \in 0..n /\ currentModule = Base(files, f) - 1
  BY DEF MachineInv, LoadInv, Machine!loadModule
<1>2. /\ memory' = [a \in DOMAIN memory |-> IF a \in target..target + size - 1
                                         THEN memory[currentModule + 1 + a - target] ELSE memory[a]]
      /\ currentModule' = currentModule + 1 + size /\ file' = f /\ file < done
      /\ pc' = pc /\ files' = files /\ disk' = disk /\ done' = done
  BY DEF Machine!loadModule
<1>3. n \in 0..2 /\ f \in 1..n /\ f \in 0..n /\ f \in 0..n + 1 /\ f + 1 \in 0..n + 1
  BY <1>1, <1>2 DEF FilesType
<1>4. size = files[f]
  BY <1>1, <1>3 DEF Loaded, NumberCell
<1>5. /\ Base(files, f) \in Nat /\ files[f] \in Nat /\ target \in Nat /\ MemorySize \in Nat
      /\ Targets[1] \in Nat /\ Targets[1] <= target /\ target + files[f] <= MemorySize
      /\ Base(files, f + 1) = Base(files, f) + files[f] + 1
  BY <1>1, <1>3, Layout, Addresses
<1> HIDE DEF f, target, size
<1>6. Loaded(files, memory')
  <2>1. ASSUME NEW a \in 0..Targets[1] - 1 PROVE memory'[a] = memory[a]
    <3>1. a \in 0..MemorySize - 1 /\ a \notin target..target + size - 1
      BY <1>4, <1>5
    <3> QED BY <1>1, <1>2, <3>1
  <2>2. Base(files, n + 1) - 1 <= Targets[1] /\ Base(files, n + 1) \in Nat
    <3>1. n + 1 \in 0..n + 1
      BY <1>3
    <3> QED BY <1>1, <3>1, Layout
  <2>3. ASSUME NEW g \in 0..n
        PROVE  /\ Base(files, g) \in Nat /\ files[g] \in Nat /\ files[0] \in Nat
               /\ Base(files, g) + files[g] <= Targets[1] /\ files[0] + 1 <= Targets[1]
    <3>1. g < n + 1 /\ n + 1 \in 0..n + 1 /\ g \in 0..n + 1 /\ 0 \in 0..n
      BY <1>3
    <3>2. Base(files, g) + files[g] <= Base(files, n + 1) - 1 /\ files[0] + 1 <= Base(files, n + 1) - 1
      BY <1>1, <3>1, FilesApart
    <3>3. Base(files, g) \in Nat /\ files[g] \in Nat /\ files[0] \in Nat
      BY <1>1, <3>1, Layout
    <3> QED BY <1>5, <2>2, <3>2, <3>3
  <2>4. ASSUME NEW g \in 0..n, NEW i \in 1..files[g]
        PROVE  memory'[Base(files, g) + i - 1] = FileCell(g, i)
    <3> DEFINE a == Base(files, g) + i - 1
    <3>1. a \in 0..Targets[1] - 1
      BY <1>5, <2>3
    <3>2. memory[a] = FileCell(g, i)
      BY <1>1 DEF Loaded
    <3> HIDE DEF a
    <3>3. memory'[a] = FileCell(g, i)
      BY <2>1, <3>1, <3>2
    <3> QED BY <3>3 DEF a
  <2>5. memory'[files[0]] = NumberCell(n)
    <3>1. 0 \in 0..n
      BY <1>3
    <3>2. files[0] \in 0..Targets[1] - 1
      BY <1>5, <2>3, <3>1
    <3> QED BY <1>1, <2>1, <3>2 DEF Loaded
  <2>6. ASSUME NEW g \in 1..n PROVE memory'[Base(files, g) - 1] = NumberCell(files[g])
    <3>1. g \in 0..n /\ 0 \in 0..n /\ 0 < g /\ g \in 0..n + 1
      BY <1>3
    <3>2. files[0] + 1 <= Base(files, g) - 1 /\ files[0] \in Nat
      BY <1>1, <2>3, <3>1, FilesApart
    <3>3. Base(files, g) - 1 \in 0..Targets[1] - 1
      BY <1>5, <2>3, <3>1, <3>2
    <3> QED BY <1>1, <2>1, <3>3 DEF Loaded
  <2> QED BY <2>4, <2>5, <2>6 DEF Loaded
<1>7. Placed(files, memory', f)
  <2> SUFFICES ASSUME NEW g \in 1..f, NEW i \in 1..files[g]
               PROVE  memory'[Targets[g] + i - 1] = FileCell(g, i)
    BY DEF Placed
  <2>1. f \in Nat /\ g \in 1..n /\ (g = f \/ g \in 1..file)
    BY <1>1, <1>3 DEF f
  <2>2. CASE g = f
    <3> DEFINE a == target + i - 1
    <3>1. /\ a \in 0..MemorySize - 1 /\ a \in target..target + size - 1
          /\ currentModule + 1 + a - target = Base(files, f) + i - 1
      <4>1. i \in 1..files[f]
        BY <2>2
      <4>2. a \in 0..MemorySize - 1 /\ a \in target..target + size - 1
        BY <1>4, <1>5, <4>1
      <4>3. a - target = i - 1 /\ currentModule + 1 = Base(files, f)
        BY <1>1, <1>5, <4>1
      <4> QED BY <1>5, <4>1, <4>2, <4>3
    <3>2. memory[Base(files, f) + i - 1] = FileCell(f, i)
      BY <1>1, <1>3, <2>2 DEF Loaded
    <3>3. Targets[g] + i - 1 = a
      BY <2>2 DEF target
    <3> HIDE DEF a
    <3>4. memory'[a] = memory[currentModule + 1 + a - target]
      BY <1>1, <1>2, <3>1
    <3> QED BY <2>2, <3>1, <3>2, <3>3, <3>4
  <2>3. CASE g \in 1..file
    <3>1. g = 1 /\ f = 2 /\ n > 1 /\ 1 \in 1..n
      BY <1>1, <1>3, <2>3 DEF f
    <3>2. Targets[1] + files[1] <= target /\ files[1] \in Nat
      BY <1>1, <3>1, Addresses DEF target
    <3> DEFINE a == Targets[g] + i - 1
    <3>3. a \in 0..MemorySize - 1 /\ a \notin target..target + size - 1
      BY <1>4, <1>5, <3>1, <3>2
    <3>4. memory[a] = FileCell(g, i)
      BY <1>1, <2>3 DEF Placed
    <3> HIDE DEF a
    <3>5. memory'[a] = memory[a]
      BY <1>1, <1>2, <3>3
    <3> QED BY <3>4, <3>5 DEF a
  <2> QED BY <2>1, <2>2, <2>3
<1>8. currentModule' = Base(files, f + 1) - 1
  BY <1>1, <1>2, <1>4, <1>5
<1>9. f \in 0..n
  BY <1>3
<1>10. LoadInv'
  BY <1>1, <1>2, <1>6, <1>7, <1>8, <1>9 DEF LoadInv
<1> QED BY <1>1, <1>2, <1>10 DEF MachineInv, PackInv

\* Clearing leaves what lies below and above alone.
LEMMA ClearedCells ==
    ASSUME NEW from \in Nat, DOMAIN memory = 0..MemorySize - 1, BssSize \in Nat,
           from + BssSize <= MemorySize, MemorySize \in Nat,
           memory' = Machine!Cleared(from, BssSize)
    PROVE  /\ DOMAIN memory' = 0..MemorySize - 1 /\ ZeroFrom(memory', from)
           /\ \A a \in 0..MemorySize - 1 : a < from \/ a >= from + BssSize => memory'[a] = memory[a]
<1>1. memory' = [a \in 0..MemorySize - 1 |-> IF a \in from..from + BssSize - 1 THEN Machine!Zero ELSE memory[a]]
  BY DEF Machine!Cleared
<1>2. DOMAIN memory' = 0..MemorySize - 1
  BY <1>1
<1>3. ZeroFrom(memory', from)
  BY <1>1 DEF ZeroFrom
<1>4. ASSUME NEW a \in 0..MemorySize - 1, a < from \/ a >= from + BssSize PROVE memory'[a] = memory[a]
  <2>1. a \notin from..from + BssSize - 1
    BY <1>4
  <2> QED BY <1>1, <2>1
<1> QED BY <1>2, <1>3, <1>4

LEMMA ClearBssStep ==
    ASSUME MachineInv, Machine!clearBSS PROVE MachineInv'
<1> DEFINE n == Count(files)
<1>1. /\ pc = "module" /\ disk \in Seq(Cell) /\ FilesType(files) /\ DOMAIN memory = 0..MemorySize - 1
      /\ Loaded(files, memory) /\ Placed(files, memory, file) /\ done = n /\ file = n
  BY DEF MachineInv, LoadInv, Machine!clearBSS
<1>2. /\ memory' = Machine!Cleared(KernelBss(files), BssSize)
      /\ pc' = (IF done > 0 THEN "start" ELSE "stopped")
      /\ files' = files /\ disk' = disk
  BY DEF Machine!clearBSS, Machine!bss, Machine!endOfKernelBinary, KernelBss
<1>3. /\ n \in 0..2 /\ KernelBss(files) \in Nat /\ BssSize \in Nat /\ MemorySize \in Nat
      /\ files[0] \in Nat /\ files[0] <= KernelBss(files) /\ KernelBss(files) + BssSize <= Targets[1]
      /\ Targets[1] \in Nat /\ Targets[1] <= MemorySize
  BY <1>1, Addresses DEF FilesType
<1>4. /\ DOMAIN memory' = 0..MemorySize - 1 /\ ZeroFrom(memory', KernelBss(files))
      /\ \A a \in 0..MemorySize - 1 :
            a < KernelBss(files) \/ a >= KernelBss(files) + BssSize => memory'[a] = memory[a]
  BY <1>1, <1>2, <1>3, ClearedCells
<1>5. Kernel(files, memory')
  <2> SUFFICES ASSUME NEW i \in 1..files[0] PROVE memory'[i - 1] = FileCell(0, i)
    BY DEF Kernel
  <2>1. 0 \in 0..n /\ Base(files, 0) = 0 /\ Base(files, 0) + i - 1 = i - 1
    BY <1>1, <1>3, Layout
  <2>2. memory[i - 1] = FileCell(0, i)
    BY <1>1, <2>1 DEF Loaded
  <2>3. i - 1 \in 0..MemorySize - 1 /\ i - 1 < KernelBss(files)
    BY <1>3
  <2> QED BY <1>4, <2>2, <2>3
<1>6. Placed(files, memory', n)
  <2> SUFFICES ASSUME NEW g \in 1..n, NEW i \in 1..files[g]
               PROVE  memory'[Targets[g] + i - 1] = FileCell(g, i)
    BY DEF Placed
  <2>1. /\ Targets[g] \in Nat /\ files[g] \in Nat
        /\ Targets[1] <= Targets[g] /\ Targets[g] + files[g] <= MemorySize
    BY <1>1, Addresses
  <2> DEFINE a == Targets[g] + i - 1
  <2>2. a \in 0..MemorySize - 1 /\ a >= KernelBss(files) + BssSize
    BY <1>3, <2>1
  <2>3. memory[a] = FileCell(g, i)
    BY <1>1 DEF Placed
  <2> HIDE DEF a
  <2>4. memory'[a] = memory[a]
    BY <1>4, <2>2
  <2> QED BY <2>3, <2>4 DEF a
<1>7. LoadInv'
  BY <1>1, <1>2, <1>3, <1>4, <1>5, <1>6 DEF LoadInv
<1> QED BY <1>1, <1>2, <1>7 DEF MachineInv, PackInv

LEMMA UserStartStep ==
    ASSUME MachineInv, Machine!UserStart PROVE MachineInv'
<1> DEFINE n == Count(files)
<1>1. /\ pc = "start" /\ disk \in Seq(Cell) /\ FilesType(files) /\ DOMAIN memory = 0..MemorySize - 1
      /\ n > 0 /\ Kernel(files, memory) /\ Placed(files, memory, n) /\ ZeroFrom(memory, KernelBss(files))
  BY DEF MachineInv, LoadInv, Machine!UserStart
<1>2. /\ memory' = Machine!Cleared(ProgramBss(files), BssSize) /\ pc' = "main"
      /\ files' = files /\ disk' = disk
  BY DEF Machine!UserStart, Machine!userBss, ProgramBss
<1>3. /\ n \in 1..2 /\ KernelBss(files) \in Nat /\ BssSize \in Nat /\ MemorySize \in Nat
      /\ files[0] \in Nat /\ files[0] <= KernelBss(files) /\ KernelBss(files) + BssSize <= Targets[1]
      /\ Targets[1] \in Nat /\ Targets[1] <= MemorySize
      /\ ProgramBss(files) \in Nat /\ Targets[1] + files[1] <= ProgramBss(files)
      /\ ProgramBss(files) + BssSize <= MemorySize
      /\ n > 1 => ProgramBss(files) + BssSize <= Targets[2]
      /\ files[1] \in Nat
  <2>1. n \in 1..2 /\ 1 \in 1..n
    BY <1>1 DEF FilesType
  <2> QED BY <1>1, <2>1, Addresses
<1>4. /\ DOMAIN memory' = 0..MemorySize - 1 /\ ZeroFrom(memory', ProgramBss(files))
      /\ \A a \in 0..MemorySize - 1 :
            a < ProgramBss(files) \/ a >= ProgramBss(files) + BssSize => memory'[a] = memory[a]
  BY <1>1, <1>2, <1>3, ClearedCells
<1>5. ASSUME NEW a \in 0..Targets[1] - 1 PROVE memory'[a] = memory[a]
  <2>1. a \in 0..MemorySize - 1 /\ a < ProgramBss(files)
    BY <1>3
  <2> QED BY <1>4, <2>1
<1>6. Kernel(files, memory')
  <2> SUFFICES ASSUME NEW i \in 1..files[0] PROVE memory'[i - 1] = FileCell(0, i)
    BY DEF Kernel
  <2>1. memory[i - 1] = FileCell(0, i)
    BY <1>1 DEF Kernel
  <2>2. i - 1 \in 0..Targets[1] - 1
    BY <1>3
  <2> QED BY <1>5, <2>1, <2>2
<1>7. ZeroFrom(memory', KernelBss(files))
  <2> SUFFICES ASSUME NEW a \in KernelBss(files)..KernelBss(files) + BssSize - 1
               PROVE  memory'[a] = Machine!Zero
    BY DEF ZeroFrom
  <2>1. a \in 0..Targets[1] - 1
    BY <1>3
  <2>2. memory[a] = Machine!Zero
    BY <1>1 DEF ZeroFrom
  <2> QED BY <1>5, <2>1, <2>2
<1>8. Placed(files, memory', n)
  <2> SUFFICES ASSUME NEW g \in 1..n, NEW i \in 1..files[g]
               PROVE  memory'[Targets[g] + i - 1] = FileCell(g, i)
    BY DEF Placed
  <2>1. /\ Targets[g] \in Nat /\ files[g] \in Nat /\ Targets[g] + files[g] <= MemorySize
    BY <1>1, Addresses
  <2>2. (g = 1 \/ (g = 2 /\ n > 1)) /\ i \in Nat /\ i > 0 /\ i <= files[g]
    BY <1>3, <2>1
  <2> DEFINE a == Targets[g] + i - 1
  <2>3. a \in 0..MemorySize - 1
    BY <1>3, <2>1
  <2>4. a < ProgramBss(files) \/ a >= ProgramBss(files) + BssSize
    <3>1. CASE g = 1
      BY <1>3, <2>2, <3>1
    <3>2. CASE g = 2 /\ n > 1
      BY <1>3, <2>1, <2>2, <3>2
    <3> QED BY <2>2, <3>1, <3>2
  <2>5. memory[a] = FileCell(g, i)
    BY <1>1 DEF Placed
  <2> HIDE DEF a
  <2>6. memory'[a] = memory[a]
    BY <1>4, <2>3, <2>4
  <2> QED BY <2>5, <2>6 DEF a
<1>9. LoadInv'
  BY <1>1, <1>2, <1>4, <1>6, <1>7, <1>8 DEF LoadInv
<1> QED BY <1>1, <1>2, <1>9 DEF MachineInv, PackInv

LEMMA MachineSteps == MachineInv /\ [ImagesNext]_allVars => MachineInv'
<1> SUFFICES ASSUME MachineInv, [ImagesNext]_allVars PROVE MachineInv'
  OBVIOUS
<1>1. CASE UNCHANGED machineVars
  BY <1>1 DEF machineVars, MachineInv, PackInv, LoadInv
<1>2. CASE Machine!checkFiles
  BY <1>2, CheckFiles
<1>3. CASE Machine!write_file
  BY <1>3, WriteFile
<1>4. CASE Machine!WriteCount
  BY <1>4, WriteCountStep
<1>5. CASE Machine!write_size
  BY <1>5, WriteSizeStep
<1>6. CASE Machine!Boot
  BY <1>6, BootStep
<1>7. CASE Machine!ReadCount
  BY <1>7, ReadCountStep
<1>8. CASE Machine!loadModule
  BY <1>8, LoadModuleStep
<1>9. CASE Machine!clearBSS
  BY <1>9, ClearBssStep
<1>10. CASE Machine!UserStart
  BY <1>10, UserStartStep
<1>11. UNCHANGED machineVars \/ Machine!Next
  BY DEF ImagesNext, allVars
<1> QED BY <1>1, <1>2, <1>3, <1>4, <1>5, <1>6, <1>7, <1>8, <1>9, <1>10, <1>11 DEF Machine!Next

\* At each place of the packer and of the start of the machine, every file and its
\* head are where the layout says, in the packed file and then in memory.
THEOREM MachineInvariant == ImagesSpec => []MachineInv
<1>1. ImagesInit => MachineInv
  BY MachineInit DEF ImagesInit
<1> QED BY <1>1, MachineSteps, PTL DEF ImagesSpec

\* When main begins, every part is where it belongs and both BSSs are zero.
LEMMA MainStarts == MachineInv => ProgramStartsAsBuilt
<1> SUFFICES ASSUME MachineInv, pc = "main" PROVE
        /\ \A f \in DOMAIN files : \A i \in 1..files[f] :
            memory[(IF f = 0 THEN 0 ELSE Targets[f]) + i - 1] = <<"file", f, i>>
        /\ \A a \in (Machine!bss..Machine!endOfKernel - 1) \union (Machine!userBss..Machine!userBss + BssSize - 1) :
            memory[a] = Machine!Zero
  BY DEF ProgramStartsAsBuilt, Machine!ProgramStartsAsBuilt
<1>1. /\ FilesType(files) /\ Kernel(files, memory) /\ Placed(files, memory, Count(files))
      /\ ZeroFrom(memory, KernelBss(files)) /\ ZeroFrom(memory, ProgramBss(files))
  BY DEF MachineInv, LoadInv
<1>2. Count(files) \in 0..2 /\ DOMAIN files = 0..Count(files) /\ files[0] \in Nat
  BY <1>1, Layout DEF FilesType
<1>3. ASSUME NEW f \in DOMAIN files, NEW i \in 1..files[f]
      PROVE  memory[(IF f = 0 THEN 0 ELSE Targets[f]) + i - 1] = <<"file", f, i>>
  <2>1. CASE f = 0
    <3>1. memory[i - 1] = <<"file", f, i>> /\ 0 + i - 1 = i - 1
      BY <1>1, <1>2, <2>1 DEF Kernel, FileCell
    <3> QED BY <2>1, <3>1
  <2>2. CASE f # 0
    <3>1. f \in 1..Count(files)
      BY <1>2, <2>2
    <3> QED BY <1>1, <2>2, <3>1 DEF Placed, FileCell
  <2> QED BY <2>1, <2>2
<1>4. /\ Machine!bss = KernelBss(files) /\ Machine!endOfKernel = KernelBss(files) + BssSize
      /\ Machine!userBss = ProgramBss(files)
  BY DEF Machine!bss, Machine!endOfKernel, Machine!endOfKernelBinary, Machine!userBss, KernelBss, ProgramBss
<1>5. \A a \in KernelBss(files)..KernelBss(files) + BssSize - 1 : memory[a] = Machine!Zero
  BY <1>1 DEF ZeroFrom
<1>6. \A a \in ProgramBss(files)..ProgramBss(files) + BssSize - 1 : memory[a] = Machine!Zero
  BY <1>1 DEF ZeroFrom
<1>7. ASSUME NEW a \in (Machine!bss..Machine!endOfKernel - 1) \union (Machine!userBss..Machine!userBss + BssSize - 1)
      PROVE  memory[a] = Machine!Zero
  <2>1. (KernelBss(files) + BssSize) - 1 = KernelBss(files) + BssSize - 1
    BY <1>1, Addresses
  <2> QED BY <1>4, <1>5, <1>6, <2>1
<1> QED BY <1>3, <1>7

\* Whatever the sizes of the kernel and of the modules, and wherever they lie to the
\* packer's buffer, the program's main finds the kernel and every module in memory
\* byte for byte where they belong, and both BSSs zero.
THEOREM ProgramStartsAsBuiltHolds == ImagesSpec => []ProgramStartsAsBuilt
BY MachineInvariant, MainStarts, PTL
=============================================================================
