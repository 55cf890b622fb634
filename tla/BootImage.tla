------------------------------ MODULE BootImage ------------------------------
(***************************************************************************)
(* How the user program gets into memory: Toolchain/ModulePacker/main.c    *)
(* writes the modules behind the kernel, the boot loader reads the image   *)
(* to KernelBase, kernel.c and moduleLoader.c copy each module to its      *)
(* address and clear the kernel's BSS, and _loader.c clears the program's. *)
(*                                                                         *)
(* A cell of a file is <<"file", which, where>>, a number in the image is  *)
(* one cell.  Writes of the packer succeed: it does not look.              *)
(***************************************************************************)
EXTENDS Integers, Sequences, FiniteSetsExt

CONSTANTS
    Sizes,          \* of the kernel's and of the modules' binaries
    Counts,         \* how many modules the packer may be given: 0 to 2
    BUFFER_SIZE,    \* 128
    Alignment,      \* 0x1000
    BssSize,        \* of the kernel and of the program
    Targets,        \* moduleAddresses, relative to the kernel's; the payload ends before them
    MemorySize

VARIABLES
    files,          \* the size of each: 0 is the kernel
    readable,       \* the ones access() finds readable
    pc,
    image,          \* the packed file
    file, done,     \* which one is copied, and how much of it
    memory,
    currentModule   \* loadModules

vars == <<files, readable, pc, image, file, done, memory, currentModule>>

Zero == <<"zero", 0>>
Junk == <<"junk", 0>>
Number(n) == <<"number", n>>
Content(f, from, n) == [i \in 1..n |-> <<"file", f, from + i>>]

modules == Cardinality(DOMAIN files) - 1
Align(n) == ((n + Alignment - 1) \div Alignment) * Alignment

\* The linker's symbols, relative to the kernel's address; the program's BSS
\* begins behind its binary.
endOfKernelBinary == files[0]
bss == Align(endOfKernelBinary)
endOfKernel == bss + BssSize
userBss == Align(Targets[1] + files[1])

-----------------------------------------------------------------------------
(* ModulePacker *)

checkFiles ==
    /\ pc = "check"
    /\ pc' = IF readable = DOMAIN files THEN "body" ELSE "refused"
    /\ UNCHANGED <<files, readable, image, file, done, memory, currentModule>>

\* write_file: a buffer, and another unless it was short.
write_file ==
    LET read == Min({BUFFER_SIZE, files[file] - done}) IN
    /\ pc = "body"
    /\ image' = image \o Content(file, done, read)
    /\ IF read < BUFFER_SIZE
       THEN pc' = (IF file = 0 THEN "count" ELSE "size") /\ file' = file + 1 /\ done' = 0
       ELSE done' = done + read /\ UNCHANGED <<pc, file>>
    /\ UNCHANGED <<files, readable, memory, currentModule>>

WriteCount ==
    /\ pc = "count"
    /\ image' = Append(image, Number(modules)) /\ pc' = "size"
    /\ UNCHANGED <<files, readable, file, done, memory, currentModule>>

write_size ==
    /\ pc = "size" /\ file <= modules
    /\ image' = Append(image, Number(files[file])) /\ pc' = "body"
    /\ UNCHANGED <<files, readable, file, done, memory, currentModule>>

-----------------------------------------------------------------------------
(* The machine starts *)

\* The boot loader: the image at the kernel's address, anything behind it.
Boot ==
    /\ pc = "size" /\ file > modules
    /\ memory' = [a \in 0..MemorySize - 1 |-> IF a < Len(image) THEN image[a + 1] ELSE Junk]
    /\ pc' = "load"
    /\ UNCHANGED <<files, readable, image, file, done, currentModule>>

Cleared(from, n) == [a \in DOMAIN memory |-> IF a \in from..from + n - 1 THEN Zero ELSE memory[a]]

\* Mutant of ReadCount: clearBSS comes before the modules are copied.
ReadCountAfterClear ==
    /\ pc = "load"
    /\ memory' = Cleared(bss, BssSize)
    /\ currentModule' = endOfKernelBinary + 1
    /\ done' = memory[endOfKernelBinary][2] /\ file' = 0
    /\ pc' = "module"
    /\ UNCHANGED <<files, readable, image>>

\* loadModules up to its loop, where done is the count and file the index.
ReadCount ==
    /\ pc = "load"
    /\ currentModule' = endOfKernelBinary + 1
    /\ done' = memory[endOfKernelBinary][2] /\ file' = 0
    /\ pc' = "module"
    /\ UNCHANGED <<files, readable, image, memory>>

loadModule ==
    LET moduleSize == memory[currentModule][2]
        target == Targets[file + 1]
    IN
    /\ pc = "module" /\ file < done
    /\ memory' = [a \in DOMAIN memory |->
                    IF a \in target..target + moduleSize - 1 THEN memory[currentModule + 1 + a - target] ELSE memory[a]]
    /\ currentModule' = currentModule + 1 + moduleSize
    /\ file' = file + 1
    /\ UNCHANGED <<files, readable, pc, image, done>>

\* clearBSS; then main calls the first module, whatever is there.
clearBSS ==
    /\ pc = "module" /\ file = done
    /\ memory' = Cleared(bss, BssSize)
    /\ pc' = IF done > 0 THEN "start" ELSE "stopped"
    /\ UNCHANGED <<files, readable, image, file, done, currentModule>>

\* _start of the program.
UserStart ==
    /\ pc = "start"
    /\ memory' = Cleared(userBss, BssSize)
    /\ pc' = "main"
    /\ UNCHANGED <<files, readable, image, file, done, currentModule>>

-----------------------------------------------------------------------------
Init ==
    /\ \E n \in Counts : files \in [0..n -> Sizes]
    /\ readable \in {DOMAIN files, {0}}
    /\ pc = "check" /\ image = <<>> /\ file = 0 /\ done = 0
    /\ memory = <<>> /\ currentModule = 0

Next ==
    \/ checkFiles \/ write_file \/ WriteCount \/ write_size
    \/ Boot \/ ReadCount \/ loadModule \/ clearBSS \/ UserStart

Spec == Init /\ [][Next]_vars

-----------------------------------------------------------------------------
(* Properties *)

\* When the program's main begins, the kernel and every module are in memory
\* byte for byte where they belong, and both BSSs are zero, although the packed
\* modules lay where the kernel's BSS is (initializeKernelBinary), and whatever
\* their sizes are to the packer's buffer (write_file).
ProgramStartsAsBuilt ==
    pc = "main" =>
        /\ \A f \in DOMAIN files : \A i \in 1..files[f] :
            memory[(IF f = 0 THEN 0 ELSE Targets[f]) + i - 1] = <<"file", f, i>>
        /\ \A a \in (bss..endOfKernel - 1) \union (userBss..userBss + BssSize - 1) : memory[a] = Zero
=============================================================================
