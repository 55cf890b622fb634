------------------------------ MODULE MCImages -------------------------------
(***************************************************************************)
(* The two tools that make the image of the system: the disk tool and the  *)
(* module packer with the start of the machine.  They share no state:      *)
(* subject, chosen at the start, is the one that runs.                     *)
(*                                                                         *)
(* In the run the disk tool has three names, a directory of three entries  *)
(* and images of three to six blocks; sizes are numbers of base three      *)
(* below 64, with a K of four, so that products overflow as those of 64    *)
(* bits do.  The packer's buffer has two cells and binaries have one to    *)
(* four, so that they end within, at and behind a buffer, and the kernel's *)
(* BSS begins at, or one before, what is packed behind it and reaches in.  *)
(***************************************************************************)
EXTENDS Bmfs, TLC

CONSTANTS
    BinarySizes, ModuleCounts,      \* of module BootImage: Sizes, Counts
    BUFFER_SIZE, Alignment, BssSize, Targets, MemorySize,
    TornFiles,        \* files at a time whose overwriting was killed halfway
    FormatEntries     \* entries, at most, of a directory that is formatted anew

VARIABLES subject, files, readable, pc, disk, file, done, memory, currentModule

Symmetry == Permutations(Names) \cup Permutations(Contents)

Characters == {0, 1, 2, 4, 5, 9}   \* three digits, K, M and a letter that is no unit
MCTargets == <<16, 24>>
MCSizeStrings == UNION {[1..n -> Characters] : n \in 0..4}

Machine == INSTANCE BootImage WITH
    Sizes <- BinarySizes, Counts <- ModuleCounts, image <- disk

\* The memory map: the kernel with its BSS, and all that is packed behind it, end
\* before the first module's address, the program with its BSS before the second's.
ASSUME BootAssumption ==
    /\ ModuleCounts \subseteq 0..2 /\ BinarySizes \subseteq Nat
    /\ BUFFER_SIZE \in Nat \ {0} /\ Alignment \in Nat \ {0} /\ BssSize \in Nat
    /\ Targets[1] \in Nat /\ Targets[2] \in Nat /\ MemorySize \in Nat
    /\ \A k, s, d \in BinarySizes :
           /\ k + s + d + 3 <= Targets[1] /\ Machine!Align(k) + BssSize <= Targets[1]
           /\ Machine!Align(Targets[1] + s) + BssSize <= Targets[2]
           /\ Targets[2] + d <= MemorySize

machineVars == <<files, readable, pc, disk, file, done, memory, currentModule>>
allVars == <<subject, vars, machineVars>>

ImagesInit ==
    /\ subject \in {"disk", "machine"}
    /\ Init /\ (subject # "disk" => image.blocks = 0)
    /\ Machine!Init /\ (subject # "machine" => readable = {0} /\ files = [f \in {0} |-> 1])

\* Bounds: files are torn one at a time, and an image is formatted anew while
\* its directory is short.
Bounded ==
    /\ Cardinality({f \in Names : wrote'[f].torn}) <= TornFiles
    /\ job.pc = "idle" /\ job'.pc = "marker" => Terminator(image.dir) <= FormatEntries

ImagesNext ==
    /\ UNCHANGED subject
    /\ \/ subject = "disk" /\ Next /\ Bounded /\ UNCHANGED machineVars
       \/ subject = "machine" /\ Machine!Next /\ UNCHANGED vars

ImagesSpec == ImagesInit /\ [][ImagesNext]_allVars

-----------------------------------------------------------------------------
\* The program starts with everything in place (module BootImage).
ProgramStartsAsBuilt == Machine!ProgramStartsAsBuilt
=============================================================================
