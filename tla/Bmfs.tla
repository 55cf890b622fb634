-------------------------------- MODULE Bmfs ---------------------------------
(***************************************************************************)
(* The disk image tool (Bootloader/BMFS/bmfs.c): every command is a        *)
(* process of its own that reads the marker and the directory of the       *)
(* image, works on its copy, writes back and ends.  A process may be       *)
(* killed between two writes.                                              *)
(*                                                                         *)
(* Sizes are in blocks.  A block holds the name of the file whose write    *)
(* filled it and what the local file held then, while the file is there;   *)
(* zeros and the data of files that are gone are alike (End).  The system  *)
(* (MBR, boot loader and kernel) fits in block 0; no command reads it, so  *)
(* only initialize keeps track of it.                                      *)
(*                                                                         *)
(* Making an image may fail at each of its writes, also where the code     *)
(* does not look at what fwrite, fseek, rewind and fclose return; the      *)
(* commands on an image may be killed, but their writes do not fail.       *)
(***************************************************************************)
EXTENDS Integers, Sequences, SequencesExt, FiniteSetsExt

CONSTANTS
    Names,        \* file names (at most 31 characters)
    Contents,     \* what a local file may hold
    End, Deleted, \* a name that starts with 0x00, with 0x01
    DirSize,      \* entries of the directory: 64
    HostBlocks,   \* the largest image the host file system holds
    MaxMiB,       \* bounds the sizes of files
    SizeStrings,  \* the size arguments of initialize
    Radix, Kilo, Modulus, BlockBytes   \* 10, 1024, 2^64, 2 MiB

ASSUME BmfsAssumption == /\ DirSize \in Nat \ {0} /\ HostBlocks \in Nat
                         /\ End \notin Names /\ Deleted \notin Names /\ End # Deleted
                         /\ End \notin Names \X Contents
                         /\ SizeStrings \subseteq Seq(Nat) /\ Radix \in Nat \ {0, 1} /\ Kilo \in Nat \ {0, 1}
                         /\ Modulus \in Nat \ {0} /\ BlockBytes \in Nat \ {0}

VARIABLES
    image,   \* the disk image file
    job,     \* the command that runs
    sound,   \* history: the directory was written whole, no file was lost in
             \* it and files never met
    wrote    \* history: whether each file is there, what the last finished
             \* write gave it, and whether one was killed halfway since

vars == <<image, job, sound, wrote>>

Slots == 0..(DirSize - 1)
Entry(n, s, r, z) == [name |-> n, start |-> s, reserved |-> r, size |-> z]
Zeroed == [i \in Slots |-> Entry(End, 0, 0, 0)]
minimumDiskSize == 3 * BlockBytes

Written(len, what) == [there |-> TRUE, len |-> len, what |-> what, torn |-> FALSE]
NoFile == [there |-> FALSE, len |-> 0, what |-> End, torn |-> FALSE]
NoFiles == [f \in Names |-> NoFile]

Idle == [pc |-> "idle"]
num_blocks == image.blocks
LastBlock == num_blocks - 1

----------------------------------------------------------------------------
(* The directory.                                                          *)

\* The first End entry, or DirSize when there is none.
Terminator(dir) ==
    LET ends == {i \in Slots : dir[i].name = End} IN IF ends = {} THEN DirSize ELSE Min(ends)

\* The slots list() prints and findfile() compares.
Live(dir) == {i \in Slots : i < Terminator(dir) /\ dir[i].name # Deleted}
Find(dir, f) == {i \in Live(dir) : dir[i].name = f}
Blocks(e) == e.start..(e.start + e.reserved - 1)

\* create() counts the entries before the terminator; a directory without one
\* counts none.
num_used_entries(dir) == IF Terminator(dir) = DirSize THEN 0 ELSE Terminator(dir)
FreeSlots(dir) ==
    {i \in Slots : \/ i < Terminator(dir) /\ dir[i].name = Deleted
                   \/ i = Terminator(dir)}

\* Mutant of Before: the comparison only puts the deleted entries last.
BeforeDeletedLast(e, f) == e.name # Deleted /\ f.name = Deleted

\* StartingBlockCmp is negative: files go by starting block, deleted entries
\* behind them.
Before(e, f) == e.name # Deleted /\ (f.name = Deleted \/ e.start < f.start)

\* What qsort may leave of the entries create() counts: any order that is not
\* against the comparison, which does not settle that of the deleted ones.
Sorted(dir) ==
    LET used == num_used_entries(dir)
        orders == {p \in Bijection(1..used, 0..(used - 1)) :
                      \A i, j \in 1..used : i < j => ~Before(dir[p[j]], dir[p[i]])}
    IN {[i \in 1..used |-> dir[p[i]]] : p \in orders}

\* The gap from `from` to `to` is an unsigned difference: a negative one is huge.
Fits(from, to, requested) == to < from \/ to - from >= requested

\* The first gap that fits, from the end of one entry (whatever it is) to the
\* start of the next file, or to the last block at a deleted entry or the end.
\* 0: none fits.
NewFileStart(sorted, requested) ==
    LET n == Len(sorted)
        PrevEnd(i) == IF i = 1 THEN 1 ELSE sorted[i - 1].start + sorted[i - 1].reserved
        ThisStart(i) == IF i = n + 1 \/ sorted[IF i > n THEN 1 ELSE i].name = Deleted
                        THEN LastBlock ELSE sorted[i].start
        fits == {i \in 1..(n + 1) : Fits(PrevEnd(i), ThisStart(i), requested)}
    IN IF fits = {} THEN 0 ELSE PrevEnd(Min(fits))

\* The files that are there keep to themselves and to the data blocks.
Disjoint(dir) ==
    /\ \A i \in Live(dir) : Blocks(dir[i]) \subseteq 1..(LastBlock - 1)
    /\ \A i, j \in Live(dir) : i # j => Blocks(dir[i]) \cap Blocks(dir[j]) = {}

----------------------------------------------------------------------------
(* The size argument of initialize: a sequence of digits 0..Radix - 1 and    *)
(* of units, Radix + i for the i-th of K, M, G, T and P; any other character *)
(* is a larger number.                                                       *)

Digits == 0..(Radix - 1)
Refused == -1

\* Digits are taken one by one; a product that is not larger is an overflow.
TakeDigit(size, n) ==
    IF size = Refused THEN Refused
    ELSE IF (size * Radix) % Modulus > size THEN (((size * Radix) % Modulus) + n) % Modulus
    ELSE IF size = 0 THEN n ELSE Refused

\* Mutant of Scale: each unit multiplies once less.
ScaleOnce(size) == IF size % Kilo = 0 THEN size ELSE (size * Kilo) % Modulus

Scale(size) ==
    IF size # Refused /\ (size * Kilo) % Modulus > size THEN (size * Kilo) % Modulus ELSE Refused

Factor(s) == IF s # <<>> /\ s[Len(s)] \in Radix + 1..Radix + 5 THEN s[Len(s)] - Radix ELSE 0
Number(s) == SubSeq(s, 1, Len(s) - IF Factor(s) = 0 THEN 0 ELSE 1)
WellFormed(s) == ToSet(Number(s)) \subseteq Digits /\ (s # <<>> => s[1] \in Digits)

ReadDigits(digits) ==
    LET size[n \in 0..Len(digits)] == IF n = 0 THEN 0 ELSE TakeDigit(size[n - 1], digits[n])
    IN  size[Len(digits)]

Scaled(number, k) ==
    LET size[n \in 0..k] == IF n = 0 THEN number ELSE Scale(size[n - 1])
    IN  IF number <= 0 THEN number ELSE size[k]

ParseSize(s) ==
    LET size == Scaled(ReadDigits(Number(s)), Factor(s))
    IN IF WellFormed(s) /\ size >= minimumDiskSize THEN size ELSE Refused

\* What the argument means, without a limit.
Meaning(s) ==
    LET number[n \in 0..Len(Number(s))] == IF n = 0 THEN 0 ELSE number[n - 1] * Radix + Number(s)[n]
        size[n \in 0..Factor(s)] == IF n = 0 THEN number[Len(Number(s))] ELSE size[n - 1] * Kilo
    IN size[Factor(s)]

SizeArguments == {[size |-> ParseSize(s), meaning |-> IF WellFormed(s) THEN Meaning(s) ELSE 0] :
                     s \in {t \in SizeStrings : ParseSize(t) # Refused}}

----------------------------------------------------------------------------
(* Commands on a BMFS image.                                               *)

Ready == job.pc = "idle" /\ image.blocks > 0

\* Bound: once files share blocks, or the directory is not the tool's own, only
\* format and initialize are explored.
OnBmfs == Ready /\ image.tag /\ sound

\* No file of dir is lost in dir2.
NoneLost(dir, dir2) == \A i \in Live(dir) : Find(dir2, dir[i].name) # {}

\* Mutant of Create: the entry keeps the size of the file it had before.
CreateKeepSize(f, mib) ==
    LET requested == (mib + 1) \div 2
        used == num_used_entries(image.dir)
        slot == Min(FreeSlots(image.dir))
    IN
    /\ OnBmfs /\ Find(image.dir, f) = {} /\ FreeSlots(image.dir) # {}
    /\ \E s \in Sorted(image.dir) :
          LET start == NewFileStart(s, requested)
              added == [image.dir EXCEPT ![slot] = Entry(f, start, requested, @.size)]
              marked == IF slot = used /\ used + 1 < DirSize
                        THEN [added EXCEPT ![used + 1].name = End] ELSE added
          IN /\ start # 0
             /\ image' = [image EXCEPT !.dir = marked]
             /\ sound' = (sound /\ Disjoint(marked) /\ NoneLost(image.dir, marked))
             /\ wrote' = [wrote EXCEPT ![f] = Written(0, End)]
    /\ UNCHANGED job

\* `create`: the size in MiB is rounded up to whole blocks.
Create(f, mib) ==
    LET requested == (mib + 1) \div 2
        used == num_used_entries(image.dir)
        slot == Min(FreeSlots(image.dir))
    IN
    /\ OnBmfs /\ Find(image.dir, f) = {} /\ FreeSlots(image.dir) # {}
    /\ \E s \in Sorted(image.dir) :
          LET start == NewFileStart(s, requested)
              added == [image.dir EXCEPT ![slot] = Entry(f, start, requested, 0)]
              marked == IF slot = used /\ used + 1 < DirSize
                        THEN [added EXCEPT ![used + 1].name = End] ELSE added
          IN /\ start # 0
             /\ image' = [image EXCEPT !.dir = marked]
             /\ sound' = (sound /\ Disjoint(marked) /\ NoneLost(image.dir, marked))
             /\ wrote' = [wrote EXCEPT ![f] = Written(0, End)]
    /\ UNCHANGED job

Forget(files) ==
    [b \in DOMAIN image.data |-> IF image.data[b] \in files \X Contents THEN End ELSE image.data[b]]

\* `delete` marks the name of the entry.
Delete(f) ==
    /\ OnBmfs
    /\ \E slot \in Find(image.dir, f) :
          image' = [image EXCEPT !.dir[slot].name = Deleted, !.data = Forget({f})]
    /\ wrote' = [wrote EXCEPT ![f] = NoFile]
    /\ UNCHANGED <<job, sound>>

\* `read` changes nothing: what it copies to the local file, the file's size
\* from its first block on.
Read(f) ==
    LET e == image.dir[CHOOSE slot \in Find(image.dir, f) : TRUE]
    IN [i \in 1..e.size |-> LET b == e.start + i - 1
                            IN IF b \in DOMAIN image.data THEN image.data[b] ELSE End]

\* `write`, when the local file of `len` blocks fits the reserved ones, copies
\* its content over what they hold; the process may be killed after n < len
\* blocks...
Write(f) ==
    /\ OnBmfs
    /\ \E slot \in Find(image.dir, f) :
          LET e == image.dir[slot]
          IN \E len \in 0..e.reserved, what \in Contents : \E n \in 0..len :
             /\ image' = [image EXCEPT !.data = [b \in DOMAIN @ |->
                             IF b \in e.start..(e.start + n - 1) THEN <<f, what>> ELSE @[b]]]
             /\ job' = IF n = len THEN [pc |-> "write", slot |-> slot, file |-> f, len |-> len, what |-> what]
                       ELSE Idle
             /\ wrote' = IF n = 0 THEN wrote ELSE [wrote EXCEPT ![f].torn = TRUE]
    /\ UNCHANGED sound

\* ... and then the directory with the new size.
WriteDirectory ==
    /\ job.pc = "write"
    /\ image' = [image EXCEPT !.dir[job.slot].size = job.len]
    /\ wrote' = [wrote EXCEPT ![job.file] = Written(job.len, job.what)]
    /\ job' = Idle
    /\ UNCHANGED sound

----------------------------------------------------------------------------
(* Making an image.  job.err is the error indicator of the image's stream, *)
(* job.missed what has failed in a call whose result the code ignores: the *)
(* end of the zeros ("fill"), marker, directory or MBR ("write"), a file   *)
(* that is read ("read"), the last write of all ("close").                 *)

\* `format`, at once on an image that has no marker, with /FORCE on one that
\* has: the marker goes first, the directory after it.
Format(force) ==
    /\ Ready /\ (~image.tag \/ force)
    /\ job' = [pc |-> "marker", next |-> "idle", err |-> FALSE, missed |-> {}]
    /\ UNCHANGED <<image, sound, wrote>>

\* A write that stays in the stream's buffer until a seek, and fails there.
Unseen(next) == job' = [job EXCEPT !.pc = next, !.err = TRUE, !.missed = @ \cup {"write"}]

FormatMarker ==
    /\ job.pc = "marker"
    /\ \/ image' = [image EXCEPT !.tag = TRUE] /\ job' = [job EXCEPT !.pc = "format"]
       \/ Unseen("format") /\ UNCHANGED image
    /\ UNCHANGED <<sound, wrote>>

FormatDirectory ==
    /\ job.pc = "format"
    /\ \/ /\ image' = [image EXCEPT !.dir = Zeroed, !.data = Forget(Names)]
          /\ sound' = TRUE
          /\ wrote' = NoFiles
          /\ job' = IF job.next = "idle" THEN Idle ELSE [job EXCEPT !.pc = job.next]
       \/ /\ IF job.next = "idle" THEN job' = Idle ELSE Unseen(job.next)
          /\ UNCHANGED <<image, sound, wrote>>

Parts == {"mbr", "boot", "kernel"}

\* `initialize` refuses a bad size and files it cannot open before it opens, and
\* so truncates, the image; `files` are the system files it is given.  Bound:
\* the image, which may be anything, holds no files.
Initialize ==
    /\ job.pc = "idle" /\ image.dir = Zeroed
    /\ image' = [blocks |-> 0, tag |-> FALSE, dir |-> Zeroed,
                 data |-> [b \in 1..(HostBlocks - 1) |-> End]]
    /\ \E z \in SizeArguments, files \in {{}, {"mbr"}, {"mbr", "boot"}, Parts} :
          job' = [pc |-> "fill", size |-> z.size \div BlockBytes, files |-> files, next |-> "mbr",
                  ret |-> 0, err |-> FALSE, missed |-> {}, sys |-> {}, asked |-> z.meaning]
    /\ sound' = TRUE
    /\ wrote' = NoFiles

\* Zeros fill the image, while the host has room; the rest of the last chunk
\* waits in the stream's buffer until rewind, which forgets that it failed...
FillBlock ==
    /\ job.pc = "fill" /\ image.blocks < job.size
    /\ \/ /\ image.blocks < HostBlocks
          /\ image' = [image EXCEPT !.blocks = @ + 1]
          /\ UNCHANGED job
       \/ /\ image.blocks >= HostBlocks
          /\ job' = [job EXCEPT !.pc = "close", !.ret = 1, !.err = TRUE]
          /\ UNCHANGED image
       \/ /\ image.blocks = HostBlocks /\ job.size = HostBlocks + 1
          /\ job' = [job EXCEPT !.pc = "marker", !.missed = {"fill"}]
          /\ UNCHANGED image
    /\ UNCHANGED <<sound, wrote>>

\* ... then it is formatted.
Filled ==
    /\ job.pc = "fill" /\ image.blocks = job.size
    /\ job' = [job EXCEPT !.pc = "marker"]
    /\ UNCHANGED <<image, sound, wrote>>

After == [mbr |-> "boot", boot |-> "kernel", kernel |-> "close"]

\* What the loop over a system file returns: ferror is asked of the image's
\* stream, so that earlier failures show here, but not one of the file's.
Ferror(part) == IF part # "mbr" /\ job.err THEN 1 ELSE job.ret

\* Mutant of WritePart: the result of the next file replaces an error.
WritePartForget(part) ==
    /\ job.pc = part
    /\ IF part \notin job.files
       THEN job' = [job EXCEPT !.pc = After[part]]
       ELSE \/ job' = [job EXCEPT !.pc = After[part], !.sys = @ \cup {part}, !.ret = 0]
            \/ job' = [job EXCEPT !.pc = After[part], !.ret = 1]
    /\ UNCHANGED <<image, sound, wrote>>

\* One system file after the other, while there is no error: it is written, a
\* write or the read of the MBR fails, the read of another file fails unseen, or
\* the MBR stays in the buffer until the seek to the loader fails.
WritePart(part) ==
    /\ job.pc = part
    /\ IF part \notin job.files \/ job.ret # 0
       THEN job' = [job EXCEPT !.pc = After[part]]
       ELSE \/ job' = [job EXCEPT !.pc = After[part], !.sys = @ \cup {part}, !.ret = Ferror(part)]
            \/ job' = [job EXCEPT !.pc = After[part], !.ret = 1]
            \/ /\ part # "mbr"
               /\ job' = [job EXCEPT !.pc = After[part], !.missed = @ \cup {"read"}, !.ret = Ferror(part)]
            \/ part = "mbr" /\ "boot" \in job.files /\ Unseen(After[part])
    /\ UNCHANGED <<image, sound, wrote>>

\* The end of the last part is in the buffer when fclose is called.
InBuffer(part) ==
    /\ part \in job.sys
    /\ part = "mbr" => "boot" \notin job.files
    /\ part = "boot" => "kernel" \notin job.sys

Close ==
    /\ job.pc = "close"
    /\ \/ job' = [job EXCEPT !.pc = "exit"]
       \/ \E part \in Parts :
             /\ InBuffer(part)
             /\ job' = [job EXCEPT !.pc = "exit", !.sys = @ \ {part}, !.missed = @ \cup {"close"}]
    /\ UNCHANGED <<image, sound, wrote>>

\* initialize returns ret.
Exit ==
    /\ job.pc = "exit"
    /\ job' = Idle
    /\ UNCHANGED <<image, sound, wrote>>

\* The process is killed between two writes.
Killed ==
    /\ job.pc # "idle"
    /\ job' = Idle
    /\ UNCHANGED <<image, sound, wrote>>

----------------------------------------------------------------------------
(* A raw image of the host, or none.                                       *)

Init ==
    /\ image \in [blocks : {0, 1, HostBlocks}, tag : {FALSE}, dir : {Zeroed},
                  data : {[b \in 1..(HostBlocks - 1) |-> End]}]
    /\ job = Idle /\ sound = FALSE
    /\ wrote = NoFiles

Next ==
    \/ \E f \in Names, m \in 1..MaxMiB : Create(f, m)
    \/ \E f \in Names : Delete(f) \/ Write(f)
    \/ WriteDirectory
    \/ \E force \in BOOLEAN : Format(force)
    \/ FormatMarker \/ FormatDirectory
    \/ Initialize
    \/ FillBlock \/ Filled
    \/ \E p \in Parts : WritePart(p)
    \/ Close \/ Exit \/ Killed

Spec == Init /\ [][Next]_vars

----------------------------------------------------------------------------
(* Properties                                                              *)

\* A file is created in blocks no other file holds, and no other is lost,
\* whatever was created and deleted before, when no deleted entry is left in the
\* directory and the disk has room for data at all (create: the sorted copy and
\* the first gap).
CreatesInFreeBlocks ==
    [][ (/\ sound /\ num_blocks >= 3
         /\ \A i \in Slots : i < Terminator(image.dir) => image.dir[i].name # Deleted)
        => sound' ]_vars

\* The files in the directory are those created and not deleted since.  `read`
\* gives as many blocks as the last finished `write` of the file put there, with
\* its content; once a later write was killed halfway, which copies over the old
\* data in place, each block is of one or the other write of that file, and
\* never the data of a file that had the entry or the blocks before (the order
\* of data and directory, and create's FileSize = 0).
ReadsWhatWasWritten ==
    OnBmfs => \A f \in Names :
        /\ wrote[f].there <=> Find(image.dir, f) # {}
        /\ wrote[f].there =>
               /\ Len(Read(f)) = wrote[f].len
               /\ \A i \in 1..wrote[f].len :
                      IF wrote[f].torn THEN Read(f)[i] \in {f} \X Contents
                                       ELSE Read(f)[i] = <<f, wrote[f].what>>

\* initialize ends with success only if the image has its marker and holds
\* every system file it was given, through all the writes it does not check:
\* ferror(disk) behind the loader finds a failure of the format or the MBR.  A
\* success still hides a failed marker when no loader is given, a loader or
\* kernel that could not be read, and a failure that fclose alone reports.
SuccessMeansComplete ==
    job.pc = "exit" /\ job.ret = 0 =>
        /\ image.tag \/ ("write" \in job.missed /\ "boot" \notin job.files)
        /\ job.sys = job.files \/ job.missed \cap {"read", "close"} # {}

\* An image that initialize makes has the size that was asked for, when that is
\* a number of 64 bits and the end of the zeros did not fail unseen (the digits,
\* the unit and the tests for overflow).
SizeIsWhatWasAsked ==
    job.pc = "exit" /\ job.ret = 0 /\ job.asked < Modulus /\ "fill" \notin job.missed
        => image.blocks = job.asked \div BlockBytes

\* BareMetal File System.md: "As all files are contiguous we can extract the
\* location of free blocks by comparing against the blocks that are currently
\* in use": no two files ever share a block.  The code takes the end of a
\* deleted entry for the end of the previous file.
FilesNeverShareBlocks ==
    job.pc = "idle" /\ image.tag /\ num_blocks >= 3 => Disjoint(image.dir)
=============================================================================
