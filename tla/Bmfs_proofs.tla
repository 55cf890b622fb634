---------------------------- MODULE Bmfs_proofs -----------------------------
(***************************************************************************)
(* The disk image tool, for every directory, image, set of names and of    *)
(* contents: a file is read as it was last written, a file is created      *)
(* where none is, and what a success of initialize tells of the image and  *)
(* its size, with a process killed between any two writes and with writes  *)
(* that fail unseen while an image is made.                                *)
(***************************************************************************)
EXTENDS Bmfs, SequenceTheorems, WellFoundedInduction, TLAPS

-----------------------------------------------------------------------------
(* The inductive invariant                                                 *)

DirEntry == [name : Names \cup {End, Deleted}, start : Nat, reserved : Nat, size : Nat]
Directory == [Slots -> DirEntry]
Data == [1 .. (HostBlocks - 1) -> (Names \X Contents) \cup {End}]
Report == [there : BOOLEAN, len : Nat, what : Contents \cup {End}, torn : BOOLEAN]

TypeOK ==
    /\ image \in [blocks : Nat, tag : BOOLEAN, dir : Directory, data : Data]
    /\ image.blocks <= HostBlocks \/ image.blocks = 1
    /\ sound \in BOOLEAN
    /\ wrote \in [Names -> Report]

\* As many blocks of the entry e as w reports hold data that a write of its
\* file put there, the last finished one unless another was killed halfway.
HoldsOwn(data, e, w) ==
    \A b \in e.start .. (e.start + w.len - 1) :
        data[b] \in {e.name} \X Contents /\ (~w.torn => data[b] = <<e.name, w.what>>)

\* Disjoint, of an image of n blocks.
Apart(dir, n) ==
    /\ \A i \in Live(dir) : Blocks(dir[i]) \subseteq 1 .. (n - 2)
    /\ \A i, j \in Live(dir) : i # j => Blocks(dir[i]) \cap Blocks(dir[j]) = {}

\* Every file has room, the size that its last finished write gave it and, in
\* as many blocks, its own data.
Kept(dir, data, reports) ==
    \A i \in Live(dir) :
        /\ reports[dir[i].name].there
        /\ dir[i].reserved > 0 /\ dir[i].size <= dir[i].reserved
        /\ dir[i].size = reports[dir[i].name].len
        /\ HoldsOwn(data, dir[i], reports[dir[i].name])

\* Every file that was created and not deleted is in the directory.
AllThere(dir, reports) == \A f \in Names : reports[f].there => Find(dir, f) # {}

Distinct(dir) == \A i, j \in Live(dir) : dir[i].name = dir[j].name => i = j

FilesInv ==
    /\ Kept(image.dir, image.data, wrote)
    /\ AllThere(image.dir, wrote)
    /\ Distinct(image.dir)
    /\ Apart(image.dir, image.blocks)

\* A write that has not reached the directory yet has written its data.
WriteInv ==
    job.pc = "write" =>
        /\ sound /\ job.slot \in Live(image.dir) /\ job.file = image.dir[job.slot].name
        /\ job.len \in 0 .. image.dir[job.slot].reserved /\ job.what \in Contents
        /\ HoldsOwn(image.data, image.dir[job.slot], Written(job.len, job.what))

\* The system files that initialize has come past.
Passed == [fill |-> {}, marker |-> {}, format |-> {}, mbr |-> {}, boot |-> {"mbr"},
           kernel |-> {"mbr", "boot"}, close |-> Parts, exit |-> Parts]

\* The format command, and initialize, as they go through their steps.
Formatting == job \in [pc : {"marker", "format"}, next : {"idle"}, err : BOOLEAN, missed : SUBSET {"write"}]
Making ==
    job \in [pc : DOMAIN Passed, size : {job.size}, files : SUBSET Parts, next : {"mbr"},
             ret : {0, 1}, err : BOOLEAN, missed : SUBSET {"fill", "write", "read", "close"},
             sys : SUBSET Parts, asked : {job.asked}]

\* While the result is success: nothing is in the stream's error indicator at
\* first, and no failure is behind a loader that was written.  The marker is
\* there, unless its write failed and the indicator tells; the system files
\* passed are, unless a read or the last write failed, or the indicator will
\* tell behind the loader.
MakeInv ==
    job.pc \in DOMAIN Passed =>
        \/ Formatting
        \/ /\ Making
           /\ job.pc \in {"fill", "marker"} => job.ret = 0 /\ ~job.err /\ job.sys = {}
           /\ job.ret = 0 =>
                 /\ job.pc \in {"kernel", "close", "exit"} /\ "boot" \in job.files => ~job.err
                 /\ job.pc \notin {"fill", "marker"} => image.tag \/ (job.err /\ "write" \in job.missed)
                 /\ \/ job.sys = job.files \cap Passed[job.pc]
                    \/ job.missed \cap {"read", "close"} # {}
                    \/ "boot" \in job.files /\ job.err

JobInv == job.pc \in {"idle", "write"} \cup DOMAIN Passed /\ WriteInv /\ MakeInv

IInv == TypeOK /\ (sound => FilesInv) /\ JobInv

-----------------------------------------------------------------------------
(* The directory                                                           *)

LEMMA LeastNatural ==
    ASSUME NEW S \in SUBSET Nat, S # {}
    PROVE  Min(S) \in S /\ \A n \in S : Min(S) <= n
<1>1. PICK m \in S : \A n \in S : <<n, m>> \notin OpToRel(<, Nat)
  BY NatLessThanWellFounded, WFMin
<1>2. \A n \in S : m <= n
  <2> SUFFICES ASSUME NEW n \in S PROVE m <= n
    OBVIOUS
  <2>1. n \in Nat /\ m \in Nat /\ <<n, m>> \in Nat \X Nat
    OBVIOUS
  <2>2. ~(n < m)
    BY <1>1, <2>1 DEF OpToRel
  <2> QED
    BY <2>1, <2>2
<1> QED
  BY <1>2 DEF Min

\* The first end mark, and none before it.
LEMMA TerminatorValue ==
    ASSUME NEW dir \in Directory
    PROVE  /\ Terminator(dir) \in 0 .. DirSize
           /\ Terminator(dir) < DirSize => dir[Terminator(dir)].name = End
           /\ \A i \in Slots : dir[i].name = End => Terminator(dir) <= i
<1> DEFINE ends == {i \in Slots : dir[i].name = End}
<1>1. ends \in SUBSET Nat
  BY DEF Slots
<1>2. CASE ends = {}
  BY <1>2, BmfsAssumption DEF Terminator, Slots
<1>3. CASE ends # {}
  <2>1. Terminator(dir) = Min(ends)
    BY <1>3 DEF Terminator
  <2>2. Min(ends) \in ends /\ \A i \in ends : Min(ends) <= i
    BY <1>1, <1>3, LeastNatural
  <2> HIDE DEF ends
  <2>3. Terminator(dir) \in ends /\ \A i \in ends : Terminator(dir) <= i
    BY <2>1, <2>2
  <2> QED
    BY <2>3, BmfsAssumption DEF ends, Slots
<1> QED
  BY <1>2, <1>3

\* What is live is a file.
LEMMA LiveValue ==
    ASSUME NEW dir \in Directory, NEW i \in Live(dir)
    PROVE  /\ i \in Slots /\ dir[i] \in DirEntry /\ dir[i].name \in Names
           /\ i < Terminator(dir)
<1>1. i \in Slots /\ i < Terminator(dir) /\ dir[i].name # Deleted
  BY DEF Live
<1>2. dir[i].name # End
  BY <1>1, TerminatorValue DEF Slots
<1>3. dir[i] \in DirEntry
  BY <1>1 DEF Directory
<1> QED
  BY <1>1, <1>2, <1>3 DEF DirEntry

LEMMA ApartIsDisjoint ==
    ASSUME TypeOK, NEW dir
    PROVE  Disjoint(dir) <=> Apart(dir, image.blocks)
<1>1. LastBlock - 1 = image.blocks - 2
  BY DEF TypeOK, LastBlock, num_blocks
<1> QED
  BY <1>1 DEF Disjoint, Apart

\* The blocks of a file are cells of the data.
LEMMA BlocksAreData ==
    ASSUME TypeOK, FilesInv, NEW i \in Live(image.dir), NEW b \in Blocks(image.dir[i])
    PROVE  b \in 1 .. (HostBlocks - 1)
<1>1. b \in 1 .. (image.blocks - 2)
  BY DEF FilesInv, Apart
<1> QED
  BY <1>1, BmfsAssumption DEF TypeOK

-----------------------------------------------------------------------------
(* create                                                                  *)

\* The entry create() fills is one no file has, ...
LEMMA FreeSlot ==
    ASSUME NEW dir \in Directory, FreeSlots(dir) # {}, NEW slot, slot = Min(FreeSlots(dir))
    PROVE  /\ slot \in FreeSlots(dir) /\ slot \in Slots /\ slot \notin Live(dir)
           /\ \A i \in FreeSlots(dir) : slot <= i
<1>1. FreeSlots(dir) \in SUBSET Nat /\ FreeSlots(dir) \subseteq Slots
  BY DEF FreeSlots, Slots
<1>2. slot \in FreeSlots(dir) /\ \A i \in FreeSlots(dir) : slot <= i
  BY <1>1, LeastNatural
<1>3. Terminator(dir) \in Int
  BY TerminatorValue
<1>4. slot \notin Live(dir)
  BY <1>2, <1>3 DEF FreeSlots, Live
<1> QED
  BY <1>1, <1>2, <1>4

\* ... and no file appears but the new one.
Marked(dir, e) ==
    LET slot == Min(FreeSlots(dir))
        used == num_used_entries(dir)
        added == [dir EXCEPT ![slot] = e]
    IN  IF slot = used /\ used + 1 < DirSize
        THEN [added EXCEPT ![used + 1].name = End] ELSE added

NoneDeleted(dir) == \A i \in Slots : i < Terminator(dir) => dir[i].name # Deleted

\* dir2 is dir with the new file f in slot.
NewFile(dir, dir2, slot, f) ==
    /\ slot \in Slots /\ slot \notin Live(dir)
    /\ dir2[slot] \in DirEntry /\ dir2[slot].name = f
    /\ dir2[slot].size = 0 /\ dir2[slot].reserved > 0
    /\ \A i \in Live(dir2) : i # slot => i \in Live(dir) /\ dir2[i] = dir[i]

LEMMA MarkedEntry ==
    ASSUME NEW dir \in Directory, FreeSlots(dir) # {}, NEW e \in DirEntry, e.size = 0, e.reserved > 0
    PROVE  /\ Marked(dir, e) \in Directory /\ Marked(dir, e)[Min(FreeSlots(dir))] = e
           /\ NewFile(dir, Marked(dir, e), Min(FreeSlots(dir)), e.name)
           /\ e.name \in Names => Min(FreeSlots(dir)) \in Live(Marked(dir, e))
           /\ e.name \in Names /\ NoneDeleted(dir) => NoneLost(dir, Marked(dir, e))
<1>0. PICK slot, used, added, marked :
         /\ slot = Min(FreeSlots(dir)) /\ used = num_used_entries(dir)
         /\ added = [dir EXCEPT ![slot] = e]
         /\ marked = IF slot = used /\ used + 1 < DirSize
                     THEN [added EXCEPT ![used + 1].name = End] ELSE added
  OBVIOUS
<1>1. /\ slot \in FreeSlots(dir) /\ slot \in Slots /\ slot \notin Live(dir)
  BY <1>0, FreeSlot
<1>2. added \in Directory /\ added[slot] = e /\ \A i \in Slots : i # slot => added[i] = dir[i]
  BY <1>0, <1>1 DEF Directory
<1>3. DirSize \in Nat /\ slot \in 0 .. DirSize - 1
  BY <1>1, BmfsAssumption DEF Slots
<1>4. slot = used /\ used + 1 < DirSize => used + 1 \in Slots /\ used + 1 # slot
  BY <1>3 DEF Slots
<1>5. /\ marked \in Directory /\ marked[slot] = e
      /\ \A i \in Slots : i # slot => \/ marked[i] = dir[i]
                                      \/ i = used + 1 /\ slot = used /\ marked[i].name = End
  BY <1>0, <1>2, <1>4 DEF Directory, DirEntry
<1>6. slot = used /\ used + 1 < DirSize => marked[used + 1].name = End
  BY <1>0, <1>2, <1>4 DEF Directory, DirEntry
<1>7. ASSUME NEW i \in Live(marked), i # slot
      PROVE  i \in Live(dir) /\ marked[i] = dir[i]
  <2>1. i \in Slots /\ i < Terminator(marked) /\ marked[i].name \in Names /\ marked[i].name # Deleted
    BY <1>5, <1>7, LiveValue DEF Live
  <2>2. marked[i] = dir[i]
    BY <1>5, <1>7, <2>1, BmfsAssumption
  <2>3. Terminator(marked) \in 0 .. DirSize /\ \A j \in Slots : marked[j].name = End => Terminator(marked) <= j
    BY <1>5, TerminatorValue
  <2>4. Terminator(dir) \in 0 .. DirSize /\ (Terminator(dir) < DirSize => dir[Terminator(dir)].name = End)
    BY TerminatorValue
  <2>5. i < Terminator(dir)
    <3>1. CASE Terminator(dir) = DirSize
      BY <2>1, <3>1, <1>3 DEF Slots
    <3>2. CASE Terminator(dir) < DirSize /\ Terminator(dir) # slot
      <4>1. Terminator(dir) \in Slots
        BY <2>4, <3>2, <1>3 DEF Slots
      <4>2. marked[Terminator(dir)].name = End
        BY <1>5, <2>4, <3>2, <4>1
      <4>3. Terminator(marked) <= Terminator(dir)
        BY <2>3, <4>1, <4>2
      <4> QED
        BY <2>1, <2>3, <2>4, <4>3 DEF Slots
    <3>3. CASE Terminator(dir) < DirSize /\ Terminator(dir) = slot
      <4>1. slot = used
        BY <1>0, <1>3, <2>4, <3>3 DEF num_used_entries
      <4>2. CASE used + 1 < DirSize
        <5>1. Terminator(marked) <= used + 1
          <6>1. used + 1 \in Slots
            BY <1>4, <4>1, <4>2
          <6>2. marked[used + 1].name = End
            BY <1>6, <4>1, <4>2
          <6> QED
            BY <2>3, <6>1, <6>2
        <5>2. i < used + 1 /\ i \in Int /\ used \in Int /\ i # used
          BY <1>3, <1>7, <2>1, <2>3, <4>1, <4>2, <5>1 DEF Slots
        <5> QED
          BY <3>3, <4>1, <5>2
      <4>3. CASE ~(used + 1 < DirSize)
        BY <1>3, <1>7, <2>1, <3>3, <4>1, <4>3 DEF Slots
      <4> QED
        BY <4>2, <4>3
    <3> QED
      BY <2>4, <3>1, <3>2, <3>3, <1>3
  <2> QED
    BY <2>1, <2>2, <2>5 DEF Live
<1>8. Marked(dir, e) = marked
  BY <1>0 DEF Marked
<1>9. ASSUME e.name \in Names
      PROVE  \A i \in Slots : i <= slot => marked[i].name # End
  <2> SUFFICES ASSUME NEW i \in Slots, i <= slot PROVE marked[i].name # End
    OBVIOUS
  <2>1. CASE i = slot
    BY <1>5, <1>9, <2>1, BmfsAssumption
  <2>2. CASE i # slot
    <3>1. slot <= Terminator(dir) /\ Terminator(dir) \in 0 .. DirSize
      BY <1>1, <1>3, TerminatorValue DEF FreeSlots
    <3>2. dir[i].name # End
      BY <1>3, <2>2, <3>1, TerminatorValue DEF Slots
    <3>3. i # used + 1 \/ slot # used
      BY <1>3 DEF Slots
    <3> QED BY <1>5, <2>2, <3>2, <3>3
  <2> QED BY <2>1, <2>2
<1>10. ASSUME e.name \in Names
       PROVE  slot < Terminator(marked)
  <2>1. /\ Terminator(marked) \in 0 .. DirSize
        /\ Terminator(marked) < DirSize => marked[Terminator(marked)].name = End
    BY <1>5, TerminatorValue
  <2>2. CASE Terminator(marked) = DirSize
    BY <1>3, <2>2
  <2>3. CASE Terminator(marked) # DirSize
    <3>1. Terminator(marked) \in Slots /\ marked[Terminator(marked)].name = End
      BY <1>3, <2>1, <2>3 DEF Slots
    <3> QED BY <1>3, <1>9, <1>10, <2>1, <3>1
  <2> QED BY <2>2, <2>3
<1>11. e.name \in Names => slot \in Live(marked)
  BY <1>1, <1>5, <1>10, BmfsAssumption DEF Live
<1>12. ASSUME e.name \in Names, NoneDeleted(dir)
       PROVE  NoneLost(dir, marked)
  <2> SUFFICES ASSUME NEW i \in Live(dir) PROVE i \in Find(marked, dir[i].name)
    BY DEF NoneLost
  <2>1. i \in Slots /\ i < Terminator(dir) /\ dir[i].name \in Names
    BY LiveValue
  <2>2. slot = Terminator(dir)
    BY <1>1, <1>12 DEF FreeSlots, NoneDeleted
  <2>3. i < slot /\ i < Terminator(marked)
    <3>1. Terminator(marked) \in 0 .. DirSize
      BY <1>5, TerminatorValue
    <3> QED BY <1>3, <1>10, <1>12, <2>1, <2>2, <3>1 DEF Slots
  <2>4. marked[i] = dir[i]
    <3>1. i # slot /\ (i # used + 1 \/ slot # used)
      BY <1>3, <2>1, <2>3 DEF Slots
    <3> QED BY <1>5, <2>1, <3>1
  <2> QED BY <2>1, <2>3, <2>4, BmfsAssumption DEF Find, Live
<1> QED
  BY <1>0, <1>1, <1>5, <1>7, <1>8, <1>11, <1>12 DEF NewFile

\* The sorted copy holds the entries that are counted.
LEMMA SortedValue ==
    ASSUME NEW dir \in Directory, NEW s \in Sorted(dir), NEW used, used = num_used_entries(dir)
    PROVE  /\ used \in Nat /\ used \in 0 .. DirSize /\ used <= Terminator(dir)
           /\ s \in Seq(DirEntry) /\ Len(s) = used
           /\ \A i \in 1 .. used : \E j \in 0 .. used - 1 : s[i] = dir[j]
           /\ \A j \in 0 .. used - 1 : \E i \in 1 .. used : s[i] = dir[j]
<1>1. used \in 0 .. DirSize /\ used <= Terminator(dir)
  BY TerminatorValue, BmfsAssumption DEF num_used_entries
<1>2. 0 .. used - 1 \subseteq Slots
  BY <1>1, BmfsAssumption DEF Slots
<1>3. PICK p \in Bijection(1 .. used, 0 .. used - 1) : s = [i \in 1 .. used |-> dir[p[i]]]
  BY DEF Sorted
<1>4. p \in [1 .. used -> 0 .. used - 1] /\ \A j \in 0 .. used - 1 : \E i \in 1 .. used : p[i] = j
  BY <1>3 DEF Bijection, Injection, Surjection
<1>5. s \in [1 .. used -> DirEntry]
  BY <1>2, <1>3, <1>4 DEF Directory
<1>6. used \in Nat
  BY <1>1
<1>7. s \in Seq(DirEntry) /\ Len(s) = used
  BY <1>5, <1>6
<1> QED
  BY <1>1, <1>3, <1>4, <1>6, <1>7

LEMMA NewFileStartType ==
    ASSUME NEW s \in Seq(DirEntry), NEW requested
    PROVE  NewFileStart(s, requested) \in Nat
<1> DEFINE n == Len(s)
           PrevEnd(i) == IF i = 1 THEN 1 ELSE s[i - 1].start + s[i - 1].reserved
           ThisStart(i) == IF i = n + 1 \/ s[IF i > n THEN 1 ELSE i].name = Deleted
                           THEN LastBlock ELSE s[i].start
           fits == {i \in 1 .. (n + 1) : Fits(PrevEnd(i), ThisStart(i), requested)}
<1>1. n \in Nat
  OBVIOUS
<1>2. ASSUME fits # {} PROVE PrevEnd(Min(fits)) \in Nat
  <2>1. fits \in SUBSET Nat /\ fits \subseteq 1 .. n + 1
    BY <1>1
  <2>2. Min(fits) \in 1 .. n + 1
    <3> HIDE DEF fits
    <3> QED
      BY <1>2, <2>1, LeastNatural
  <2>3. \A i \in 1 .. n + 1 : PrevEnd(i) \in Nat
    <3> SUFFICES ASSUME NEW i \in 1 .. n + 1 PROVE PrevEnd(i) \in Nat
      OBVIOUS
    <3>1. CASE i = 1
      BY <3>1
    <3>2. CASE i # 1
      <4>1. i - 1 \in 1 .. n
        BY <1>1, <3>2
      <4>2. s[i - 1] \in DirEntry
        BY <4>1
      <4> QED
        BY <3>2, <4>2 DEF DirEntry
    <3> QED
      BY <3>1, <3>2
  <2> HIDE DEF PrevEnd, fits
  <2> QED
    BY <2>2, <2>3
<1>3. NewFileStart(s, requested) = IF fits = {} THEN 0 ELSE PrevEnd(Min(fits))
  BY DEF NewFileStart
<1> HIDE DEF fits, PrevEnd
<1> QED
  BY <1>2, <1>3

\* A file is created: the others keep what they have.
LEMMA CreatedFiles ==
    ASSUME NEW dir \in Directory, NEW dir2, NEW slot, NEW f \in Names, NewFile(dir, dir2, slot, f),
           Find(dir, f) = {}, Distinct(dir), slot \in Live(dir2),
           NEW data, NEW reports \in [Names -> Report], Kept(dir, data, reports), AllThere(dir, reports)
    PROVE  /\ Kept(dir2, data, [reports EXCEPT ![f] = Written(0, End)]) /\ Distinct(dir2)
           /\ NoneLost(dir, dir2) => AllThere(dir2, [reports EXCEPT ![f] = Written(0, End)])
<1> USE DEF NewFile
<1>1. \A i \in Live(dir) : dir[i].name # f /\ dir[i].name \in Names
  BY LiveValue DEF Find
<1>2. \A i \in Live(dir2) : i # slot => dir2[i].name # f
  BY <1>1
<1>3. Distinct(dir2)
  BY <1>2 DEF Distinct
<1>4. PICK after : after = [reports EXCEPT ![f] = Written(0, End)]
  OBVIOUS
<1>5. /\ after[f].there /\ after[f].len = 0 /\ \A g \in Names : g # f => after[g] = reports[g]
  BY <1>4 DEF Written
<1>6. ASSUME NEW i \in Live(dir2)
      PROVE  /\ after[dir2[i].name].there
             /\ dir2[i].reserved > 0 /\ dir2[i].size <= dir2[i].reserved
             /\ dir2[i].size = after[dir2[i].name].len
             /\ HoldsOwn(data, dir2[i], after[dir2[i].name])
  <2>1. CASE i = slot
    <3>1. dir2[i].name = f /\ dir2[i].size = 0 /\ dir2[i].reserved > 0 /\ dir2[i].reserved \in Nat /\ dir2[i].start \in Nat
      BY <2>1 DEF DirEntry
    <3>2. \A b \in dir2[i].start .. (dir2[i].start + 0 - 1) : FALSE
      BY <3>1
    <3> QED
      BY <1>5, <3>1, <3>2 DEF HoldsOwn
  <2>2. CASE i # slot
    BY <1>1, <1>5, <2>2 DEF Kept
  <2> QED
    BY <2>1, <2>2
<1>7. ASSUME NoneLost(dir, dir2), NEW g \in Names, after[g].there
      PROVE  Find(dir2, g) # {}
  <2>1. CASE g = f
    BY <2>1 DEF Find
  <2>2. CASE g # f
    <3>1. PICK i \in Live(dir) : dir[i].name = g
      BY <1>5, <1>7, <2>2 DEF AllThere, Find
    <3> QED BY <1>7, <3>1 DEF NoneLost
  <2> QED BY <2>1, <2>2
<1> QED
  BY <1>3, <1>4, <1>6, <1>7 DEF Kept, AllThere

LEMMA CreateStep ==
    ASSUME IInv, NEW f \in Names, NEW mib \in 1 .. MaxMiB, Create(f, mib)
    PROVE  IInv'
<1> DEFINE requested == (mib + 1) \div 2
           e(s) == Entry(f, NewFileStart(s, requested), requested, 0)
<1>1. PICK s \in Sorted(image.dir) :
         /\ image' = [image EXCEPT !.dir = Marked(image.dir, e(s))]
         /\ sound' = (sound /\ Disjoint(Marked(image.dir, e(s))) /\ NoneLost(image.dir, Marked(image.dir, e(s))))
         /\ wrote' = [wrote EXCEPT ![f] = Written(0, End)]
  BY DEF Create, Marked
<1>2. /\ TypeOK /\ sound /\ FilesInv /\ image.dir \in Directory
      /\ FreeSlots(image.dir) # {} /\ Find(image.dir, f) = {} /\ job' = job /\ job.pc = "idle"
  BY DEF IInv, TypeOK, Create, OnBmfs, Ready
<1>3. requested \in Nat /\ requested > 0
  OBVIOUS
<1>4. e(s) \in DirEntry /\ e(s).name = f /\ e(s).reserved > 0 /\ e(s).size = 0
  <2>1. s \in Seq(DirEntry)
    BY <1>2, SortedValue
  <2>2. NewFileStart(s, requested) \in Nat
    BY <2>1, NewFileStartType
  <2> QED
    BY <1>3, <2>2 DEF Entry, DirEntry
<1> HIDE DEF e, requested
<1>5. PICK d : d = Marked(image.dir, e(s))
  OBVIOUS
<1>6. d \in Directory /\ NewFile(image.dir, d, Min(FreeSlots(image.dir)), f) /\ Min(FreeSlots(image.dir)) \in Live(d)
  BY <1>2, <1>4, <1>5, MarkedEntry
<1>7. /\ image' = [image EXCEPT !.dir = d] /\ sound' = (sound /\ Disjoint(d) /\ NoneLost(image.dir, d))
      /\ wrote' = [wrote EXCEPT ![f] = Written(0, End)]
  BY <1>1, <1>5
<1>8. Kept(d, image.data, wrote') /\ Distinct(d) /\ (sound' => AllThere(d, wrote'))
  <2>1. /\ Kept(image.dir, image.data, wrote) /\ Distinct(image.dir) /\ AllThere(image.dir, wrote)
        /\ wrote \in [Names -> Report]
    BY <1>2 DEF FilesInv, TypeOK
  <2>2. /\ Kept(d, image.data, [wrote EXCEPT ![f] = Written(0, End)]) /\ Distinct(d)
        /\ NoneLost(image.dir, d) => AllThere(d, [wrote EXCEPT ![f] = Written(0, End)])
    BY <1>2, <1>6, <2>1, CreatedFiles
  <2> QED
    BY <1>7, <2>2
<1>9. TypeOK'
  <2>1. sound' \in BOOLEAN
    <3>1. Disjoint(d) \in BOOLEAN /\ NoneLost(image.dir, d) \in BOOLEAN
      BY DEF Disjoint, NoneLost
    <3> QED
      BY <1>2, <1>7, <3>1
  <2>2. wrote' \in [Names -> Report]
    BY <1>2, <1>7 DEF TypeOK, Written, Report
  <2> QED
    BY <1>2, <1>6, <1>7, <2>1, <2>2 DEF TypeOK
<1>10. sound' => FilesInv'
  <2> SUFFICES ASSUME sound' PROVE FilesInv'
    OBVIOUS
  <2>1. Apart(d, image.blocks)
    BY <1>2, <1>7, ApartIsDisjoint
  <2>2. image'.dir = d /\ image'.data = image.data /\ image'.blocks = image.blocks
    BY <1>2, <1>7 DEF TypeOK
  <2> QED
    BY <1>8, <2>1, <2>2 DEF FilesInv
<1>11. JobInv'
  BY <1>2 DEF JobInv, WriteInv, MakeInv, Passed
<1> QED
  BY <1>9, <1>10, <1>11 DEF IInv

-----------------------------------------------------------------------------
(* delete and write                                                        *)

LEMMA DeleteStep ==
    ASSUME IInv, NEW f \in Names, Delete(f)
    PROVE  IInv'
<1>1. /\ TypeOK /\ sound /\ FilesInv /\ image.dir \in Directory
      /\ job' = job /\ job.pc = "idle" /\ sound' = sound /\ wrote' = [wrote EXCEPT ![f] = NoFile]
  BY DEF IInv, TypeOK, Delete, OnBmfs, Ready
<1>2. PICK slot \in Find(image.dir, f) :
          image' = [image EXCEPT !.dir[slot].name = Deleted, !.data = Forget({f})]
  BY DEF Delete
<1>3. slot \in Live(image.dir) /\ image.dir[slot].name = f
  BY DEF Find
<1>4. PICK d : d = [image.dir EXCEPT ![slot].name = Deleted]
  OBVIOUS
<1>5. slot \in Slots /\ slot < Terminator(image.dir)
  BY <1>1, <1>3, LiveValue
<1>6. /\ d \in Directory /\ d[slot].name = Deleted
      /\ \A i \in Slots : i # slot => d[i] = image.dir[i]
  BY <1>1, <1>4, <1>5 DEF Directory, DirEntry
<1>7. ASSUME NEW i \in Live(d)
      PROVE  i \in Live(image.dir) /\ i # slot /\ d[i] = image.dir[i]
  <2>1. i \in Slots /\ i < Terminator(d) /\ d[i].name # Deleted
    BY DEF Live
  <2>2. i # slot /\ d[i] = image.dir[i]
    BY <1>6, <2>1
  <2>3. i < Terminator(image.dir)
    <3>1. Terminator(image.dir) \in 0 .. DirSize /\ Terminator(d) \in 0 .. DirSize
      BY <1>1, <1>6, TerminatorValue
    <3>2. CASE Terminator(image.dir) < DirSize
      <4>1. Terminator(image.dir) \in Slots /\ Terminator(image.dir) # slot
        BY <1>5, <3>1, <3>2, BmfsAssumption DEF Slots
      <4>2. d[Terminator(image.dir)].name = End
        BY <1>1, <1>6, <3>2, <4>1, TerminatorValue
      <4>3. Terminator(d) <= Terminator(image.dir)
        BY <1>6, <4>1, <4>2, TerminatorValue
      <4> QED
        BY <2>1, <3>1, <4>3 DEF Slots
    <3>3. CASE ~(Terminator(image.dir) < DirSize)
      BY <2>1, <3>1, <3>3, BmfsAssumption DEF Slots
    <3> QED
      BY <3>2, <3>3
  <2> QED
    BY <2>1, <2>2, <2>3 DEF Live
<1>8. PICK data : data = Forget({f})
  OBVIOUS
<1>9. /\ image.data \in Data /\ data \in Data
      /\ \A b \in 1 .. HostBlocks - 1 : image.data[b] \notin {f} \X Contents => data[b] = image.data[b]
  BY <1>1, <1>8 DEF TypeOK, Data, Forget
<1>10. image' = [image EXCEPT !.dir = d, !.data = data]
  BY <1>1, <1>2, <1>4, <1>8 DEF TypeOK
<1>11. image'.dir = d /\ image'.data = data /\ image'.blocks = image.blocks
  BY <1>1, <1>10 DEF TypeOK
<1>12. ASSUME NEW i \in Live(d)
       PROVE  /\ wrote'[d[i].name].there
              /\ d[i].reserved > 0 /\ d[i].size <= d[i].reserved
              /\ d[i].size = wrote'[d[i].name].len
              /\ HoldsOwn(data, d[i], wrote'[d[i].name])
  <2>1. i \in Live(image.dir) /\ d[i] = image.dir[i] /\ i # slot
    BY <1>7
  <2>2. image.dir[i] \in DirEntry /\ image.dir[i].name \in Names
    BY <1>1, <2>1, LiveValue
  <2>3. image.dir[i].name # f
    BY <1>1, <1>3, <2>1 DEF FilesInv, Distinct
  <2>4. wrote'[d[i].name] = wrote[d[i].name]
    BY <1>1, <2>1, <2>2, <2>3 DEF TypeOK
  <2>5. PICK w : w = wrote[d[i].name]
    OBVIOUS
  <2>6. /\ w.there /\ d[i].reserved > 0 /\ d[i].size <= d[i].reserved /\ d[i].size = w.len
        /\ HoldsOwn(image.data, d[i], w)
    BY <1>1, <2>1, <2>5 DEF FilesInv, Kept
  <2>7. ASSUME NEW b \in d[i].start .. (d[i].start + w.len - 1)
        PROVE  data[b] = image.data[b]
    <3>1. b \in Blocks(image.dir[i])
      BY <2>1, <2>2, <2>6 DEF Blocks, DirEntry
    <3>2. b \in 1 .. HostBlocks - 1
      BY <1>1, <2>1, <3>1, BlocksAreData
    <3>3. image.data[b] \in {d[i].name} \X Contents
      BY <2>6 DEF HoldsOwn
    <3>4. image.data[b] \notin {f} \X Contents
      BY <2>1, <2>3, <3>3
    <3> QED
      BY <1>9, <3>2, <3>4
  <2>8. HoldsOwn(data, d[i], w)
    BY <2>6, <2>7 DEF HoldsOwn
  <2> QED
    BY <2>4, <2>5, <2>6, <2>8
<1>13. Distinct(d) /\ Apart(d, image.blocks)
  BY <1>1, <1>7 DEF FilesInv, Distinct, Apart
<1>14. FilesInv'
  <2>1. AllThere(d, wrote')
    <3> SUFFICES ASSUME NEW g \in Names, wrote'[g].there PROVE Find(d, g) # {}
      BY DEF AllThere
    <3>1. g # f /\ wrote[g].there
      BY <1>1 DEF TypeOK, NoFile
    <3>2. PICK i \in Live(image.dir) : image.dir[i].name = g
      BY <1>1, <3>1 DEF FilesInv, AllThere, Find
    <3>3. i # slot /\ i \in Slots /\ i < Terminator(image.dir)
      BY <1>1, <1>3, <3>1, <3>2, LiveValue
    <3>4. d[i] = image.dir[i] /\ d[i].name # Deleted
      BY <1>6, <3>2, <3>3, BmfsAssumption
    <3>5. i < Terminator(d)
      <4>1. /\ Terminator(d) \in 0 .. DirSize /\ Terminator(image.dir) \in 0 .. DirSize
            /\ Terminator(d) < DirSize => d[Terminator(d)].name = End
        BY <1>1, <1>6, TerminatorValue
      <4>2. CASE Terminator(d) = DirSize
        BY <3>3, <4>2, BmfsAssumption DEF Slots
      <4>3. CASE Terminator(d) # DirSize
        <5>1. Terminator(d) \in Slots /\ d[Terminator(d)].name = End
          BY <4>1, <4>3, BmfsAssumption DEF Slots
        <5>2. Terminator(d) # slot
          BY <1>6, <5>1, BmfsAssumption
        <5>3. image.dir[Terminator(d)].name = End
          BY <1>6, <5>1, <5>2
        <5>4. Terminator(image.dir) <= Terminator(d)
          BY <1>1, <5>1, <5>3, TerminatorValue
        <5> QED BY <3>3, <4>1, <5>1, <5>4 DEF Slots
      <4> QED BY <4>2, <4>3
    <3> QED BY <3>2, <3>3, <3>4, <3>5 DEF Find, Live
  <2> QED
    BY <1>11, <1>12, <1>13, <2>1 DEF FilesInv, Kept
<1>15. TypeOK'
  <2>1. wrote' \in [Names -> Report]
    BY <1>1 DEF TypeOK, NoFile, Report
  <2> QED
    BY <1>1, <1>6, <1>9, <1>10, <2>1 DEF TypeOK
<1>16. JobInv'
  BY <1>1 DEF JobInv, WriteInv, MakeInv, Passed
<1> QED
  BY <1>14, <1>15, <1>16 DEF IInv

LEMMA WriteStep ==
    ASSUME IInv, NEW f \in Names, Write(f)
    PROVE  IInv'
<1>1. /\ TypeOK /\ sound /\ FilesInv /\ image.dir \in Directory
      /\ sound' = sound
  BY DEF IInv, TypeOK, Write, OnBmfs, Ready
<1>2. PICK slot, len, what, n :
          /\ what \in Contents
          /\ slot \in Find(image.dir, f) /\ len \in 0 .. image.dir[slot].reserved /\ n \in 0 .. len
          /\ image' = [image EXCEPT !.data = [b \in DOMAIN @ |->
                          IF b \in image.dir[slot].start .. (image.dir[slot].start + n - 1) THEN <<f, what>> ELSE @[b]]]
          /\ job' = IF n = len THEN [pc |-> "write", slot |-> slot, file |-> f, len |-> len, what |-> what] ELSE Idle
          /\ wrote' = IF n = 0 THEN wrote ELSE [wrote EXCEPT ![f].torn = TRUE]
  BY DEF Write
<1>3. slot \in Live(image.dir) /\ image.dir[slot].name = f /\ image.dir[slot] \in DirEntry
  BY <1>1, <1>2, LiveValue DEF Find
<1>4. PICK e : e = image.dir[slot]
  OBVIOUS
<1>5. PICK data : data = [b \in DOMAIN image.data |->
                             IF b \in e.start .. (e.start + n - 1) THEN <<f, what>> ELSE image.data[b]]
  OBVIOUS
<1>6. /\ image.data \in Data /\ data \in Data
      /\ \A b \in 1 .. HostBlocks - 1 :
            data[b] = IF b \in e.start .. (e.start + n - 1) THEN <<f, what>> ELSE image.data[b]
  BY <1>1, <1>2, <1>5 DEF TypeOK, Data
<1>7. image' = [image EXCEPT !.data = data]
  BY <1>1, <1>2, <1>4, <1>5 DEF TypeOK
<1>8. image'.dir = image.dir /\ image'.data = data /\ image'.blocks = image.blocks
  BY <1>1, <1>7 DEF TypeOK
<1>9. e.start \in Nat /\ e.reserved \in Nat /\ len \in 0 .. e.reserved /\ n \in 0 .. len /\ len \in Nat
  BY <1>2, <1>3, <1>4 DEF DirEntry
<1>10. ASSUME NEW i \in Live(image.dir), NEW b \in Blocks(image.dir[i])
       PROVE  data[b] = IF i = slot /\ b \in e.start .. (e.start + n - 1) THEN <<f, what>> ELSE image.data[b]
  <2>1. b \in 1 .. HostBlocks - 1
    BY <1>1, BlocksAreData
  <2>2. CASE i = slot
    BY <1>6, <2>1, <2>2
  <2>3. CASE i # slot
    <3>1. b \notin Blocks(e)
      BY <1>1, <1>3, <1>4, <2>3 DEF FilesInv, Apart
    <3>2. b \notin e.start .. e.start + n - 1
      BY <1>9, <3>1 DEF Blocks
    <3> QED
      BY <1>6, <2>1, <2>3, <3>2
  <2> QED
    BY <2>2, <2>3
<1>11. /\ wrote' \in [Names -> Report]
       /\ \A g \in Names : /\ wrote'[g].there = wrote[g].there /\ wrote'[g].len = wrote[g].len
                            /\ wrote'[g].what = wrote[g].what
                            /\ wrote'[g].torn = IF g = f /\ n # 0 THEN TRUE ELSE wrote[g].torn
  BY <1>1, <1>2 DEF TypeOK, Report
<1>12. Kept(image.dir, data, wrote')
  <2> SUFFICES ASSUME NEW i \in Live(image.dir)
               PROVE  /\ wrote'[image.dir[i].name].there
                      /\ image.dir[i].size = wrote'[image.dir[i].name].len
                      /\ HoldsOwn(data, image.dir[i], wrote'[image.dir[i].name])
    BY <1>1 DEF FilesInv, Kept
  <2>1. image.dir[i] \in DirEntry /\ image.dir[i].name \in Names
    BY <1>1, LiveValue
  <2>2. PICK w, w2 : w = wrote[image.dir[i].name] /\ w2 = wrote'[image.dir[i].name]
    OBVIOUS
  <2>3. /\ w.there /\ image.dir[i].size = w.len /\ w.len <= image.dir[i].reserved
        /\ HoldsOwn(image.data, image.dir[i], w)
    BY <1>1, <2>2 DEF FilesInv, Kept
  <2>4. /\ w2.there = w.there /\ w2.len = w.len /\ w2.what = w.what
        /\ w2.torn = IF image.dir[i].name = f /\ n # 0 THEN TRUE ELSE w.torn
    BY <1>11, <2>1, <2>2
  <2>5. ASSUME NEW b \in image.dir[i].start .. (image.dir[i].start + w.len - 1)
        PROVE  /\ data[b] \in {image.dir[i].name} \X Contents
               /\ ~w2.torn => data[b] = <<image.dir[i].name, w2.what>>
    <3>1. b \in Blocks(image.dir[i])
      BY <2>1, <2>3 DEF Blocks, DirEntry
    <3>2. /\ image.data[b] \in {image.dir[i].name} \X Contents
          /\ ~w.torn => image.data[b] = <<image.dir[i].name, w.what>>
      BY <2>3 DEF HoldsOwn
    <3>3. CASE i = slot /\ b \in e.start .. (e.start + n - 1)
      <4>1. data[b] = <<f, what>> /\ image.dir[i].name = f
        BY <1>3, <1>10, <3>1, <3>3
      <4>2. n # 0
        BY <1>9, <3>3
      <4> QED BY <1>2, <2>4, <4>1, <4>2
    <3>4. CASE ~(i = slot /\ b \in e.start .. (e.start + n - 1))
      <4>1. data[b] = image.data[b]
        BY <1>10, <3>1, <3>4
      <4> QED BY <2>4, <3>2, <4>1
    <3> QED BY <3>3, <3>4
  <2> QED
    BY <2>2, <2>3, <2>4, <2>5 DEF HoldsOwn
<1>13. FilesInv' /\ (n = len => HoldsOwn(data, e, Written(len, what)))
  <2>1. AllThere(image.dir, wrote')
    BY <1>1, <1>11 DEF FilesInv, AllThere
  <2>2. ASSUME n = len, NEW b \in e.start .. (e.start + len - 1)
        PROVE  data[b] = <<f, what>>
    <3>1. b \in Blocks(image.dir[slot])
      BY <1>4, <1>9 DEF Blocks
    <3> QED
      BY <1>3, <1>4, <1>10, <2>2, <3>1
  <2>3. ASSUME n = len PROVE HoldsOwn(data, e, Written(len, what))
    <3>1. PICK w : w = Written(len, what)
      OBVIOUS
    <3>2. w.len = len /\ w.what = what /\ e.name = f /\ what \in Contents
      BY <1>2, <1>3, <1>4, <3>1 DEF Written
    <3>3. ASSUME NEW b \in e.start .. (e.start + w.len - 1)
          PROVE  data[b] \in {e.name} \X Contents /\ data[b] = <<e.name, w.what>>
      <4>1. data[b] = <<f, what>>
        BY <2>2, <2>3, <3>2
      <4> QED BY <3>2, <4>1
    <3> QED BY <3>1, <3>3 DEF HoldsOwn
  <2> QED
    BY <1>1, <1>8, <1>12, <2>1, <2>3 DEF FilesInv
<1>14. TypeOK'
  BY <1>1, <1>6, <1>7, <1>11 DEF TypeOK
<1>15. JobInv'
  <2>1. CASE n = len
    <3>1. job' = [pc |-> "write", slot |-> slot, file |-> f, len |-> len, what |-> what]
      BY <1>2, <2>1
    <3>2. WriteInv'
      BY <1>1, <1>2, <1>3, <1>4, <1>8, <1>9, <1>13, <2>1, <3>1 DEF WriteInv
    <3> QED
      BY <3>1, <3>2 DEF JobInv, MakeInv, Passed
  <2>2. CASE n # len
    BY <1>2, <2>2 DEF JobInv, WriteInv, MakeInv, Passed, Idle
  <2> QED
    BY <2>1, <2>2
<1> QED
  BY <1>13, <1>14, <1>15 DEF IInv

\* A directory with the same names has the same files.
LEMMA SameNames ==
    ASSUME NEW dir, NEW dir2, \A i \in Slots : dir2[i].name = dir[i].name
    PROVE  Live(dir2) = Live(dir)
<1>1. {i \in Slots : dir2[i].name = End} = {i \in Slots : dir[i].name = End}
  OBVIOUS
<1>2. Terminator(dir2) = Terminator(dir)
  BY <1>1 DEF Terminator
<1> QED
  BY <1>2 DEF Live

LEMMA WriteDirectoryStep ==
    ASSUME IInv, WriteDirectory
    PROVE  IInv'
<1>1. /\ TypeOK /\ job.pc = "write" /\ sound' = sound /\ job' = Idle
      /\ image' = [image EXCEPT !.dir[job.slot].size = job.len]
      /\ wrote' = [wrote EXCEPT ![job.file] = Written(job.len, job.what)]
  BY DEF IInv, WriteDirectory
<1>2. PICK slot, len, f, what : slot = job.slot /\ len = job.len /\ f = job.file /\ what = job.what
  OBVIOUS
<1>3. /\ sound /\ FilesInv /\ slot \in Live(image.dir) /\ f = image.dir[slot].name
      /\ len \in 0 .. image.dir[slot].reserved /\ what \in Contents
      /\ HoldsOwn(image.data, image.dir[slot], Written(len, what))
  BY <1>1, <1>2 DEF IInv, JobInv, WriteInv
<1>4. image.dir \in Directory /\ slot \in Slots /\ image.dir[slot] \in DirEntry /\ f \in Names /\ len \in Nat
  BY <1>1, <1>3, LiveValue DEF TypeOK
<1>5. PICK d : d = [image.dir EXCEPT ![slot].size = len]
  OBVIOUS
<1>6. /\ d \in Directory
      /\ \A i \in Slots : /\ d[i].name = image.dir[i].name /\ d[i].start = image.dir[i].start
                          /\ d[i].reserved = image.dir[i].reserved
                          /\ d[i].size = IF i = slot THEN len ELSE image.dir[i].size
  BY <1>4, <1>5 DEF Directory, DirEntry
<1>7. Live(d) = Live(image.dir) /\ \A i \in Live(d) : i \in Slots
  BY <1>6, SameNames DEF Live
<1>8. image' = [image EXCEPT !.dir = d]
  BY <1>1, <1>2, <1>5 DEF TypeOK
<1>9. image'.dir = d /\ image'.data = image.data /\ image'.blocks = image.blocks
  BY <1>1, <1>8 DEF TypeOK
<1>10. /\ wrote' = [wrote EXCEPT ![f] = Written(len, what)] /\ wrote \in [Names -> Report]
       /\ Written(len, what).len = len /\ Written(len, what).there
  BY <1>1, <1>2 DEF TypeOK, Written
<1>11. Distinct(d)
  BY <1>3, <1>6, <1>7 DEF FilesInv, Distinct
<1>12. Apart(d, image.blocks)
  BY <1>3, <1>6, <1>7 DEF FilesInv, Apart, Blocks
<1>13. Kept(d, image.data, wrote')
  <2> SUFFICES ASSUME NEW i \in Live(d)
               PROVE  /\ wrote'[d[i].name].there
                      /\ d[i].reserved > 0 /\ d[i].size <= d[i].reserved
                      /\ d[i].size = wrote'[d[i].name].len
                      /\ HoldsOwn(image.data, d[i], wrote'[d[i].name])
    BY DEF Kept
  <2>1. /\ i \in Live(image.dir) /\ i \in Slots /\ image.dir[i].name \in Names
        /\ wrote[image.dir[i].name].there
        /\ image.dir[i].reserved > 0 /\ image.dir[i].size <= image.dir[i].reserved
        /\ image.dir[i].size = wrote[image.dir[i].name].len
        /\ HoldsOwn(image.data, image.dir[i], wrote[image.dir[i].name])
    BY <1>3, <1>4, <1>7, LiveValue DEF FilesInv, Kept
  <2>2. CASE i = slot
    <3>1. wrote'[d[i].name] = Written(len, what)
      BY <1>3, <1>6, <1>10, <2>1, <2>2
    <3> QED
      BY <1>3, <1>6, <1>10, <2>1, <2>2, <3>1 DEF HoldsOwn
  <2>3. CASE i # slot
    <3>1. image.dir[i].name # f
      BY <1>3, <2>1, <2>3 DEF FilesInv, Distinct
    <3>2. wrote'[d[i].name] = wrote[image.dir[i].name]
      BY <1>6, <1>10, <2>1, <3>1
    <3> QED
      BY <1>6, <2>1, <2>3, <3>2 DEF HoldsOwn
  <2> QED
    BY <2>2, <2>3
<1>14. FilesInv'
  <2>1. AllThere(d, wrote')
    <3> SUFFICES ASSUME NEW g \in Names, wrote'[g].there PROVE Find(d, g) # {}
      BY DEF AllThere
    <3>1. Find(image.dir, g) # {}
      <4>1. CASE g = f
        BY <1>3, <4>1 DEF Find
      <4>2. CASE g # f
        BY <1>3, <1>10, <4>2 DEF FilesInv, AllThere
      <4> QED BY <4>1, <4>2
    <3> QED BY <1>6, <1>7, <3>1 DEF Find
  <2> QED
    BY <1>9, <1>11, <1>12, <1>13, <2>1 DEF FilesInv
<1>15. TypeOK'
  <2>1. wrote' \in [Names -> Report]
    BY <1>3, <1>4, <1>10 DEF Written, Report
  <2> QED
    BY <1>1, <1>6, <1>8, <2>1 DEF TypeOK
<1>16. JobInv'
  BY <1>1 DEF JobInv, WriteInv, MakeInv, Passed, Idle
<1> QED
  BY <1>14, <1>15, <1>16 DEF IInv

-----------------------------------------------------------------------------
(* format and initialize                                                   *)

\* A directory of zeros has no files.
LEMMA ZeroedValue ==
    /\ Zeroed \in Directory /\ Live(Zeroed) = {}
    /\ NoFiles \in [Names -> Report] /\ AllThere(Zeroed, NoFiles)
    /\ \A data, reports, n : Kept(Zeroed, data, reports) /\ Distinct(Zeroed) /\ Apart(Zeroed, n)
<1>1. Zeroed \in Directory
  BY DEF Zeroed, Entry, Directory, DirEntry
<1>2. Zeroed[0].name = End /\ 0 \in Slots
  BY BmfsAssumption DEF Zeroed, Entry, Slots
<1>3. Terminator(Zeroed) \in 0 .. DirSize /\ Terminator(Zeroed) <= 0
  BY <1>1, <1>2, TerminatorValue
<1>4. Live(Zeroed) = {}
  BY <1>3 DEF Live, Slots
<1>5. NoFiles \in [Names -> Report] /\ AllThere(Zeroed, NoFiles)
  BY DEF NoFiles, NoFile, Report, AllThere
<1> QED
  BY <1>1, <1>4, <1>5 DEF Kept, Distinct, Apart

\* The files stay as they are while the directory, the data and the sizes do.
LEMMA FilesStay ==
    ASSUME FilesInv, image'.dir = image.dir, image'.data = image.data, image'.blocks = image.blocks,
           wrote' = wrote
    PROVE  FilesInv'
BY DEF FilesInv

LEMMA FormatStep ==
    ASSUME IInv, NEW force \in BOOLEAN, Format(force)
    PROVE  IInv'
<1>1. /\ TypeOK /\ UNCHANGED <<image, sound, wrote>>
      /\ job' = [pc |-> "marker", next |-> "idle", err |-> FALSE, missed |-> {}]
  BY DEF IInv, Format
<1>2. TypeOK' /\ (sound' => FilesInv')
  BY <1>1, FilesStay DEF IInv, TypeOK
<1>3. JobInv'
  BY <1>1 DEF JobInv, WriteInv, MakeInv, Formatting, Passed
<1> QED
  BY <1>2, <1>3 DEF IInv

LEMMA FormatMarkerStep ==
    ASSUME IInv, FormatMarker
    PROVE  IInv'
<1>1. /\ TypeOK /\ job.pc = "marker" /\ UNCHANGED <<sound, wrote>>
      /\ \/ image' = [image EXCEPT !.tag = TRUE] /\ job' = [job EXCEPT !.pc = "format"]
         \/ /\ job' = [job EXCEPT !.pc = "format", !.err = TRUE, !.missed = @ \cup {"write"}]
            /\ UNCHANGED image
  BY DEF IInv, FormatMarker, Unseen
<1>2. TypeOK'
  BY <1>1 DEF TypeOK
<1>3. /\ image'.dir = image.dir /\ image'.data = image.data /\ image'.blocks = image.blocks
      /\ \/ image'.tag /\ job' = [job EXCEPT !.pc = "format"]
         \/ job' = [job EXCEPT !.pc = "format", !.err = TRUE, !.missed = @ \cup {"write"}]
  BY <1>1 DEF TypeOK
<1>4. sound' => FilesInv'
  BY <1>1, <1>3, FilesStay DEF IInv
<1>5. CASE Formatting
  <2>1. Formatting'
    BY <1>1, <1>5 DEF Formatting
  <2>2. job'.pc = "format"
    BY <1>1, <1>5 DEF Formatting
  <2>3. JobInv'
    BY <2>1, <2>2 DEF JobInv, WriteInv, MakeInv, Passed
  <2> QED
    BY <1>2, <1>4, <2>3 DEF IInv
<1>6. CASE Making /\ ~Formatting
  <2>1. job.ret = 0 /\ ~job.err /\ job.sys = {}
    BY <1>1, <1>6 DEF IInv, JobInv, MakeInv, Passed
  <2>2. /\ Making' /\ job'.pc = "format" /\ job'.sys = {}
        /\ image'.tag \/ (job'.err /\ "write" \in job'.missed)
    <3>1. CASE image'.tag /\ job' = [job EXCEPT !.pc = "format"]
      BY <1>6, <2>1, <3>1 DEF Making, Passed
    <3>2. CASE job' = [job EXCEPT !.pc = "format", !.err = TRUE, !.missed = @ \cup {"write"}]
      BY <1>6, <2>1, <3>2 DEF Making, Passed
    <3> QED BY <1>3, <3>1, <3>2
  <2>3. Passed["format"] = {}
    BY DEF Passed
  <2>4. JobInv'
    BY <2>2, <2>3 DEF JobInv, WriteInv, MakeInv, Passed
  <2> QED
    BY <1>2, <1>4, <2>4 DEF IInv
<1>7. Formatting \/ Making
  BY <1>1 DEF IInv, JobInv, MakeInv, Passed
<1> QED
  BY <1>5, <1>6, <1>7

LEMMA FormatDirectoryStep ==
    ASSUME IInv, FormatDirectory
    PROVE  IInv'
<1>1. /\ TypeOK /\ job.pc = "format"
      /\ \/ /\ image' = [image EXCEPT !.dir = Zeroed, !.data = Forget(Names)]
            /\ sound' = TRUE /\ wrote' = NoFiles
            /\ job' = IF job.next = "idle" THEN Idle ELSE [job EXCEPT !.pc = job.next]
         \/ /\ job' = IF job.next = "idle" THEN Idle
                      ELSE [job EXCEPT !.pc = job.next, !.err = TRUE, !.missed = @ \cup {"write"}]
            /\ UNCHANGED <<image, sound, wrote>>
  BY DEF IInv, FormatDirectory, Unseen
<1>2. TypeOK' /\ image'.tag = image.tag /\ (sound' => FilesInv')
  <2>1. CASE UNCHANGED <<image, sound, wrote>>
    BY <1>1, <2>1, FilesStay DEF IInv, TypeOK
  <2>2. CASE /\ image' = [image EXCEPT !.dir = Zeroed, !.data = Forget(Names)]
             /\ sound' = TRUE /\ wrote' = NoFiles
    <3>1. Forget(Names) \in Data
      BY <1>1 DEF TypeOK, Data, Forget
    <3>2. image'.dir = Zeroed /\ image'.tag = image.tag /\ TypeOK'
      BY <1>1, <2>2, <3>1, ZeroedValue DEF TypeOK
    <3>3. FilesInv'
      BY <2>2, <3>2, ZeroedValue DEF FilesInv
    <3> QED BY <3>2, <3>3
  <2> QED BY <1>1, <2>1, <2>2
<1>3. JobInv'
  <2>1. MakeInv /\ job.pc \in DOMAIN Passed
    BY <1>1 DEF IInv, JobInv, Passed
  <2>2. CASE Formatting
    BY <1>1, <2>2 DEF Formatting, Idle, JobInv, WriteInv, MakeInv, Passed
  <2>3. CASE Making /\ ~Formatting
    <3>1. job.next = "mbr"
      BY <2>3 DEF Making
    <3>2. /\ job.ret = 0 => image.tag \/ (job.err /\ "write" \in job.missed)
          /\ job.ret = 0 => \/ job.sys = job.files \cap Passed[job.pc] \/ job.missed \cap {"read", "close"} # {}
                            \/ "boot" \in job.files /\ job.err
      BY <1>1, <2>1, <2>3 DEF MakeInv
    <3>3. \/ job' = [job EXCEPT !.pc = "mbr"]
          \/ job' = [job EXCEPT !.pc = "mbr", !.err = TRUE, !.missed = @ \cup {"write"}]
      BY <1>1, <3>1
    <3>4. /\ Making' /\ job'.pc = "mbr" /\ job'.ret = job.ret /\ job'.sys = job.sys /\ job'.files = job.files
          /\ job.missed \subseteq job'.missed /\ (job.err => job'.err)
      <4>1. CASE job' = [job EXCEPT !.pc = "mbr"]
        BY <2>3, <4>1 DEF Making, Passed
      <4>2. CASE job' = [job EXCEPT !.pc = "mbr", !.err = TRUE, !.missed = @ \cup {"write"}]
        BY <2>3, <4>2 DEF Making, Passed
      <4> QED BY <3>3, <4>1, <4>2
    <3>5. Passed["format"] = Passed["mbr"]
      BY DEF Passed
    <3> QED
      BY <1>1, <1>2, <3>2, <3>4, <3>5 DEF JobInv, WriteInv, MakeInv, Passed
  <2> QED
    BY <2>1, <2>2, <2>3 DEF MakeInv
<1> QED
  BY <1>2, <1>3 DEF IInv

LEMMA InitializeStep ==
    ASSUME IInv, Initialize
    PROVE  IInv'
<1>1. /\ TypeOK /\ job.pc = "idle" /\ sound' = TRUE /\ wrote' = NoFiles
      /\ image' = [blocks |-> 0, tag |-> FALSE, dir |-> Zeroed,
                   data |-> [b \in 1 .. (HostBlocks - 1) |-> End]]
  BY DEF IInv, Initialize
<1>2. PICK z \in SizeArguments, files \in SUBSET Parts :
         job' = [pc |-> "fill", size |-> z.size \div BlockBytes, files |-> files, next |-> "mbr",
                 ret |-> 0, err |-> FALSE, missed |-> {}, sys |-> {}, asked |-> z.meaning]
  <2>1. PICK z \in SizeArguments, files \in {{}, {"mbr"}, {"mbr", "boot"}, Parts} :
           job' = [pc |-> "fill", size |-> z.size \div BlockBytes, files |-> files, next |-> "mbr",
                   ret |-> 0, err |-> FALSE, missed |-> {}, sys |-> {}, asked |-> z.meaning]
    BY DEF Initialize
  <2>2. files \in SUBSET Parts
    BY DEF Parts
  <2> QED
    BY <2>1, <2>2
<1>3. TypeOK'
  <2>1. [b \in 1 .. (HostBlocks - 1) |-> End] \in Data
    BY DEF Data
  <2>2. image'.blocks <= HostBlocks
    BY <1>1, BmfsAssumption
  <2>3. image' \in [blocks : Nat, tag : BOOLEAN, dir : Directory, data : Data]
    BY <1>1, <2>1, ZeroedValue
  <2> QED
    BY <1>1, <2>2, <2>3, ZeroedValue DEF TypeOK
<1>4. FilesInv'
  BY <1>1, ZeroedValue DEF FilesInv
<1>5. Making'
  <2>1. job'.size = z.size \div BlockBytes /\ job'.asked = z.meaning
    BY <1>2
  <2>2. "fill" \in DOMAIN Passed
    BY DEF Passed
  <2> QED
    BY <1>2, <2>1, <2>2 DEF Making
<1>6. JobInv'
  <2>1. /\ job'.pc = "fill" /\ job'.ret = 0 /\ job'.err = FALSE /\ job'.sys = {}
    BY <1>2
  <2> QED
    BY <1>5, <2>1 DEF JobInv, WriteInv, MakeInv, Passed
<1> QED
  BY <1>3, <1>4, <1>6 DEF IInv

LEMMA FillBlockStep ==
    ASSUME IInv, FillBlock
    PROVE  IInv'
<1>1. /\ TypeOK /\ job.pc = "fill" /\ UNCHANGED <<sound, wrote>>
      /\ \/ image.blocks < HostBlocks /\ image' = [image EXCEPT !.blocks = @ + 1] /\ UNCHANGED job
         \/ job' = [job EXCEPT !.pc = "close", !.ret = 1, !.err = TRUE] /\ UNCHANGED image
         \/ job' = [job EXCEPT !.pc = "marker", !.missed = {"fill"}] /\ UNCHANGED image
  BY DEF IInv, FillBlock
<1>2. image.blocks \in Nat /\ image.dir \in Directory
  BY <1>1 DEF TypeOK
<1>3. /\ Making /\ job.ret = 0 /\ ~job.err
      /\ job.sys = {}
  BY <1>1 DEF IInv, JobInv, MakeInv, Formatting, Passed
<1>4. CASE image.blocks < HostBlocks /\ image' = [image EXCEPT !.blocks = @ + 1] /\ UNCHANGED job
  <2>1. /\ image'.dir = image.dir /\ image'.data = image.data /\ image'.tag = image.tag
        /\ image'.blocks = image.blocks + 1
    BY <1>1, <1>4 DEF TypeOK
  <2>2. TypeOK'
    BY <1>1, <1>4, BmfsAssumption DEF TypeOK
  <2>3. Apart(image.dir, image.blocks) => Apart(image.dir, image.blocks + 1)
    <3>1. 1 .. (image.blocks - 2) \subseteq 1 .. ((image.blocks + 1) - 2)
      BY <1>2
    <3> QED
      BY <3>1 DEF Apart
  <2>4. sound' => FilesInv'
    BY <1>1, <2>1, <2>3 DEF IInv, FilesInv
  <2>5. JobInv'
    BY <1>1, <1>4, <2>1 DEF IInv, JobInv, WriteInv, MakeInv, Making, Formatting
  <2> QED
    BY <2>2, <2>4, <2>5 DEF IInv
<1>5. CASE job' = [job EXCEPT !.pc = "close", !.ret = 1, !.err = TRUE] /\ UNCHANGED image
  <2>1. Making' /\ job'.pc = "close" /\ job'.ret = 1
    BY <1>3, <1>5 DEF Making, Passed
  <2>2. JobInv'
    BY <2>1 DEF JobInv, WriteInv, MakeInv, Passed
  <2>3. TypeOK' /\ (sound' => FilesInv')
    BY <1>1, <1>5, FilesStay DEF IInv, TypeOK
  <2> QED
    BY <2>2, <2>3 DEF IInv
<1>6. CASE job' = [job EXCEPT !.pc = "marker", !.missed = {"fill"}] /\ UNCHANGED image
  <2>1. Making' /\ job'.pc = "marker" /\ job'.ret = 0 /\ ~job'.err /\ job'.sys = job.sys /\ job'.files = job.files
    BY <1>3, <1>6 DEF Making, Passed
  <2>2. JobInv'
    BY <1>3, <2>1 DEF JobInv, WriteInv, MakeInv, Passed
  <2>3. TypeOK' /\ (sound' => FilesInv')
    BY <1>1, <1>6, FilesStay DEF IInv, TypeOK
  <2> QED
    BY <2>2, <2>3 DEF IInv
<1> QED
  BY <1>1, <1>4, <1>5, <1>6

LEMMA FilledStep ==
    ASSUME IInv, Filled
    PROVE  IInv'
<1>1. /\ TypeOK /\ job.pc = "fill" /\ UNCHANGED <<image, sound, wrote>>
      /\ job' = [job EXCEPT !.pc = "marker"]
  BY DEF IInv, Filled
<1>2. TypeOK' /\ (sound' => FilesInv')
  BY <1>1, FilesStay DEF IInv, TypeOK
<1>3. Making /\ job.ret = 0 /\ ~job.err /\ job.sys = {}
  BY <1>1 DEF IInv, JobInv, MakeInv, Formatting, Passed
<1>4. /\ Making' /\ job'.pc = "marker" /\ job'.ret = 0 /\ ~job'.err /\ job'.sys = {}
  BY <1>1, <1>3 DEF Making, Passed
<1>5. JobInv'
  BY <1>4 DEF JobInv, WriteInv, MakeInv, Passed
<1> QED
  BY <1>2, <1>5 DEF IInv

\* A system file is written, left out, lost or fails; the error stays.
LEMMA WritePartStep ==
    ASSUME IInv, NEW part \in Parts, WritePart(part)
    PROVE  IInv'
<1>1. /\ TypeOK /\ job.pc = part /\ UNCHANGED <<image, sound, wrote>>
      /\ IF part \notin job.files \/ job.ret # 0
         THEN job' = [job EXCEPT !.pc = After[part]]
         ELSE \/ job' = [job EXCEPT !.pc = After[part], !.sys = @ \cup {part}, !.ret = Ferror(part)]
              \/ job' = [job EXCEPT !.pc = After[part], !.ret = 1]
              \/ job' = [job EXCEPT !.pc = After[part], !.missed = @ \cup {"read"}, !.ret = Ferror(part)]
              \/ /\ part = "mbr" /\ "boot" \in job.files
                 /\ job' = [job EXCEPT !.pc = After[part], !.err = TRUE, !.missed = @ \cup {"write"}]
  BY DEF IInv, WritePart, Unseen
<1>2. /\ part \in DOMAIN Passed /\ After[part] \in {"boot", "kernel", "close"}
      /\ Passed[After[part]] = Passed[part] \cup {part}
      /\ After[part] \in {"kernel", "close"} => part # "mbr"
      /\ After[part] = "kernel" => part = "boot"
      /\ {"boot", "kernel", "close"} \subseteq DOMAIN Passed
  BY DEF Parts, After, Passed
<1>3. /\ Making
      /\ job.ret = 0 =>
            /\ part = "kernel" /\ "boot" \in job.files => ~job.err
            /\ image.tag \/ (job.err /\ "write" \in job.missed)
            /\ \/ job.sys = job.files \cap Passed[part] \/ job.missed \cap {"read", "close"} # {}
               \/ "boot" \in job.files /\ job.err
  BY <1>1 DEF IInv, JobInv, MakeInv, Formatting, Parts, Passed
<1>4. job.ret \in {0, 1} /\ job.err \in BOOLEAN /\ job.sys \subseteq Parts /\ job.files \subseteq Parts
  BY <1>3 DEF Making
<1>5. Ferror(part) \in {0, 1} /\ (Ferror(part) = 0 => job.ret = 0 /\ (part # "mbr" => ~job.err))
  <2>1. CASE part # "mbr" /\ job.err
    BY <2>1 DEF Ferror
  <2>2. CASE ~(part # "mbr" /\ job.err)
    BY <1>4, <2>2 DEF Ferror
  <2> QED BY <2>1, <2>2
<1>6. ASSUME NEW r \in {0, 1}, NEW m \in SUBSET {"read"}, NEW y \in SUBSET {part},
             job' = [job EXCEPT !.pc = After[part], !.ret = r, !.missed = @ \cup m, !.sys = @ \cup y],
             r = 0 => /\ job.ret = 0 /\ (part # "mbr" /\ part \in job.files => ~job.err)
                      /\ m = {"read"} \/ y = {part} \cap job.files
      PROVE  JobInv'
  <2>1. /\ Making' /\ job'.pc = After[part] /\ job'.ret = r /\ job'.err = job.err /\ job'.files = job.files
        /\ job'.missed = job.missed \cup m /\ job'.sys = job.sys \cup y
    BY <1>2, <1>3, <1>4, <1>6 DEF Making
  <2>2. job'.ret = 0 =>
            /\ job'.pc \in {"kernel", "close", "exit"} /\ "boot" \in job'.files => ~job'.err
            /\ image'.tag \/ (job'.err /\ "write" \in job'.missed)
            /\ \/ job'.sys = job'.files \cap Passed[job'.pc] \/ job'.missed \cap {"read", "close"} # {}
               \/ "boot" \in job'.files /\ job'.err
    <3> SUFFICES ASSUME r = 0
                 PROVE  /\ After[part] \in {"kernel", "close", "exit"} /\ "boot" \in job.files => ~job.err
                        /\ image.tag \/ (job.err /\ "write" \in job.missed \cup m)
                        /\ \/ job.sys \cup y = job.files \cap (Passed[part] \cup {part})
                           \/ (job.missed \cup m) \cap {"read", "close"} # {}
                           \/ "boot" \in job.files /\ job.err
      BY <1>1, <1>2, <2>1
    <3>1. job.ret = 0
      BY <1>6
    <3>2. After[part] \in {"kernel", "close", "exit"} /\ "boot" \in job.files => ~job.err
      <4> SUFFICES ASSUME After[part] \in {"kernel", "close", "exit"}, "boot" \in job.files PROVE ~job.err
        OBVIOUS
      <4>1. part \in {"boot", "kernel"}
        BY <1>2 DEF Parts
      <4>2. CASE part = "boot"
        BY <1>6, <4>2
      <4>3. CASE part = "kernel"
        BY <1>3, <3>1, <4>3
      <4> QED BY <4>1, <4>2, <4>3
    <3>3. image.tag \/ (job.err /\ "write" \in job.missed)
      BY <1>3, <3>1
    <3>4. CASE m = {"read"}
      BY <3>2, <3>3, <3>4
    <3>5. CASE y = {part} \cap job.files
      BY <1>3, <3>1, <3>2, <3>3, <3>5
    <3> QED BY <1>6, <3>4, <3>5
  <2>3. job'.pc \in DOMAIN Passed /\ job'.pc \notin {"idle", "write", "fill", "marker"}
    BY <1>2, <2>1
  <2> QED
    BY <2>1, <2>2, <2>3 DEF JobInv, WriteInv, MakeInv
<1>7. JobInv'
  <2>1. CASE job' = [job EXCEPT !.pc = After[part]] /\ (part \notin job.files \/ job.ret # 0)
    <3>1. job' = [job EXCEPT !.pc = After[part], !.ret = job.ret, !.missed = @ \cup {}, !.sys = @ \cup {}]
      BY <1>3, <2>1 DEF Making
    <3>2. job.ret = 0 => part \notin job.files /\ {} = {part} \cap job.files
      BY <1>4, <2>1
    <3> QED BY <1>4, <1>6, <3>1, <3>2
  <2>2. CASE job' = [job EXCEPT !.pc = After[part], !.sys = @ \cup {part}, !.ret = Ferror(part)] /\ part \in job.files
    <3>1. job' = [job EXCEPT !.pc = After[part], !.ret = Ferror(part), !.missed = @ \cup {}, !.sys = @ \cup {part}]
      BY <1>3, <2>2 DEF Making
    <3>2. {part} = {part} \cap job.files
      BY <2>2
    <3> QED BY <1>5, <1>6, <3>1, <3>2
  <2>3. CASE job' = [job EXCEPT !.pc = After[part], !.ret = 1]
    <3>1. job' = [job EXCEPT !.pc = After[part], !.ret = 1, !.missed = @ \cup {}, !.sys = @ \cup {}]
      BY <1>3, <2>3 DEF Making
    <3>2. {} \in SUBSET {"read"} /\ {} \in SUBSET {part} /\ 1 \in {0, 1} /\ 1 # 0
      OBVIOUS
    <3> QED BY <1>6, <3>1, <3>2
  <2>4. CASE job' = [job EXCEPT !.pc = After[part], !.missed = @ \cup {"read"}, !.ret = Ferror(part)]
    <3>1. job' = [job EXCEPT !.pc = After[part], !.ret = Ferror(part), !.missed = @ \cup {"read"}, !.sys = @ \cup {}]
      BY <1>3, <2>4 DEF Making
    <3>2. {"read"} \in SUBSET {"read"} /\ {} \in SUBSET {part}
      OBVIOUS
    <3>3. Ferror(part) = 0 => job.ret = 0 /\ (part # "mbr" /\ part \in job.files => ~job.err)
      BY <1>5
    <3> QED BY <1>5, <1>6, <3>1, <3>2, <3>3
  <2>5. CASE /\ part = "mbr" /\ "boot" \in job.files
             /\ job' = [job EXCEPT !.pc = After[part], !.err = TRUE, !.missed = @ \cup {"write"}]
    <3>1. After[part] = "boot"
      BY <2>5 DEF After
    <3>2. /\ Making' /\ job'.pc = "boot" /\ job'.err /\ "write" \in job'.missed /\ job'.files = job.files
      BY <1>3, <2>5, <3>1 DEF Making, Passed
    <3> QED BY <2>5, <3>2 DEF JobInv, WriteInv, MakeInv, Passed
  <2> QED BY <1>1, <2>1, <2>2, <2>3, <2>4, <2>5
<1>8. TypeOK' /\ (sound' => FilesInv')
  BY <1>1, FilesStay DEF IInv, TypeOK
<1> QED
  BY <1>7, <1>8 DEF IInv

LEMMA CloseStep ==
    ASSUME IInv, Close
    PROVE  IInv'
<1>1. /\ TypeOK /\ job.pc = "close" /\ UNCHANGED <<image, sound, wrote>>
      /\ \/ job' = [job EXCEPT !.pc = "exit"]
         \/ \E part \in Parts : job' = [job EXCEPT !.pc = "exit", !.sys = @ \ {part}, !.missed = @ \cup {"close"}]
  BY DEF IInv, Close
<1>2. /\ Making
      /\ job.ret = 0 =>
            /\ "boot" \in job.files => ~job.err
            /\ image.tag \/ (job.err /\ "write" \in job.missed)
            /\ \/ job.sys = job.files \cap Passed["close"] \/ job.missed \cap {"read", "close"} # {}
               \/ "boot" \in job.files /\ job.err
  BY <1>1 DEF IInv, JobInv, MakeInv, Formatting, Passed
<1>3. /\ Making' /\ job'.pc = "exit" /\ job'.ret = job.ret /\ job'.err = job.err /\ job'.files = job.files
      /\ job.missed \subseteq job'.missed /\ (job'.sys = job.sys \/ "close" \in job'.missed)
  <2>1. CASE job' = [job EXCEPT !.pc = "exit"]
    BY <1>2, <2>1 DEF Making, Passed
  <2>2. ASSUME NEW part \in Parts, job' = [job EXCEPT !.pc = "exit", !.sys = @ \ {part}, !.missed = @ \cup {"close"}]
        PROVE  /\ Making' /\ job'.pc = "exit" /\ job'.ret = job.ret /\ job'.err = job.err /\ job'.files = job.files
               /\ job.missed \subseteq job'.missed /\ "close" \in job'.missed
    BY <1>2, <2>2 DEF Making, Passed
  <2> QED BY <1>1, <2>1, <2>2
<1>4. Passed["exit"] = Passed["close"]
  BY DEF Passed
<1>5. JobInv'
  BY <1>1, <1>2, <1>3, <1>4 DEF JobInv, WriteInv, MakeInv, Passed
<1>6. TypeOK' /\ (sound' => FilesInv')
  BY <1>1, FilesStay DEF IInv, TypeOK
<1> QED
  BY <1>5, <1>6 DEF IInv

\* The command ends, at its end or before.
LEMMA EndStep ==
    ASSUME IInv, job' = Idle, UNCHANGED <<image, sound, wrote>>
    PROVE  IInv'
<1>1. TypeOK' /\ (sound' => FilesInv')
  BY FilesStay DEF IInv, TypeOK
<1>2. JobInv'
  BY DEF JobInv, WriteInv, MakeInv, Passed, Idle
<1> QED
  BY <1>1, <1>2 DEF IInv

LEMMA StutterStep ==
    ASSUME IInv, UNCHANGED vars
    PROVE  IInv'
BY DEF vars, IInv, TypeOK, FilesInv, JobInv, WriteInv, MakeInv, Making, Formatting

-----------------------------------------------------------------------------
(* The theorems                                                            *)

LEMMA IInvInit == Init => IInv
<1> SUFFICES ASSUME Init PROVE IInv
  OBVIOUS
<1>1. /\ image.blocks \in {0, 1, HostBlocks}
      /\ image \in [blocks : Nat, tag : BOOLEAN, dir : Directory, data : Data]
  <2>1. PICK data : data = [b \in 1 .. (HostBlocks - 1) |-> End]
    OBVIOUS
  <2>2. data \in Data
    BY <2>1 DEF Data
  <2>3. image \in [blocks : {0, 1, HostBlocks}, tag : {FALSE}, dir : {Zeroed}, data : {data}]
    BY <2>1 DEF Init
  <2>4. {0, 1, HostBlocks} \subseteq Nat
    BY BmfsAssumption
  <2>5. {FALSE} \subseteq BOOLEAN /\ {Zeroed} \subseteq Directory /\ {data} \subseteq Data
    BY <2>2, ZeroedValue
  <2>6. image.blocks \in {0, 1, HostBlocks}
    BY <2>3
  <2> QED
    BY <2>3, <2>4, <2>5, <2>6
<1>2. TypeOK
  <2>1. image.blocks <= HostBlocks \/ image.blocks = 1
    BY <1>1, BmfsAssumption
  <2>2. wrote \in [Names -> Report] /\ sound \in BOOLEAN
    BY ZeroedValue DEF Init
  <2> QED
    BY <1>1, <2>1, <2>2 DEF TypeOK
<1>3. JobInv
  BY DEF Init, JobInv, WriteInv, MakeInv, Passed, Idle
<1> QED
  BY <1>2, <1>3 DEF IInv, Init

LEMMA IInvNext == IInv /\ [Next]_vars => IInv'
<1> SUFFICES ASSUME IInv, [Next]_vars PROVE IInv'
  OBVIOUS
<1>1. ASSUME NEW f \in Names, NEW m \in 1 .. MaxMiB, Create(f, m) PROVE IInv'
  BY <1>1, CreateStep
<1>2. ASSUME NEW f \in Names, Delete(f) PROVE IInv'
  BY <1>2, DeleteStep
<1>3. ASSUME NEW f \in Names, Write(f) PROVE IInv'
  BY <1>3, WriteStep
<1>4. CASE WriteDirectory
  BY <1>4, WriteDirectoryStep
<1>5. ASSUME NEW force \in BOOLEAN, Format(force) PROVE IInv'
  BY <1>5, FormatStep
<1>6. CASE FormatDirectory
  BY <1>6, FormatDirectoryStep
<1>7. CASE Initialize
  BY <1>7, InitializeStep
<1>8. CASE FillBlock
  BY <1>8, FillBlockStep
<1>9. CASE Filled
  BY <1>9, FilledStep
<1>10. ASSUME NEW p \in Parts, WritePart(p) PROVE IInv'
  BY <1>10, WritePartStep
<1>11. CASE Close
  BY <1>11, CloseStep
<1>12. CASE Exit \/ Killed
  BY <1>12, EndStep DEF Exit, Killed
<1>13. CASE FormatMarker
  BY <1>13, FormatMarkerStep
<1>14. CASE UNCHANGED vars
  BY <1>14, StutterStep
<1> QED
  BY <1>1, <1>2, <1>3, <1>4, <1>5, <1>6, <1>7, <1>8, <1>9, <1>10, <1>11, <1>12, <1>13, <1>14 DEF Next

\* Every file has its own blocks, in them what its last finished write or one
\* killed since put there, and the size the finished one gave it; initialize's
\* result tells what is in place, but for the failures the code does not see.
THEOREM DiskInvariant == Spec => []IInv
BY IInvInit, IInvNext, PTL DEF Spec

\* The files in the directory are those created and not deleted, and what `read`
\* gives of one is exactly what its last finished `write` put there, or, once a
\* later one was killed halfway, blocks of its own writes, for any directory, any
\* disk and any contents.
THEOREM ReadsWhatWasWrittenHolds == Spec => []ReadsWhatWasWritten
<1>1. IInv => ReadsWhatWasWritten
  <2> SUFFICES ASSUME IInv, OnBmfs, NEW f \in Names
               PROVE  /\ wrote[f].there <=> Find(image.dir, f) # {}
                      /\ wrote[f].there =>
                             /\ Len(Read(f)) = wrote[f].len
                             /\ \A i \in 1 .. wrote[f].len :
                                    IF wrote[f].torn THEN Read(f)[i] \in {f} \X Contents
                                                     ELSE Read(f)[i] = <<f, wrote[f].what>>
    BY DEF ReadsWhatWasWritten
  <2>1. TypeOK /\ FilesInv /\ image.dir \in Directory
    BY DEF IInv, OnBmfs, TypeOK
  <2>2. wrote[f].there <=> Find(image.dir, f) # {}
    BY <2>1 DEF FilesInv, AllThere, Kept, Find
  <2>3. SUFFICES ASSUME Find(image.dir, f) # {}
                 PROVE  /\ Len(Read(f)) = wrote[f].len
                        /\ \A i \in 1 .. wrote[f].len :
                               IF wrote[f].torn THEN Read(f)[i] \in {f} \X Contents
                                                ELSE Read(f)[i] = <<f, wrote[f].what>>
    BY <2>2
  <2>4. PICK slot : slot = CHOOSE k \in Find(image.dir, f) : TRUE
    OBVIOUS
  <2>5. slot \in Live(image.dir) /\ image.dir[slot].name = f
    BY <2>3, <2>4 DEF Find
  <2>6. PICK e, w : e = image.dir[slot] /\ w = wrote[f]
    OBVIOUS
  <2>7. /\ e \in DirEntry /\ e.name = f /\ e.size = w.len /\ e.size <= e.reserved
        /\ HoldsOwn(image.data, e, w)
    BY <2>1, <2>5, <2>6, LiveValue DEF FilesInv, Kept
  <2>8. Read(f) = [i \in 1 .. e.size |-> LET b == e.start + i - 1
                                         IN IF b \in DOMAIN image.data THEN image.data[b] ELSE End]
    BY <2>4, <2>6 DEF Read
  <2>9. ASSUME NEW i \in 1 .. e.size
        PROVE  Read(f)[i] \in {f} \X Contents /\ (~w.torn => Read(f)[i] = <<f, w.what>>)
    <3>1. PICK b : b = e.start + i - 1
      OBVIOUS
    <3>2. b \in Blocks(image.dir[slot]) /\ b \in e.start .. e.start + w.len - 1
      BY <2>6, <2>7, <3>1 DEF Blocks, DirEntry
    <3>3. b \in DOMAIN image.data
      BY <2>1, <2>5, <3>2, BlocksAreData DEF TypeOK, Data
    <3>4. Read(f)[i] = image.data[b]
      BY <2>8, <3>1, <3>3
    <3> QED
      BY <2>7, <3>2, <3>4 DEF HoldsOwn
  <2>10. Len(Read(f)) = w.len
    <3>1. e.size \in Nat
      BY <2>7 DEF DirEntry
    <3> QED BY <2>7, <2>8, <3>1
  <2> QED
    BY <2>6, <2>7, <2>9, <2>10
<1> QED
  BY DiskInvariant, <1>1, PTL

\* initialize reports success only for an image that has its marker, and with a
\* loader in spite of the write it does not check, and that holds every system
\* file it was given, if it could read it and fclose could write the last one.
THEOREM SuccessMeansCompleteHolds == Spec => []SuccessMeansComplete
<1>1. IInv => SuccessMeansComplete
  <2> SUFFICES ASSUME IInv, job.pc = "exit", job.ret = 0
               PROVE  /\ image.tag \/ ("write" \in job.missed /\ "boot" \notin job.files)
                      /\ job.sys = job.files \/ job.missed \cap {"read", "close"} # {}
    BY DEF SuccessMeansComplete
  <2>1. /\ Making
        /\ "boot" \in job.files => ~job.err
        /\ image.tag \/ (job.err /\ "write" \in job.missed)
        /\ \/ job.sys = job.files \cap Parts \/ job.missed \cap {"read", "close"} # {}
           \/ "boot" \in job.files /\ job.err
    BY DEF IInv, JobInv, MakeInv, Formatting, Passed
  <2>2. job.files \subseteq Parts
    BY <2>1 DEF Making
  <2> QED
    BY <2>1, <2>2
<1> QED
  BY DiskInvariant, <1>1, PTL

-----------------------------------------------------------------------------
(* Where create puts a file                                                *)

\* With no deleted entry in it, the sorted copy is the files one behind the
\* other, each ending before the next begins.
LEMMA SortedFiles ==
    ASSUME NEW dir \in Directory, NEW n \in Nat, NoneDeleted(dir), FreeSlots(dir) # {}, Apart(dir, n),
           \A i \in Live(dir) : dir[i].reserved > 0,
           NEW s \in Sorted(dir), NEW used, used = num_used_entries(dir)
    PROVE  /\ used \in Nat /\ s \in Seq(DirEntry) /\ Len(s) = used
           /\ \A i \in Live(dir) : \E j \in 1 .. used : s[j] = dir[i]
           /\ \A i \in 1 .. used : /\ s[i] \in DirEntry /\ s[i].name # Deleted
                                   /\ 1 <= s[i].start /\ s[i].start < n - 1
                                   /\ s[i].start + s[i].reserved <= n - 1
           /\ \A i, j \in 1 .. used : i < j => s[i].start + s[i].reserved <= s[j].start
<1>1. Terminator(dir) \in 0 .. DirSize - 1
  <2>1. PICK i \in FreeSlots(dir) : TRUE
    OBVIOUS
  <2>2. i \in Slots /\ i = Terminator(dir)
    BY <2>1 DEF FreeSlots, NoneDeleted
  <2> QED
    BY <2>2 DEF Slots
<1>2. used = Terminator(dir) /\ used \in Nat
  BY <1>1, BmfsAssumption DEF num_used_entries
<1>3. Live(dir) = 0 .. used - 1
  BY <1>1, <1>2, BmfsAssumption DEF Live, Slots, NoneDeleted
<1>4. PICK p \in Bijection(1 .. used, 0 .. used - 1) :
         /\ \A i, j \in 1 .. used : i < j => ~Before(dir[p[j]], dir[p[i]])
         /\ s = [i \in 1 .. used |-> dir[p[i]]]
  BY DEF Sorted
<1>5. /\ p \in [1 .. used -> 0 .. used - 1]
      /\ \A i, j \in 1 .. used : p[i] = p[j] => i = j
      /\ \A i \in 0 .. used - 1 : \E j \in 1 .. used : p[j] = i
  BY <1>4 DEF Bijection, Injection, Surjection, IsInjective
<1>6. \A i \in Live(dir) : \E j \in 1 .. used : s[j] = dir[i]
  BY <1>3, <1>4, <1>5
<1>7. s \in Seq(DirEntry) /\ Len(s) = used
  BY <1>2, SortedValue
<1>8. ASSUME NEW i \in 1 .. used
      PROVE  /\ s[i] \in DirEntry /\ s[i].name # Deleted /\ s[i].reserved > 0
             /\ 1 <= s[i].start /\ s[i].start < n - 1
             /\ s[i].start + s[i].reserved <= n - 1
  <2>1. p[i] \in Live(dir) /\ s[i] = dir[p[i]]
    BY <1>3, <1>4, <1>5
  <2>2. s[i] \in DirEntry /\ s[i].name \in Names /\ s[i].reserved > 0 /\ Blocks(s[i]) \subseteq 1 .. (n - 2)
    BY <2>1, LiveValue DEF Apart
  <2>3. s[i].start \in Nat /\ s[i].reserved \in Nat
    BY <2>2 DEF DirEntry
  <2>4. s[i].start \in Blocks(s[i]) /\ s[i].start + s[i].reserved - 1 \in Blocks(s[i])
    <3>1. s[i].reserved > 0
      BY <2>2
    <3> QED
      BY <2>3, <3>1 DEF Blocks
  <2>5. s[i].start \in 1 .. (n - 2) /\ s[i].start + s[i].reserved - 1 \in 1 .. (n - 2)
    <3>1. Blocks(s[i]) \subseteq 1 .. (n - 2)
      BY <2>2
    <3> QED
      BY <2>4, <3>1
  <2>6. 1 <= s[i].start /\ s[i].start < n - 1 /\ s[i].start + s[i].reserved <= n - 1
    BY <2>3, <2>5
  <2>7. s[i].name # Deleted
    BY <2>2, BmfsAssumption
  <2> QED
    BY <2>2, <2>6, <2>7
<1>9. ASSUME NEW i \in 1 .. used, NEW j \in 1 .. used, i < j
      PROVE  s[i].start + s[i].reserved <= s[j].start
  <2>1. /\ p[i] \in Live(dir) /\ p[j] \in Live(dir) /\ p[i] # p[j]
        /\ s[i] = dir[p[i]] /\ s[j] = dir[p[j]]
    <3>1. p[i] \in Live(dir) /\ s[i] = dir[p[i]]
      BY <1>3, <1>4, <1>5
    <3>2. p[j] \in Live(dir) /\ s[j] = dir[p[j]]
      BY <1>3, <1>4, <1>5
    <3>3. p[i] # p[j]
      BY <1>2, <1>4, <1>5, <1>9
    <3> QED BY <3>1, <3>2, <3>3
  <2>2. Blocks(s[i]) \cap Blocks(s[j]) = {}
    BY <2>1 DEF Apart
  <2>3. /\ s[i].start \in Nat /\ s[i].reserved \in Nat /\ s[i].reserved > 0
        /\ s[j].start \in Nat /\ s[j].reserved \in Nat /\ s[j].reserved > 0
    BY <1>8 DEF DirEntry
  <2>4. s[i].start <= s[j].start
    BY <1>4, <1>8, <1>9, <2>1, <2>3 DEF Before
  <2>5. s[j].start \in Blocks(s[j]) /\ s[j].start \notin Blocks(s[i])
    BY <2>2, <2>3 DEF Blocks
  <2> QED
    BY <2>3, <2>4, <2>5 DEF Blocks
<1> QED
  BY <1>2, <1>6, <1>7, <1>8, <1>9

\* The first gap that fits is between two files, and wide enough.
LEMMA GapValue ==
    ASSUME NEW n \in Nat, n >= 3, LastBlock = n - 1, NEW s \in Seq(DirEntry), NEW used \in Nat, Len(s) = used,
           \A i \in 1 .. used : /\ s[i].name # Deleted
                                /\ 1 <= s[i].start /\ s[i].start < n - 1
                                /\ s[i].start + s[i].reserved <= n - 1,
           \A i, j \in 1 .. used : i < j => s[i].start + s[i].reserved <= s[j].start,
           NEW requested \in Nat, NEW start, start = NewFileStart(s, requested), start # 0
    PROVE  /\ start \in Nat /\ 1 <= start /\ start + requested <= n - 1
           /\ \A j \in 1 .. used : \/ s[j].start + s[j].reserved <= start
                                   \/ start + requested <= s[j].start
<1> DEFINE PrevEnd(i) == IF i = 1 THEN 1 ELSE s[i - 1].start + s[i - 1].reserved
           ThisStart(i) == IF i = used + 1 \/ s[IF i > used THEN 1 ELSE i].name = Deleted
                           THEN LastBlock ELSE s[i].start
           fits == {i \in 1 .. (used + 1) : Fits(PrevEnd(i), ThisStart(i), requested)}
<1>1. start = IF fits = {} THEN 0 ELSE PrevEnd(Min(fits))
  BY DEF NewFileStart
<1>2. fits # {} /\ fits \in SUBSET Nat
  <2>1. fits # {}
    <3> HIDE DEF fits
    <3> QED
      BY <1>1
  <2>2. fits \in SUBSET Nat
    OBVIOUS
  <2> QED
    BY <2>1, <2>2
<1>3. PICK k \in fits : start = PrevEnd(k)
  <2> HIDE DEF fits, PrevEnd
  <2> QED
    BY <1>1, <1>2, LeastNatural
<1>4. k \in 1 .. used + 1 /\ Fits(start, ThisStart(k), requested)
  BY <1>3
<1>5. \A i \in 1 .. used : s[i].start \in Nat /\ s[i].reserved \in Nat
  <2> SUFFICES ASSUME NEW i \in 1 .. used PROVE s[i].start \in Nat /\ s[i].reserved \in Nat
    OBVIOUS
  <2>1. s[i] \in DirEntry
    OBVIOUS
  <2> QED
    BY <2>1 DEF DirEntry
<1>6. ThisStart(k) = IF k = used + 1 THEN n - 1 ELSE s[k].start
  BY <1>4
<1>7. start \in Nat /\ 1 <= start /\ (k > 1 => start = s[k - 1].start + s[k - 1].reserved /\ k - 1 \in 1 .. used)
  <2>1. CASE k = 1
    BY <1>3, <2>1
  <2>2. CASE k # 1
    <3>1. k - 1 \in 1 .. used /\ start = s[k - 1].start + s[k - 1].reserved
      BY <1>3, <1>4, <2>2
    <3> QED
      BY <1>5, <3>1
  <2> QED
    BY <2>1, <2>2
<1>8. start <= ThisStart(k)
  <2>1. CASE k = 1
    BY <1>3, <1>4, <1>6, <2>1
  <2>2. CASE k # 1 /\ k = used + 1
    BY <1>4, <1>6, <1>7, <2>2
  <2>3. CASE k # 1 /\ k # used + 1
    <3>1. k - 1 \in 1 .. used /\ k \in 1 .. used /\ k - 1 < k
      BY <1>4, <2>3
    <3> QED
      BY <1>4, <1>6, <1>7, <2>3, <3>1
  <2> QED
    BY <2>1, <2>2, <2>3
<1>9. start + requested <= ThisStart(k) /\ ThisStart(k) \in Int /\ ThisStart(k) <= n - 1
  <2>1. ThisStart(k) \in Int /\ ThisStart(k) <= n - 1
    BY <1>4, <1>5, <1>6
  <2> HIDE DEF ThisStart
  <2> QED
    BY <1>4, <1>7, <1>8, <2>1 DEF Fits
<1>10. ASSUME NEW j \in 1 .. used
       PROVE  s[j].start + s[j].reserved <= start \/ start + requested <= s[j].start
  <2>1. CASE j >= k
    <3>1. k \in 1 .. used /\ ThisStart(k) = s[k].start
      BY <1>4, <1>6, <2>1
    <3>2. s[k].start <= s[j].start
      <4>1. CASE j = k
        BY <1>5, <4>1
      <4>2. CASE k < j
        <5>1. s[k].start + s[k].reserved <= s[j].start
          BY <3>1, <4>2
        <5>2. s[k].start \in Nat /\ s[k].reserved \in Nat /\ s[j].start \in Nat
          BY <1>5, <3>1
        <5> QED
          BY <5>1, <5>2
      <4> QED
        BY <1>4, <2>1, <4>1, <4>2
    <3> HIDE DEF ThisStart
    <3> QED
      BY <1>5, <1>7, <1>9, <3>1, <3>2
  <2>2. CASE j < k
    <3>1. k - 1 \in 1 .. used /\ start = s[k - 1].start + s[k - 1].reserved
      BY <1>4, <1>7, <2>2
    <3>2. CASE j = k - 1
      BY <1>5, <3>1, <3>2
    <3>3. CASE j < k - 1
      <4>1. s[j].start + s[j].reserved <= s[k - 1].start
        BY <3>1, <3>3
      <4>2. /\ s[j].start \in Nat /\ s[j].reserved \in Nat
            /\ s[k - 1].start \in Nat /\ s[k - 1].reserved \in Nat
        BY <1>5, <3>1
      <4>3. start = s[k - 1].start + s[k - 1].reserved
        BY <3>1
      <4> DEFINE x == s[j].start + s[j].reserved
                 y == s[k - 1].start
                 r == s[k - 1].reserved
      <4>4. x \in Nat /\ y \in Nat /\ r \in Nat /\ x <= y /\ start = y + r
        BY <4>1, <4>2, <4>3
      <4> HIDE DEF x, y, r
      <4>5. x <= start
        BY <4>4
      <4> QED
        BY <4>5 DEF x
    <3> QED
      BY <1>4, <2>2, <3>2, <3>3
  <2> QED
    BY <1>4, <2>1, <2>2
<1> HIDE DEF ThisStart
<1> QED
  BY <1>7, <1>9, <1>10

LEMMA CreateInFreeBlocks ==
    ASSUME IInv, sound, num_blocks >= 3, NoneDeleted(image.dir),
           NEW f \in Names, NEW mib \in 1 .. MaxMiB, Create(f, mib)
    PROVE  sound'
<1> DEFINE requested == (mib + 1) \div 2
           e(s) == Entry(f, NewFileStart(s, requested), requested, 0)
<1>1. PICK s \in Sorted(image.dir) :
         /\ NewFileStart(s, requested) # 0
         /\ sound' = (sound /\ Disjoint(Marked(image.dir, e(s))) /\ NoneLost(image.dir, Marked(image.dir, e(s))))
  BY DEF Create, Marked
<1>2. PICK start, need, n, dir :
         start = NewFileStart(s, requested) /\ need = requested /\ n = image.blocks /\ dir = image.dir
  OBVIOUS
<1>3. /\ TypeOK /\ dir \in Directory /\ n \in Nat /\ n >= 3 /\ LastBlock = n - 1
      /\ FreeSlots(dir) # {} /\ NoneDeleted(dir) /\ Kept(dir, image.data, wrote) /\ Apart(dir, n)
  BY <1>2 DEF IInv, FilesInv, TypeOK, Create, num_blocks, LastBlock
<1>4. need \in Nat /\ need > 0
  BY <1>2
<1>5. PICK used : used = num_used_entries(dir)
  OBVIOUS
<1>6. \A i \in Live(dir) : dir[i].reserved > 0
  BY <1>3 DEF Kept
<1>7. /\ used \in Nat /\ s \in Seq(DirEntry) /\ Len(s) = used
      /\ \A i \in Live(dir) : \E j \in 1 .. used : s[j] = dir[i]
      /\ \A i \in 1 .. used : /\ s[i] \in DirEntry /\ s[i].name # Deleted
                              /\ 1 <= s[i].start /\ s[i].start < n - 1
                              /\ s[i].start + s[i].reserved <= n - 1
      /\ \A i, j \in 1 .. used : i < j => s[i].start + s[i].reserved <= s[j].start
  <2>1. s \in Sorted(dir)
    BY <1>2
  <2>2. dir \in Directory /\ n \in Nat /\ NoneDeleted(dir) /\ FreeSlots(dir) # {} /\ Apart(dir, n)
    BY <1>3
  <2> QED
    BY <1>5, <1>6, <2>1, <2>2, SortedFiles
<1>8. start = NewFileStart(s, need) /\ start # 0
  BY <1>1, <1>2
<1>9. /\ start \in Nat /\ 1 <= start /\ start + need <= n - 1
      /\ \A j \in 1 .. used : s[j].start + s[j].reserved <= start \/ start + need <= s[j].start
  BY <1>3, <1>4, <1>7, <1>8, GapValue
<1>10. PICK new : new = Entry(f, start, need, 0)
  OBVIOUS
<1>11. /\ new \in DirEntry /\ new.name = f /\ new.size = 0 /\ new.reserved = need /\ new.start = start
  BY <1>4, <1>9, <1>10 DEF Entry, DirEntry
<1>12. PICK d, slot : d = Marked(dir, new) /\ slot = Min(FreeSlots(dir))
  OBVIOUS
<1>13. d[slot] = new /\ NewFile(dir, d, slot, f) /\ NoneLost(dir, d)
  BY <1>3, <1>4, <1>11, <1>12, MarkedEntry
<1>14. Blocks(new) \subseteq 1 .. (n - 2)
  BY <1>3, <1>4, <1>9, <1>11 DEF Blocks
<1>15. ASSUME NEW i \in Live(dir)
       PROVE  Blocks(new) \cap Blocks(dir[i]) = {}
  <2>1. PICK j \in 1 .. used : s[j] = dir[i]
    BY <1>7
  <2>2. s[j].start \in Nat /\ s[j].reserved \in Nat
    <3>1. s[j] \in DirEntry
      BY <1>7
    <3> QED
      BY <3>1 DEF DirEntry
  <2>3. s[j].start + s[j].reserved <= start \/ start + need <= s[j].start
    BY <1>9
  <2> QED
    BY <1>4, <1>9, <1>11, <2>1, <2>2, <2>3 DEF Blocks
<1>16. Apart(d, n)
  <2>1. \A i \in Live(d) : Blocks(d[i]) \subseteq 1 .. (n - 2)
    BY <1>3, <1>13, <1>14 DEF Apart, NewFile
  <2>2. ASSUME NEW i \in Live(d), NEW j \in Live(d), i # j
        PROVE  Blocks(d[i]) \cap Blocks(d[j]) = {}
    BY <1>3, <1>13, <1>15, <2>2 DEF Apart, NewFile
  <2> QED
    BY <2>1, <2>2 DEF Apart
<1>17. Disjoint(d)
  BY <1>2, <1>3, <1>16, ApartIsDisjoint
<1>18. d = Marked(image.dir, e(s)) /\ NoneLost(image.dir, d)
  BY <1>2, <1>10, <1>12, <1>13
<1> HIDE DEF e
<1> QED
  BY <1>1, <1>17, <1>18

\* A file is created in blocks no other file holds, and no other is lost, when no
\* deleted entry is in the way, whatever was created and deleted before, in any
\* order qsort leaves.
THEOREM CreatesInFreeBlocksHolds == Spec => CreatesInFreeBlocks
<1> DEFINE Settled == sound /\ num_blocks >= 3 /\ NoneDeleted(image.dir)
<1>1. IInv /\ [Next]_vars => [Settled => sound']_vars
  <2> SUFFICES ASSUME IInv, Next, Settled PROVE sound'
    OBVIOUS
  <2>1. ASSUME NEW f \in Names, NEW m \in 1 .. MaxMiB, Create(f, m) PROVE sound'
    BY <2>1, CreateInFreeBlocks
  <2>2. CASE Initialize \/ FormatDirectory
    BY <2>2 DEF Initialize, FormatDirectory
  <2>3. CASE \/ \E f \in Names : Delete(f) \/ Write(f)
             \/ WriteDirectory
             \/ \E force \in BOOLEAN : Format(force)
             \/ FormatMarker
             \/ FillBlock \/ Filled
             \/ \E p \in Parts : WritePart(p)
             \/ Close \/ Exit \/ Killed
    BY <2>3 DEF Delete, Write, WriteDirectory, Format, FormatMarker, FillBlock, Filled,
                WritePart, Close, Exit, Killed
  <2> QED
    BY <2>1, <2>2, <2>3 DEF Next
<1>2. IInv /\ [Next]_vars =>
         [(/\ sound /\ num_blocks >= 3
           /\ \A i \in Slots : i < Terminator(image.dir) => image.dir[i].name # Deleted)
          => sound']_vars
  BY <1>1 DEF NoneDeleted
<1> QED
  BY DiskInvariant, <1>2, PTL DEF Spec, CreatesInFreeBlocks

-----------------------------------------------------------------------------
(* The size argument of initialize                                         *)

LEMMA SetInduction ==
    ASSUME NEW S, 0 \in S, \A n \in Nat : n \in S => n + 1 \in S
    PROVE  Nat \subseteq S
<1> DEFINE T == Nat \ S
<1> SUFFICES ASSUME T # {} PROVE FALSE
  OBVIOUS
<1>1. T \in SUBSET Nat
  OBVIOUS
<1> HIDE DEF T
<1>2. Min(T) \in T /\ \A m \in T : Min(T) <= m
  BY <1>1, LeastNatural
<1> DEFINE n == Min(T)
<1> HIDE DEF n
<1>3. n \in Nat /\ n \notin S /\ \A m \in T : n <= m
  BY <1>2 DEF T, n
<1>4. n # 0 /\ n - 1 \in Nat
  BY <1>3
<1>5. n - 1 \in S
  BY <1>3, <1>4 DEF T
<1> QED BY <1>3, <1>4, <1>5

\* What k steps make of v, one after the other.
Walk(f, v, step, k) == f \in [0..k -> Int] /\ f[0] = v /\ \A n \in 1..k : f[n] = step[n][f[n - 1]]

LEMMA Recursion ==
    ASSUME NEW k \in Nat, NEW v \in Int, NEW step \in [1..k -> [Int -> Int]]
    PROVE  \E f : Walk(f, v, step, k)
<1> DEFINE S == {m \in Nat : m <= k => \E f : Walk(f, v, step, m)}
<1>1. 0 \in S
  <2>1. Walk([n \in 0..0 |-> v], v, step, 0)
    BY DEF Walk
  <2> QED BY <2>1
<1>2. ASSUME NEW m \in Nat, m \in S PROVE m + 1 \in S
  <2> SUFFICES ASSUME m + 1 <= k PROVE \E f : Walk(f, v, step, m + 1)
    OBVIOUS
  <2>1. PICK f : Walk(f, v, step, m)
    BY <1>2
  <2>2. m \in 0..m /\ m + 1 \in 1..k /\ f[m] \in Int
    BY <2>1 DEF Walk
  <2>3. step[m + 1] \in [Int -> Int]
    BY <2>2
  <2> DEFINE g == [n \in 0..m + 1 |-> IF n = m + 1 THEN step[m + 1][f[m]] ELSE f[n]]
  <2>4. \A n \in 0..m : g[n] = f[n]
    OBVIOUS
  <2>5. g[m + 1] = step[m + 1][f[m]] /\ g[m + 1] \in Int
    <3>1. m + 1 \in 0..m + 1
      OBVIOUS
    <3>2. step[m + 1][f[m]] \in Int
      BY <2>2, <2>3
    <3> QED BY <3>1, <3>2
  <2>6. g \in [0..m + 1 -> Int]
    <3>1. \A n \in 0..m + 1 : n = m + 1 \/ n \in 0..m
      OBVIOUS
    <3> QED BY <2>1, <2>4, <2>5, <3>1 DEF Walk
  <2> HIDE DEF g
  <2>7. \A n \in 1..m + 1 : g[n] = step[n][g[n - 1]]
    <3> TAKE n \in 1..m + 1
    <3>1. CASE n = m + 1
      <4>1. n - 1 = m
        BY <3>1
      <4>2. g[n - 1] = f[m]
        BY <2>2, <2>4, <4>1
      <4> QED BY <2>5, <3>1, <4>2
    <3>2. CASE n # m + 1
      <4>1. n \in 1..m /\ n \in 0..m /\ n - 1 \in 0..m
        BY <3>2
      <4> QED BY <2>1, <2>4, <4>1 DEF Walk
    <3> QED BY <3>1, <3>2
  <2>8. g[0] = v
    <3>1. 0 \in 0..m
      OBVIOUS
    <3> QED BY <2>1, <2>4, <3>1 DEF Walk
  <2> QED BY <2>6, <2>7, <2>8 DEF Walk
<1> HIDE DEF S
<1>3. k \in S
  BY <1>1, <1>2, SetInduction
<1> QED BY <1>3 DEF S

LEMMA ReadDigitsSteps ==
    ASSUME NEW d, Len(d) \in Nat, \A n \in 1..Len(d) : d[n] \in Nat
    PROVE  \E f : /\ ReadDigits(d) = f[Len(d)] /\ f[0] = 0
                  /\ \A n \in 1..Len(d) : f[n] = TakeDigit(f[n - 1], d[n])
<1> DEFINE k == Len(d)
           Reads(f) == f = [n \in 0..k |-> IF n = 0 THEN 0 ELSE TakeDigit(f[n - 1], d[n])]
           step == [n \in 1..k |-> [x \in Int |-> TakeDigit(x, d[n])]]
<1>1. ASSUME NEW n \in 1..k, NEW x \in Int PROVE TakeDigit(x, d[n]) \in Int
  <2>1. Modulus \in Nat /\ Modulus > 0 /\ Radix \in Nat /\ d[n] \in Nat
    BY BmfsAssumption
  <2>2. x * Radix \in Int
    BY <2>1
  <2>3. (x * Radix) % Modulus \in Int
    BY <2>1, <2>2
  <2>4. (((x * Radix) % Modulus) + d[n]) % Modulus \in Int
    BY <2>1, <2>3
  <2> QED BY <2>1, <2>4 DEF TakeDigit, Refused
<1>2. PICK f : Walk(f, 0, step, k)
  <2>1. step \in [1..k -> [Int -> Int]]
    BY <1>1
  <2>2. k \in Nat /\ 0 \in Int
    OBVIOUS
  <2> HIDE DEF step, k
  <2> QED BY <2>1, <2>2, Recursion
<1>3. Reads(f)
  <2>1. \A n \in 0..k : f[n] = IF n = 0 THEN 0 ELSE TakeDigit(f[n - 1], d[n])
    <3> TAKE n \in 0..k
    <3>1. CASE n # 0
      <4>1. n \in 1..k /\ f[n - 1] \in Int
        BY <1>2, <3>1 DEF Walk
      <4> QED BY <1>2, <3>1, <4>1 DEF Walk
    <3> QED BY <1>2, <3>1 DEF Walk
  <2> QED BY <1>2, <2>1 DEF Walk
<1> DEFINE g == CHOOSE h : Reads(h)
<1>4. Reads(g)
  BY <1>3
<1>5. ReadDigits(d) = g[k]
  BY DEF ReadDigits
<1> HIDE DEF g
<1>6. g[0] = 0 /\ \A n \in 1..k : g[n] = TakeDigit(g[n - 1], d[n])
  <2>1. \A n \in 0..k : g[n] = IF n = 0 THEN 0 ELSE TakeDigit(g[n - 1], d[n])
    BY <1>4
  <2>2. 0 \in 0..k /\ \A n \in 1..k : n \in 0..k /\ n # 0
    OBVIOUS
  <2> HIDE DEF Reads, k
  <2> QED BY <2>1, <2>2
<1> QED BY <1>5, <1>6

\* A product with a factor above one.
LEMMA ProductGrows ==
    ASSUME NEW v \in Nat, NEW r \in Nat \ {0, 1}
    PROVE  v * r \in Nat /\ v <= v * r /\ (v > 0 => v < v * r)
<1>1. v * r = v + v * (r - 1) /\ v * (r - 1) \in Nat /\ (v > 0 => v * (r - 1) > 0)
  OBVIOUS
<1> QED BY <1>1

LEMMA SmallRest ==
    ASSUME NEW n \in Nat, NEW m \in Nat, n < m
    PROVE  n % m = n
OBVIOUS

\* A digit is taken exactly when the number still fits.
LEMMA TakesDigit ==
    ASSUME NEW v \in Nat, NEW n \in Nat, v * Radix + n < Modulus
    PROVE  TakeDigit(v, n) = v * Radix + n
<1>1. Modulus \in Nat /\ Radix \in Nat \ {0, 1}
  BY BmfsAssumption
<1>2. v * Radix \in Nat /\ v <= v * Radix /\ (v > 0 => v < v * Radix)
  BY <1>1, ProductGrows
<1>3. (v * Radix) % Modulus = v * Radix /\ (v * Radix + n) % Modulus = v * Radix + n
  BY <1>1, <1>2, SmallRest
<1>4. CASE v = 0
  <2>1. v * Radix = 0
    BY <1>1, <1>4
  <2> QED BY <1>3, <1>4, <2>1 DEF TakeDigit, Refused
<1>5. CASE v > 0
  BY <1>2, <1>3, <1>5 DEF TakeDigit, Refused
<1> QED BY <1>4, <1>5

LEMMA ScaledSteps ==
    ASSUME NEW v \in Nat, v > 0, NEW k \in Nat
    PROVE  \E f : Scaled(v, k) = f[k] /\ f[0] = v /\ \A n \in 1..k : f[n] = Scale(f[n - 1])
<1> DEFINE Scales(f) == f = [n \in 0..k |-> IF n = 0 THEN v ELSE Scale(f[n - 1])]
           step == [n \in 1..k |-> [x \in Int |-> Scale(x)]]
<1>1. ASSUME NEW x \in Int PROVE Scale(x) \in Int
  <2>1. Modulus \in Nat /\ Modulus > 0 /\ Kilo \in Nat
    BY BmfsAssumption
  <2>2. x * Kilo \in Int
    BY <2>1
  <2>3. (x * Kilo) % Modulus \in Int
    BY <2>1, <2>2
  <2> QED BY <2>3 DEF Scale, Refused
<1>2. PICK f : Walk(f, v, step, k)
  <2>1. step \in [1..k -> [Int -> Int]] /\ v \in Int
    BY <1>1
  <2> HIDE DEF step
  <2> QED BY <2>1, Recursion
<1>3. Scales(f)
  <2>1. \A n \in 0..k : f[n] = IF n = 0 THEN v ELSE Scale(f[n - 1])
    <3> TAKE n \in 0..k
    <3>1. CASE n # 0
      <4>1. n \in 1..k /\ f[n - 1] \in Int
        BY <1>2, <3>1 DEF Walk
      <4> QED BY <1>2, <3>1, <4>1 DEF Walk
    <3> QED BY <1>2, <3>1 DEF Walk
  <2> QED BY <1>2, <2>1 DEF Walk
<1> DEFINE g == CHOOSE h : Scales(h)
<1>4. Scales(g)
  BY <1>3
<1>5. Scaled(v, k) = g[k]
  BY DEF Scaled
<1> HIDE DEF g
<1>6. g[0] = v /\ \A n \in 1..k : g[n] = Scale(g[n - 1])
  <2>1. \A n \in 0..k : g[n] = IF n = 0 THEN v ELSE Scale(g[n - 1])
    BY <1>4
  <2>2. 0 \in 0..k /\ \A n \in 1..k : n \in 0..k /\ n # 0
    OBVIOUS
  <2> HIDE DEF Scales
  <2> QED BY <2>1, <2>2
<1> QED BY <1>5, <1>6

LEMMA MeaningSteps ==
    ASSUME NEW s, Len(Number(s)) \in Nat, \A n \in 1..Len(Number(s)) : Number(s)[n] \in Nat, Factor(s) \in Nat
    PROVE  \E e, f :
             /\ e[0] = 0 /\ \A n \in 1..Len(Number(s)) : e[n] = e[n - 1] * Radix + Number(s)[n]
             /\ f[0] = e[Len(Number(s))] /\ \A n \in 1..Factor(s) : f[n] = f[n - 1] * Kilo
             /\ Meaning(s) = f[Factor(s)]
<1> DEFINE d == Number(s)
           k == Len(d)
           u == Factor(s)
           Means(f) == f = [n \in 0..k |-> IF n = 0 THEN 0 ELSE f[n - 1] * Radix + d[n]]
           digit == [n \in 1..k |-> [x \in Int |-> x * Radix + d[n]]]
           e == CHOOSE h : Means(h)
           Grows(f) == f = [n \in 0..u |-> IF n = 0 THEN e[k] ELSE f[n - 1] * Kilo]
           unit == [n \in 1..u |-> [x \in Int |-> x * Kilo]]
           g == CHOOSE h : Grows(h)
<1>1. Radix \in Nat /\ Kilo \in Nat /\ k \in Nat /\ u \in Nat
  BY BmfsAssumption
<1>2. Meaning(s) = g[u]
  BY DEF Meaning
<1>3. PICK f : Walk(f, 0, digit, k)
  <2>1. digit \in [1..k -> [Int -> Int]] /\ 0 \in Int
    BY <1>1
  <2> HIDE DEF digit, k
  <2> QED BY <1>1, <2>1, Recursion
<1>4. Means(f) /\ f[k] \in Int
  <2>1. \A n \in 0..k : f[n] = IF n = 0 THEN 0 ELSE f[n - 1] * Radix + d[n]
    <3> TAKE n \in 0..k
    <3>1. CASE n # 0
      <4>1. n \in 1..k /\ f[n - 1] \in Int
        BY <1>3, <3>1 DEF Walk
      <4> QED BY <1>3, <3>1, <4>1 DEF Walk
    <3> QED BY <1>3, <3>1 DEF Walk
  <2> QED BY <1>1, <1>3, <2>1 DEF Walk
<1>5. Means(e)
  BY <1>4
<1> HIDE DEF e
<1>6. e[0] = 0 /\ \A n \in 1..k : e[n] = e[n - 1] * Radix + d[n]
  <2>1. \A n \in 0..k : e[n] = IF n = 0 THEN 0 ELSE e[n - 1] * Radix + d[n]
    BY <1>5
  <2>2. 0 \in 0..k /\ \A n \in 1..k : n \in 0..k /\ n # 0
    BY <1>1
  <2> HIDE DEF Means, k, d
  <2> QED BY <2>1, <2>2
<1>7. \A n \in 0..k : e[n] \in Nat
  <2> DEFINE S == {n \in Nat : n <= k => e[n] \in Nat}
  <2>1. 0 \in S
    BY <1>6
  <2>2. ASSUME NEW n \in Nat, n \in S PROVE n + 1 \in S
    <3> SUFFICES ASSUME n + 1 <= k PROVE e[n + 1] \in Nat
      OBVIOUS
    <3>1. n <= k /\ n + 1 \in 1..k /\ (n + 1) - 1 = n
      BY <1>1
    <3>2. e[n] \in Nat /\ d[n + 1] \in Nat
      BY <2>2, <3>1
    <3>3. e[n + 1] = e[n] * Radix + d[n + 1]
      BY <1>6, <3>1
    <3>4. e[n] * Radix \in Nat
      BY <1>1, <3>2
    <3> QED BY <3>2, <3>3, <3>4
  <2> HIDE DEF S
  <2>3. Nat \subseteq S
    BY <2>1, <2>2, SetInduction
  <2> QED BY <1>1, <2>3 DEF S
<1>8. e[k] \in Int
  BY <1>1, <1>7
<1>9. PICK h : Walk(h, e[k], unit, u)
  <2>1. unit \in [1..u -> [Int -> Int]]
    BY <1>1
  <2> HIDE DEF unit, k, u
  <2> QED BY <1>1, <1>8, <2>1, Recursion
<1>10. Grows(h)
  <2>1. \A n \in 0..u : h[n] = IF n = 0 THEN e[k] ELSE h[n - 1] * Kilo
    <3> TAKE n \in 0..u
    <3>1. CASE n # 0
      <4>1. n \in 1..u /\ h[n - 1] \in Int
        BY <1>9, <3>1 DEF Walk
      <4> QED BY <1>9, <3>1, <4>1 DEF Walk
    <3> QED BY <1>9, <3>1 DEF Walk
  <2> QED BY <1>9, <2>1 DEF Walk
<1>11. Grows(g)
  BY <1>10
<1> HIDE DEF g
<1>12. g[0] = e[k] /\ \A n \in 1..u : g[n] = g[n - 1] * Kilo
  <2>1. \A n \in 0..u : g[n] = IF n = 0 THEN e[k] ELSE g[n - 1] * Kilo
    BY <1>11
  <2>2. 0 \in 0..u /\ \A n \in 1..u : n \in 0..u /\ n # 0
    BY <1>1
  <2> HIDE DEF Grows, k, u
  <2> QED BY <2>1, <2>2
<1> QED BY <1>2, <1>6, <1>12

\* A unit is taken exactly when the number still fits.
LEMMA TakesUnit ==
    ASSUME NEW v \in Nat, v > 0, v * Kilo < Modulus
    PROVE  Scale(v) = v * Kilo
<1>1. Modulus \in Nat /\ Kilo \in Nat \ {0, 1}
  BY BmfsAssumption
<1>2. v * Kilo \in Nat /\ v < v * Kilo
  BY <1>1, ProductGrows
<1>3. (v * Kilo) % Modulus = v * Kilo
  BY <1>1, <1>2, SmallRest
<1> QED BY <1>2, <1>3 DEF Scale, Refused

LEMMA Climbs ==
    ASSUME NEW f, NEW k \in Nat, \A n \in 0..k : f[n] \in Nat, \A n \in 1..k : f[n - 1] <= f[n]
    PROVE  \A n \in 0..k : f[n] <= f[k]
<1> DEFINE S == {m \in Nat : m <= k => f[k - m] <= f[k]}
<1>1. 0 \in S
  <2>1. k - 0 = k /\ f[k] \in Nat
    OBVIOUS
  <2> QED BY <2>1
<1>2. ASSUME NEW m \in Nat, m \in S PROVE m + 1 \in S
  <2> SUFFICES ASSUME m + 1 <= k PROVE f[k - (m + 1)] <= f[k]
    OBVIOUS
  <2> DEFINE i == k - m
  <2>1. i \in 1..k /\ i \in 0..k /\ i - 1 \in 0..k /\ k - (m + 1) = i - 1 /\ k \in 0..k /\ m <= k
    OBVIOUS
  <2>2. f[i] <= f[k]
    BY <1>2, <2>1
  <2> HIDE DEF i
  <2>3. f[i - 1] <= f[i] /\ f[i - 1] \in Nat /\ f[i] \in Nat /\ f[k] \in Nat
    BY <2>1
  <2>4. f[i - 1] <= f[k]
    BY <2>2, <2>3
  <2> QED BY <2>1, <2>4
<1> HIDE DEF S
<1>3. Nat \subseteq S
  BY <1>1, <1>2, SetInduction
<1>4. ASSUME NEW n \in 0..k PROVE f[n] <= f[k]
  <2>1. k - n \in Nat /\ k - n <= k /\ k - (k - n) = n
    OBVIOUS
  <2>2. k - n \in S
    BY <1>3, <2>1
  <2> QED BY <2>1, <2>2 DEF S
<1> QED BY <1>4

LEMMA SizeString ==
    ASSUME NEW s \in SizeStrings
    PROVE  /\ Factor(s) \in Nat /\ Len(Number(s)) \in Nat
           /\ \A n \in 1..Len(Number(s)) : Number(s)[n] \in Nat
<1>1. s \in Seq(Nat) /\ Radix \in Nat /\ Len(s) \in Nat
  BY BmfsAssumption
<1>2. Factor(s) \in Nat /\ (Factor(s) # 0 => s # <<>>)
  BY <1>1 DEF Factor
<1>3. PICK m : m = Len(s) - IF Factor(s) = 0 THEN 0 ELSE 1
  OBVIOUS
<1>4. m \in 0..Len(s)
  <2>1. s # <<>> => Len(s) > 0
    BY <1>1, EmptySeq
  <2> QED BY <1>1, <1>2, <1>3, <2>1
<1>5. Number(s) = SubSeq(s, 1, m)
  BY <1>3 DEF Number
<1>6. SubSeq(s, 1, m) \in Seq(Nat)
  BY <1>1, <1>4
<1> QED BY <1>2, <1>5, <1>6

\* A size argument that is accepted and means a number of the width is taken for it.
LEMMA ParsesSize ==
    ASSUME NEW s \in SizeStrings, ParseSize(s) # Refused, Meaning(s) < Modulus
    PROVE  ParseSize(s) = Meaning(s)
<1> DEFINE d == Number(s)
           k == Len(d)
           u == Factor(s)
<1>1. ParseSize(s) = Scaled(ReadDigits(d), u) /\ Scaled(ReadDigits(d), u) >= 3 * BlockBytes
  BY DEF ParseSize, minimumDiskSize
<1>2. /\ Modulus \in Nat /\ BlockBytes \in Nat /\ BlockBytes > 0 /\ Radix \in Nat \ {0, 1} /\ Kilo \in Nat \ {0, 1}
      /\ k \in Nat /\ u \in Nat /\ \A n \in 1..k : d[n] \in Nat
  BY SizeString, BmfsAssumption
<1>3. PICK e, f :
        /\ e[0] = 0 /\ \A n \in 1..k : e[n] = e[n - 1] * Radix + d[n]
        /\ f[0] = e[k] /\ \A n \in 1..u : f[n] = f[n - 1] * Kilo
        /\ Meaning(s) = f[u]
  BY <1>2, MeaningSteps
<1>4. PICK r : ReadDigits(d) = r[k] /\ r[0] = 0 /\ \A n \in 1..k : r[n] = TakeDigit(r[n - 1], d[n])
  BY <1>2, ReadDigitsSteps
<1> HIDE DEF d, k, u
<1>5. /\ \A n \in 0..k : e[n] \in Nat
      /\ \A n \in 1..k : e[n - 1] <= e[n]
  <2>1. ASSUME NEW n \in 1..k, e[n - 1] \in Nat PROVE e[n] \in Nat /\ e[n - 1] <= e[n]
    <3>1. e[n - 1] * Radix \in Nat /\ e[n - 1] <= e[n - 1] * Radix
      BY <1>2, <2>1, ProductGrows
    <3>2. e[n] = e[n - 1] * Radix + d[n] /\ d[n] \in Nat
      BY <1>2, <1>3
    <3> QED BY <2>1, <3>1, <3>2
  <2> DEFINE S == {n \in Nat : n <= k => e[n] \in Nat}
  <2>2. 0 \in S
    BY <1>3
  <2>3. ASSUME NEW n \in Nat, n \in S PROVE n + 1 \in S
    <3> SUFFICES ASSUME n + 1 <= k PROVE e[n + 1] \in Nat
      OBVIOUS
    <3>1. n + 1 \in 1..k /\ n <= k /\ (n + 1) - 1 = n
      BY <1>2
    <3>2. e[n] \in Nat
      BY <2>3, <3>1
    <3> QED BY <2>1, <3>1, <3>2
  <2> HIDE DEF S
  <2>4. Nat \subseteq S
    BY <2>2, <2>3, SetInduction
  <2>5. \A n \in 0..k : e[n] \in Nat
    BY <1>2, <2>4 DEF S
  <2>6. ASSUME NEW n \in 1..k PROVE e[n - 1] <= e[n]
    <3>1. n - 1 \in 0..k
      BY <1>2
    <3> QED BY <2>1, <2>5, <3>1
  <2> QED BY <2>5, <2>6
<1>6. \A n \in 0..k : e[n] <= e[k] /\ e[k] \in Nat
  BY <1>2, <1>5, Climbs
<1>7. /\ \A n \in 0..u : f[n] \in Nat /\ (f[0] > 0 => f[n] > 0)
      /\ \A n \in 1..u : f[n - 1] <= f[n]
  <2>1. ASSUME NEW n \in 1..u, f[n - 1] \in Nat PROVE f[n] \in Nat /\ f[n - 1] <= f[n]
    <3>1. f[n - 1] * Kilo \in Nat /\ f[n - 1] <= f[n - 1] * Kilo
      BY <1>2, <2>1, ProductGrows
    <3> QED BY <1>3, <3>1
  <2> DEFINE S == {n \in Nat : n <= u => f[n] \in Nat /\ (f[0] > 0 => f[n] > 0)}
  <2>2. 0 \in S
    BY <1>2, <1>3, <1>6
  <2>3. ASSUME NEW n \in Nat, n \in S PROVE n + 1 \in S
    <3> SUFFICES ASSUME n + 1 <= u PROVE f[n + 1] \in Nat /\ (f[0] > 0 => f[n + 1] > 0)
      OBVIOUS
    <3>1. n + 1 \in 1..u /\ n <= u /\ (n + 1) - 1 = n
      BY <1>2
    <3>2. f[n] \in Nat /\ (f[0] > 0 => f[n] > 0)
      BY <2>3, <3>1
    <3>3. f[n + 1] \in Nat /\ f[n] <= f[n + 1]
      BY <2>1, <3>1, <3>2
    <3> QED BY <3>2, <3>3
  <2> HIDE DEF S
  <2>4. Nat \subseteq S
    BY <2>2, <2>3, SetInduction
  <2>5. \A n \in 0..u : f[n] \in Nat /\ (f[0] > 0 => f[n] > 0)
    BY <1>2, <2>4 DEF S
  <2>6. ASSUME NEW n \in 1..u PROVE f[n - 1] <= f[n]
    <3>1. n - 1 \in 0..u
      BY <1>2
    <3> QED BY <2>1, <2>5, <3>1
  <2> QED BY <2>5, <2>6
<1>8. \A n \in 0..u : f[n] <= f[u] /\ f[n] < Modulus
  <2>1. \A n \in 0..u : f[n] <= f[u]
    BY <1>2, <1>7, Climbs
  <2>2. f[u] < Modulus /\ f[u] \in Nat
    BY <1>2, <1>3, <1>7
  <2> QED BY <1>2, <1>7, <2>1, <2>2
<1>9. \A n \in 0..k : e[n] < Modulus
  <2>1. e[k] < Modulus
    BY <1>2, <1>3, <1>8
  <2> QED BY <1>2, <1>5, <1>6, <2>1
<1>10. r[k] = e[k]
  <2> DEFINE S == {n \in Nat : n <= k => r[n] = e[n]}
  <2>1. 0 \in S
    BY <1>3, <1>4
  <2>2. ASSUME NEW n \in Nat, n \in S PROVE n + 1 \in S
    <3> SUFFICES ASSUME n + 1 <= k PROVE r[n + 1] = e[n + 1]
      OBVIOUS
    <3>1. n + 1 \in 1..k /\ n + 1 \in 0..k /\ n \in 0..k /\ n <= k /\ (n + 1) - 1 = n
      BY <1>2
    <3>2. r[n] = e[n] /\ e[n] \in Nat /\ d[n + 1] \in Nat
      BY <1>2, <1>5, <2>2, <3>1
    <3>3. e[n + 1] = e[n] * Radix + d[n + 1] /\ e[n + 1] < Modulus
      BY <1>3, <1>9, <3>1
    <3>4. r[n + 1] = TakeDigit(e[n], d[n + 1])
      BY <1>4, <3>1, <3>2
    <3> QED BY <3>2, <3>3, <3>4, TakesDigit
  <2> HIDE DEF S
  <2>3. Nat \subseteq S
    BY <2>1, <2>2, SetInduction
  <2> QED BY <1>2, <2>3 DEF S
<1>11. e[k] > 0
  <2> SUFFICES ASSUME e[k] = 0 PROVE FALSE
    BY <1>6, <1>2
  <2>1. Scaled(0, u) = 0
    BY DEF Scaled
  <2> QED BY <1>1, <1>2, <1>4, <1>10, <2>1
<1>12. PICK g : Scaled(e[k], u) = g[u] /\ g[0] = e[k] /\ \A n \in 1..u : g[n] = Scale(g[n - 1])
  <2>1. e[k] \in Nat
    BY <1>2, <1>5
  <2> QED BY <1>2, <1>11, <2>1, ScaledSteps
<1>13. g[u] = f[u]
  <2> DEFINE S == {n \in Nat : n <= u => g[n] = f[n]}
  <2>1. 0 \in S
    BY <1>3, <1>12
  <2>2. ASSUME NEW n \in Nat, n \in S PROVE n + 1 \in S
    <3> SUFFICES ASSUME n + 1 <= u PROVE g[n + 1] = f[n + 1]
      OBVIOUS
    <3>1. n + 1 \in 1..u /\ n + 1 \in 0..u /\ n \in 0..u /\ n <= u /\ (n + 1) - 1 = n
      BY <1>2
    <3>2. g[n] = f[n] /\ f[n] \in Nat /\ f[n] > 0
      BY <1>3, <1>7, <1>11, <2>2, <3>1
    <3>3. f[n + 1] = f[n] * Kilo /\ f[n + 1] < Modulus
      BY <1>3, <1>8, <3>1
    <3>4. g[n + 1] = Scale(f[n])
      BY <1>12, <3>1, <3>2
    <3> QED BY <3>2, <3>3, <3>4, TakesUnit
  <2> HIDE DEF S
  <2>3. Nat \subseteq S
    BY <2>1, <2>2, SetInduction
  <2> QED BY <1>2, <2>3 DEF S
<1> QED BY <1>1, <1>3, <1>4, <1>10, <1>12, <1>13

\* The size of the image that initialize makes is the one asked for, unless the
\* end of the zeros was lost.
SizeInv ==
    Making =>
        /\ job.asked < Modulus => job.size = job.asked \div BlockBytes
        /\ job.ret = 0 /\ job.pc # "fill" /\ "fill" \notin job.missed => image.blocks = job.size

LEMMA SizeInitialize ==
    ASSUME Initialize PROVE SizeInv'
<1>1. PICK z \in SizeArguments, fs \in {{}, {"mbr"}, {"mbr", "boot"}, Parts} :
         job' = [pc |-> "fill", size |-> z.size \div BlockBytes, files |-> fs, next |-> "mbr",
                 ret |-> 0, err |-> FALSE, missed |-> {}, sys |-> {}, asked |-> z.meaning]
  BY DEF Initialize
<1>2. PICK s \in SizeStrings :
         /\ ParseSize(s) # Refused
         /\ z = [size |-> ParseSize(s), meaning |-> IF WellFormed(s) THEN Meaning(s) ELSE 0]
  BY DEF SizeArguments
<1>3. WellFormed(s)
  BY <1>2 DEF ParseSize
<1>4. z.meaning < Modulus => z.size = z.meaning
  BY <1>2, <1>3, ParsesSize
<1>5. job'.pc = "fill" /\ job'.size = z.size \div BlockBytes /\ job'.asked = z.meaning
  BY <1>1
<1> QED BY <1>4, <1>5 DEF SizeInv

LEMMA SizeNext ==
    ASSUME IInv, SizeInv, [Next]_vars PROVE SizeInv'
<1> USE DEF Passed
<1>1. IInv /\ SizeInv
  OBVIOUS
<1>2. ASSUME NEW f \in Names, NEW m \in 1 .. MaxMiB, Create(f, m) PROVE SizeInv'
  BY <1>2 DEF Create, Ready, SizeInv, Making
<1>3. ASSUME NEW f \in Names, Delete(f) PROVE SizeInv'
  BY <1>3 DEF Delete, Ready, SizeInv, Making
<1>4. ASSUME NEW f \in Names, Write(f) PROVE SizeInv'
  <2>1. job'.pc \in {"idle", "write"}
    BY <1>4 DEF Write, Ready, Idle
  <2> QED BY <2>1 DEF SizeInv, Making
<1>5. CASE WriteDirectory \/ Exit \/ Killed
  <2>1. job'.pc = "idle"
    BY <1>5 DEF WriteDirectory, Exit, Killed, Idle
  <2> QED BY <2>1 DEF SizeInv, Making
<1>6. ASSUME NEW force \in BOOLEAN, Format(force) PROVE SizeInv'
  <2>1. job'.next = "idle"
    BY <1>6 DEF Format
  <2> QED BY <2>1 DEF SizeInv, Making
<1>7. CASE Initialize
  BY <1>7, SizeInitialize
<1>8. CASE FormatDirectory
  <2>1. CASE job.next = "idle"
    <3>1. job'.pc = "idle"
      BY <1>8, <2>1 DEF FormatDirectory, Idle
    <3> QED BY <3>1 DEF SizeInv, Making
  <2>2. CASE job.next # "idle"
    <3>1. Making /\ job.pc = "format"
      BY <1>8, <2>2 DEF FormatDirectory, IInv, JobInv, MakeInv, Formatting
    <3>2. \/ job' = [job EXCEPT !.pc = job.next]
          \/ job' = [job EXCEPT !.pc = job.next, !.err = TRUE, !.missed = @ \cup {"write"}]
      BY <1>8, <2>2 DEF FormatDirectory, Unseen
    <3>3. /\ job'.size = job.size /\ job'.asked = job.asked /\ job'.ret = job.ret
          /\ job.missed \subseteq job'.missed
      <4>1. CASE job' = [job EXCEPT !.pc = job.next]
        BY <3>1, <4>1 DEF Making
      <4>2. CASE job' = [job EXCEPT !.pc = job.next, !.err = TRUE, !.missed = @ \cup {"write"}]
        BY <3>1, <4>2 DEF Making
      <4> QED BY <3>2, <4>1, <4>2
    <3>4. image'.blocks = image.blocks
      BY <1>8 DEF FormatDirectory, IInv, TypeOK
    <3> QED BY <3>1, <3>3, <3>4 DEF SizeInv
  <2> QED BY <2>1, <2>2
<1>9. CASE FillBlock
  <2>1. Making /\ job.pc = "fill"
    BY <1>9 DEF FillBlock, IInv, JobInv, MakeInv, Formatting
  <2>2. CASE job' = job
    BY <2>1, <2>2 DEF SizeInv
  <2>3. CASE job' = [job EXCEPT !.pc = "close", !.ret = 1, !.err = TRUE]
    <3>1. job'.size = job.size /\ job'.asked = job.asked /\ job'.ret = 1
      BY <2>1, <2>3 DEF Making
    <3> QED BY <2>1, <3>1 DEF SizeInv
  <2>4. CASE job' = [job EXCEPT !.pc = "marker", !.missed = {"fill"}]
    <3>1. job'.size = job.size /\ job'.asked = job.asked /\ "fill" \in job'.missed
      BY <2>1, <2>4 DEF Making
    <3> QED BY <2>1, <3>1 DEF SizeInv
  <2> QED BY <1>9, <2>2, <2>3, <2>4 DEF FillBlock
<1>10. CASE Filled
  <2>1. Making /\ job.pc = "fill" /\ image.blocks = job.size
    BY <1>10 DEF Filled, IInv, JobInv, MakeInv, Formatting
  <2>2. job'.size = job.size /\ job'.asked = job.asked
    BY <1>10, <2>1 DEF Filled, Making
  <2>3. image'.blocks = image.blocks
    BY <1>10 DEF Filled
  <2> QED BY <2>1, <2>2, <2>3 DEF SizeInv
<1>11. ASSUME NEW p \in Parts, WritePart(p) PROVE SizeInv'
  <2>1. Making /\ job.pc # "fill" /\ image' = image
    BY <1>11 DEF WritePart, IInv, JobInv, MakeInv, Formatting, Parts
  <2>2. Ferror(p) = 0 => job.ret = 0
    BY DEF Ferror
  <2>3. /\ job'.size = job.size /\ job'.asked = job.asked /\ (job'.ret = 0 => job.ret = 0)
        /\ job.missed \subseteq job'.missed
    <3>1. CASE job' = [job EXCEPT !.pc = After[p]]
      BY <2>1, <3>1 DEF Making
    <3>2. CASE job' = [job EXCEPT !.pc = After[p], !.sys = @ \cup {p}, !.ret = Ferror(p)]
      BY <2>1, <2>2, <3>2 DEF Making
    <3>3. CASE job' = [job EXCEPT !.pc = After[p], !.ret = 1]
      BY <2>1, <3>3 DEF Making
    <3>4. CASE job' = [job EXCEPT !.pc = After[p], !.missed = @ \cup {"read"}, !.ret = Ferror(p)]
      BY <2>1, <2>2, <3>4 DEF Making
    <3>5. CASE job' = [job EXCEPT !.pc = After[p], !.err = TRUE, !.missed = @ \cup {"write"}]
      BY <2>1, <3>5 DEF Making
    <3> QED BY <1>11, <3>1, <3>2, <3>3, <3>4, <3>5 DEF WritePart, Unseen
  <2> QED BY <2>1, <2>3 DEF SizeInv
<1>12. CASE UNCHANGED vars
  BY <1>1, <1>12 DEF vars, SizeInv, Making
<1>13. CASE FormatMarker
  <2>1. \/ job' = [job EXCEPT !.pc = "format"]
        \/ job' = [job EXCEPT !.pc = "format", !.err = TRUE, !.missed = @ \cup {"write"}]
    BY <1>13 DEF FormatMarker, Unseen
  <2>2. image'.blocks = image.blocks
    BY <1>13 DEF FormatMarker, IInv, TypeOK
  <2>3. CASE Making /\ ~Formatting
    <3>1. /\ job.pc = "marker" /\ job'.size = job.size /\ job'.asked = job.asked /\ job'.ret = job.ret
          /\ job.missed \subseteq job'.missed
      <4>1. job.pc = "marker"
        BY <1>13 DEF FormatMarker
      <4>2. CASE job' = [job EXCEPT !.pc = "format"]
        BY <2>3, <4>1, <4>2 DEF Making
      <4>3. CASE job' = [job EXCEPT !.pc = "format", !.err = TRUE, !.missed = @ \cup {"write"}]
        BY <2>3, <4>1, <4>3 DEF Making
      <4> QED BY <2>1, <4>2, <4>3
    <3> QED BY <2>2, <2>3, <3>1 DEF SizeInv
  <2>4. CASE Formatting
    <3>1. job'.next = "idle"
      BY <2>1, <2>4 DEF Formatting
    <3> QED BY <3>1 DEF SizeInv, Making
  <2>5. Making \/ Formatting
    BY <1>13 DEF FormatMarker, IInv, JobInv, MakeInv, Passed
  <2> QED BY <2>3, <2>4, <2>5
<1>14. CASE Close
  <2>1. Making /\ job.pc = "close" /\ image' = image
    BY <1>14 DEF Close, IInv, JobInv, MakeInv, Formatting, Passed
  <2>2. /\ job'.size = job.size /\ job'.asked = job.asked /\ job'.ret = job.ret
        /\ job.missed \subseteq job'.missed
    <3>1. CASE job' = [job EXCEPT !.pc = "exit"]
      BY <2>1, <3>1 DEF Making
    <3>2. ASSUME NEW part \in Parts, job' = [job EXCEPT !.pc = "exit", !.sys = @ \ {part}, !.missed = @ \cup {"close"}]
          PROVE  /\ job'.size = job.size /\ job'.asked = job.asked /\ job'.ret = job.ret
                 /\ job.missed \subseteq job'.missed
      BY <2>1, <3>2 DEF Making
    <3> QED BY <1>14, <3>1, <3>2 DEF Close
  <2> QED BY <2>1, <2>2 DEF SizeInv
<1> QED
  BY <1>2, <1>3, <1>4, <1>5, <1>6, <1>7, <1>8, <1>9, <1>10, <1>11, <1>12, <1>13, <1>14 DEF Next

\* initialize makes an image of the size that was asked for, whatever the string, in
\* any base and any width, unless the number does not fit in the width or the end
\* of the zeros failed unseen.
THEOREM SizeIsWhatWasAskedHolds == Spec => []SizeIsWhatWasAsked
<1>1. Init => SizeInv
  BY DEF Init, SizeInv, Making, Idle, Passed
<1>2. IInv /\ SizeInv /\ [Next]_vars => SizeInv'
  BY SizeNext
<1>3. IInv /\ SizeInv => SizeIsWhatWasAsked
  <2> SUFFICES ASSUME IInv, SizeInv, job.pc = "exit", job.ret = 0, job.asked < Modulus, "fill" \notin job.missed
               PROVE  image.blocks = job.asked \div BlockBytes
    BY DEF SizeIsWhatWasAsked
  <2>1. Making
    BY DEF IInv, JobInv, MakeInv, Formatting, Passed
  <2> QED BY <2>1 DEF SizeInv
<1> QED BY <1>1, <1>2, <1>3, DiskInvariant, PTL DEF Spec

=============================================================================
