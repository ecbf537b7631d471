--------------------------- MODULE FragReadProofs ---------------------------
(* What frag-rd-test leaves on the disk and what it has measured, for disks  *)
(* of any size and any number of system calls that fail; and why it never    *)
(* gets to a third of the files on some of them.                             *)
EXTENDS FragReadTest, FiniteSetTheorems, TLAPS

\* Where the command is, and what it has done so far: the first part leaves
\* no small files behind and takes none for its own, so the second finds the
\* disk empty.
StageInv ==
  /\ pc \in {"big", "read", "fill", "remove", "clean"} => dir
  /\ part = 1 => nr = 0 /\ deleted = 0 /\ ~fd /\ pc \notin {"fill", "remove"}
  /\ part = 1 /\ pc # "idle" /\ dirty => small # {}
  /\ part = 2 => pc # "big" /\ ~dirty
  /\ part = 2 /\ pc = "mkdir" => small = {} /\ nr = 0
  /\ pc \in {"mkdir", "fill"} /\ part = 2 => empty = {} /\ big = Absent /\ deleted = 0 /\ ~fd
  /\ rv = 0 => pc = "idle" /\ part = 2

\* The files are written one by one, until a write fails; the last may be the
\* one without contents.
FileInv ==
  /\ pc = "fill" => nr <= cap /\ small = 0..(nr - 1)
  /\ pc = "remove" =>
       /\ nr >= 1 /\ empty \subseteq {nr - 1} /\ deleted <= to_delete
       /\ ~fd => deleted = 0 /\ big = Absent
       /\ fd => big # Absent

\* What the read tests find when no system call fails.
MeasureInv ==
  faults = 0 =>
    /\ part = 1 /\ pc = "read" => big = cap - Cardinality(small \ empty)
    /\ part = 1 /\ pc = "clean" => read[1] = cap - Cardinality(small \ empty)
    /\ part = 2 => read[1] = cap
    /\ part = 2 /\ pc = "read" /\ nr >= 3 => big \in {to_delete, to_delete - 1}
    /\ part = 2 /\ (pc = "clean" \/ rv = 0) /\ nr >= 3 => read[2] \in {to_delete, to_delete - 1}

TestInv == FragInv /\ StageInv /\ FileInv /\ CleanReturn /\ MeasureInv

-----------------------------------------------------------------------------
(* The sets of files, and how much of the disk they take.                   *)

\* No set of files outgrows the numbers the files can have.
LEMMA FilesFinite ==
  ASSUME TypeOK, NEW S, S \subseteq small
  PROVE  /\ cap \in Nat /\ IsFiniteSet(S) /\ Cardinality(S) \in Nat
         /\ Cardinality(S) <= Cardinality(small)
<1>1. cap \in Nat
  BY FragAssumption DEF TypeOK
<1>2. IsFiniteSet(0..cap)
  BY <1>1, FS_Interval
<1>3. small \subseteq 0..cap
  BY DEF TypeOK
<1>4. IsFiniteSet(small)
  BY <1>2, <1>3, FS_Subset
<1>5. IsFiniteSet(S) /\ Cardinality(S) <= Cardinality(small)
  BY <1>4, FS_Subset
<1>6. Cardinality(S) \in Nat
  BY <1>5, FS_CardinalityType
<1> QED BY <1>1, <1>5, <1>6

\* What has been deleted from the files was not free before.
LEMMA DeletedFrees ==
  ASSUME TypeOK, NEW S, S \subseteq small
  PROVE  /\ Cardinality(S \ empty) \in Nat
         /\ Cardinality(S \ empty) <= Cardinality(small \ empty)
         /\ Cardinality(small \ empty) \in Nat
<1>1. IsFiniteSet(small \ empty) /\ IsFiniteSet(S \ empty)
  BY FilesFinite DEF TypeOK
<1>2. Cardinality(S \ empty) <= Cardinality(small \ empty)
  <2>1. S \ empty \subseteq small \ empty
    OBVIOUS
  <2> QED BY <1>1, <2>1, FS_Subset
<1> QED BY <1>1, <1>2, FS_CardinalityType

LEMMA Fits ==
  ASSUME NEW x \in Nat, NEW y \in 0..x, NEW z \in 0..(x - y)
  PROVE  y + z <= x
  OBVIOUS

\* The small files with contents leave room for the big file.
LEMMA RoomLeft ==
  ASSUME TypeOK, DiskInv
  PROVE  cap \in Nat /\ cap - Cardinality(small \ empty) \in 0..cap
<1>1. Cardinality(small \ empty) \in Nat
  BY DeletedFrees
<1>2. cap \in Nat /\ big \in Int /\ big >= -1
  BY FragAssumption DEF TypeOK, Absent
<1>3. Cardinality(small \ empty) + (IF big = -1 THEN 0 ELSE big) <= cap
  BY DEF DiskInv, Used, Absent
<1> QED BY <1>1, <1>2, <1>3

\* The generator stays within its word.
LEMMA DrawnType ==
  ASSUME TypeOK
  PROVE  drawn \in [hi : 0..(Hi - 1), lo : 0..(Lo - 1)]
<1>1. rnd.hi \in Nat /\ rnd.lo \in Nat
  BY FragAssumption DEF TypeOK
<1>2. a % Lo \in Nat /\ a \div Lo \in Nat
  BY FragAssumption DEF a
<1> DEFINE low == rnd.lo * (a % Lo) + c
           w == rnd.hi * (a % Lo) + rnd.lo * (a \div Lo) + (low \div Lo)
<1>3. low \in Nat
  BY <1>1, <1>2 DEF c
<1>4. low % Lo \in 0..(Lo - 1) /\ low \div Lo \in Nat
  <2> HIDE DEF low
  <2> QED BY <1>3, FragAssumption
<1>5. w \in Nat
  <2> HIDE DEF low
  <2>1. rnd.hi * (a % Lo) \in Nat /\ rnd.lo * (a \div Lo) \in Nat
    BY <1>1, <1>2
  <2> QED BY <1>4, <2>1
<1>6. w % Hi \in 0..(Hi - 1)
  <2> HIDE DEF w
  <2> QED BY <1>5, FragAssumption
<1>7. drawn = [lo |-> low % Lo, hi |-> w % Hi]
  BY DEF drawn, pseudo_random
<1> QED BY <1>4, <1>6, <1>7

LEMMA InitTest == ASSUME Init PROVE TestInv
<1> USE FragAssumption
<1>1. cap \in Nat /\ Cardinality({}) = 0 /\ small \ empty = {}
  BY FS_EmptySet DEF Init
<1>2. TypeOK
  <2>1. read \in [{1, 2} -> Absent..cap]
    BY <1>1 DEF Init, Absent
  <2>2. rnd \in [hi : 0..(Hi - 1), lo : 0..(Lo - 1)]
    BY DEF Init
  <2>3. dir \in BOOLEAN /\ dirty \in BOOLEAN /\ fd \in BOOLEAN
    BY DEF Init
  <2>4. /\ cap \in Capacities /\ args \in ArgVectors \cup {<<>>}
        /\ small \subseteq 0..cap /\ empty \subseteq small /\ big \in Absent..cap
        /\ part \in {1, 2} /\ rv \in {-1, 0, 1} /\ pc = "idle"
        /\ nr \in 0..(cap + 1) /\ deleted \in 0..(cap + 1) /\ faults \in 0..MaxFaults
    BY <1>1 DEF Init, Absent
  <2> QED BY <2>1, <2>2, <2>3, <2>4 DEF TypeOK
<1>3. DiskInv
  BY <1>1 DEF Init, DiskInv, Used
<1>4. CountInv /\ FileInv /\ CleanReturn /\ MeasureInv
  BY DEF Init, CountInv, FileInv, CleanReturn, MeasureInv
<1>5. StageInv
  BY DEF Init, StageInv
<1> QED BY <1>2, <1>3, <1>4, <1>5 DEF TestInv, FragInv

-----------------------------------------------------------------------------
(* The steps one by one.                                                    *)

LEMMA MakeDirStep == ASSUME TestInv, MakeDir PROVE TestInv'
<1> USE DEF TestInv, FragInv, MakeDir, AfterMkdir, Goto, call, locals
<1>1. TypeOK'
  BY DEF TypeOK
<1>2. DiskInv'
  BY DEF DiskInv, Used
<1>0. pc' = "fill" => part = 2 /\ small = {} /\ nr = 0 /\ deleted = 0
  BY DEF StageInv, TypeOK
<1>3. CountInv'
  <2>1. pc' \in {"big", "fill"}
    OBVIOUS
  <2>2. pc' = "fill" => small = {} /\ nr = 0 /\ deleted = 0
    BY <1>0
  <2>3. pc' = "big" => part = 1
    BY DEF StageInv, TypeOK
  <2>4. Cardinality({}) = 0
    BY FS_EmptySet
  <2>5. part' = part /\ small' = small /\ nr' = nr /\ deleted' = deleted
    OBVIOUS
  <2> HIDE DEF MakeDir, TestInv
  <2> QED BY <2>1, <2>2, <2>3, <2>4, <2>5 DEF CountInv
<1>4. StageInv'
  BY DEF StageInv, TypeOK
<1>5. FileInv'
  <2>1. pc' \in {"big", "fill"} /\ small' = small /\ nr' = nr /\ cap' = cap
    OBVIOUS
  <2>2. cap \in Nat
    BY FragAssumption DEF TypeOK
  <2> HIDE DEF MakeDir, TestInv
  <2>3. pc' = "fill" => 0 <= cap /\ {} = 0..(0 - 1)
    BY <2>2
  <2> QED BY <1>0, <2>1, <2>3 DEF FileInv
<1>6. CleanReturn'
  BY DEF CleanReturn, StageInv
<1>7. MeasureInv'
  BY DEF MeasureInv, StageInv
<1> QED BY <1>1, <1>2, <1>3, <1>4, <1>5, <1>6, <1>7

LEMMA MakeDirFailsStep == ASSUME TestInv, MakeDirFails PROVE TestInv'
<1> USE DEF TestInv, FragInv, MakeDirFails, Return, Fault, call, locals, disk
<1>1. TypeOK'
  BY FragAssumption DEF TypeOK
<1>2. DiskInv'
  BY DEF DiskInv, Used
<1>3. CountInv'
  BY DEF CountInv
<1>4. StageInv'
  BY DEF StageInv, TypeOK
<1>5. FileInv'
  BY DEF FileInv
<1>6. CleanReturn'
  BY DEF CleanReturn
<1>7. MeasureInv'
  BY DEF MeasureInv, TypeOK
<1> QED BY <1>1, <1>2, <1>3, <1>4, <1>5, <1>6, <1>7

LEMMA CreateBigStep == ASSUME TestInv, CreateBig PROVE TestInv'
<1> USE DEF TestInv, FragInv, CreateBig, Room, Goto, call, locals
<1>0. part = 1
  BY DEF StageInv, TypeOK
<1>1. TypeOK'
  <2>1. cap \in Nat /\ cap - Cardinality(small \ empty) \in 0..cap
    BY RoomLeft
  <2>2. big' \in Absent..cap'
    <3>1. big' = cap - Cardinality(small \ empty) /\ cap' = cap
      OBVIOUS
    <3> HIDE DEF CreateBig, TestInv
    <3> QED BY <2>1, <3>1 DEF Absent
  <2> QED BY <2>2 DEF TypeOK
<1>2. DiskInv'
  BY RoomLeft, DeletedFrees DEF DiskInv, Used, StageInv, Absent
<1>3. CountInv'
  BY <1>0 DEF CountInv
<1>4. StageInv'
  BY <1>0 DEF StageInv, TypeOK
<1>5. FileInv'
  BY DEF FileInv
<1>6. CleanReturn'
  BY DEF CleanReturn, StageInv
<1>7. MeasureInv'
  BY <1>0 DEF MeasureInv, StageInv
<1> QED BY <1>1, <1>2, <1>3, <1>4, <1>5, <1>6, <1>7

\* What was written before the write failed fits as well.
LEMMA CreateBigWriteFailsStep == ASSUME TestInv, CreateBigWriteFails PROVE TestInv'
<1> USE DEF TestInv, FragInv
<1>0. /\ pc = "big" /\ pc' = "read" /\ dir' = dir /\ small' = small /\ empty' = empty
      /\ part' = part /\ nr' = nr /\ rnd' = rnd /\ deleted' = deleted /\ fd' = fd
      /\ read' = read /\ cap' = cap /\ args' = args /\ dirty' = dirty /\ rv' = rv
  BY DEF CreateBigWriteFails, Goto, locals, call
<1>1. part = 1 /\ dir
  BY <1>0 DEF StageInv, TypeOK
<1>2. faults' \in 0..MaxFaults /\ faults' # 0
  BY FragAssumption DEF CreateBigWriteFails, Fault, TypeOK
<1> DEFINE n == Cardinality(small \ empty)
<1>3. cap \in Nat /\ n \in 0..cap
  <2>1. cap \in Nat /\ n \in Nat /\ cap - n \in 0..cap
    BY RoomLeft, DeletedFrees
  <2> HIDE DEF n, TestInv
  <2> QED BY <2>1
<1>4. big' \in 0..(cap - n)
  BY DEF CreateBigWriteFails, Room
<1>5. TypeOK'
  <2>1. big' \in Absent..cap'
    <3> HIDE DEF n, TestInv
    <3> QED BY <1>0, <1>3, <1>4 DEF Absent
  <2> QED BY <1>0, <1>2, <2>1 DEF TypeOK
<1>6. DiskInv'
  <2>1. Used' = n + big'
    <3>1. Cardinality(small' \ empty') = n /\ big' # -1
      BY <1>0, <1>4
    <3> HIDE DEF n, TestInv
    <3> QED BY <3>1 DEF Used, Absent
  <2>2. cap' = cap
    BY <1>0
  <2>3. Used' <= cap'
    <3>1. n + big' <= cap
      BY <1>3, <1>4, Fits
    <3> QED BY <2>1, <2>2, <3>1
  <2> QED BY <1>0, <1>1, <2>3 DEF DiskInv
<1>7. CountInv' /\ FileInv'
  BY <1>0, <1>1 DEF CountInv, FileInv
<1>8. StageInv'
  BY <1>0, <1>1 DEF StageInv
<1>9. CleanReturn' /\ MeasureInv'
  BY <1>0, <1>1, <1>2 DEF CleanReturn, MeasureInv, StageInv
<1> QED BY <1>5, <1>6, <1>7, <1>8, <1>9

LEMMA CreateBigFailsStep == ASSUME TestInv, CreateBigFails PROVE TestInv'
<1> USE DEF TestInv, FragInv, CreateBigFails, Goto, Fault, call, locals, disk
<1>0. part = 1
  BY DEF StageInv, TypeOK
<1>1. TypeOK'
  BY FragAssumption DEF TypeOK
<1>2. DiskInv'
  BY DEF DiskInv, Used
<1>3. CountInv'
  BY <1>0 DEF CountInv
<1>4. StageInv'
  BY <1>0 DEF StageInv, TypeOK
<1>5. FileInv'
  BY DEF FileInv
<1>6. CleanReturn'
  BY DEF CleanReturn, StageInv
<1>7. MeasureInv'
  BY DEF MeasureInv, TypeOK
<1> QED BY <1>1, <1>2, <1>3, <1>4, <1>5, <1>6, <1>7

LEMMA ReadStep == ASSUME TestInv, Read PROVE TestInv'
<1> USE DEF TestInv, FragInv, Read, AfterRead, Goto, Return, call, locals, disk
<1>1. TypeOK'
  BY DEF TypeOK
<1>2. DiskInv'
  BY DEF DiskInv, Used
<1>3. CountInv'
  BY DEF CountInv
<1>4. StageInv'
  BY DEF StageInv, TypeOK
<1>5. FileInv'
  BY DEF FileInv
<1>6. CleanReturn'
  BY DEF CleanReturn, StageInv, Cleanup
<1>7. MeasureInv'
  BY DEF MeasureInv, StageInv, TypeOK, to_delete
<1> QED BY <1>1, <1>2, <1>3, <1>4, <1>5, <1>6, <1>7

LEMMA ReadOpenFailsStep == ASSUME TestInv, ReadOpenFails PROVE TestInv'
<1> USE DEF TestInv, FragInv, ReadOpenFails, AfterRead, Goto, Return, Fault, call, locals, disk
<1>1. TypeOK'
  BY FragAssumption DEF TypeOK
<1>2. DiskInv'
  BY DEF DiskInv, Used
<1>3. CountInv'
  BY DEF CountInv
<1>4. StageInv'
  BY DEF StageInv, TypeOK
<1>5. FileInv'
  BY DEF FileInv
<1>6. CleanReturn'
  BY DEF CleanReturn, StageInv, Cleanup
<1>7. MeasureInv'
  BY DEF MeasureInv, TypeOK
<1> QED BY <1>1, <1>2, <1>3, <1>4, <1>5, <1>6, <1>7

LEMMA ReadFailsStep == ASSUME TestInv, ReadFails PROVE TestInv'
<1> USE DEF TestInv, FragInv
<1>0. /\ dir' = dir /\ small' = small /\ empty' = empty /\ big' = big /\ part' = part
      /\ nr' = nr /\ rnd' = rnd /\ deleted' = deleted /\ fd' = fd
      /\ cap' = cap /\ args' = args /\ dirty' = dirty /\ pc = "read"
  BY DEF ReadFails, disk, locals, call
<1>1. \/ pc' = "clean" /\ rv' = rv
      \/ pc' = "idle" /\ rv' = 0 /\ part = 2 /\ ~Cleanup
  BY DEF ReadFails, AfterRead, Goto, Return, TypeOK
<1>2. faults' \in 0..MaxFaults /\ faults' # 0
  BY FragAssumption DEF ReadFails, Fault, TypeOK
<1>3. read' \in [{1, 2} -> Absent..cap']
  <2>1. PICK n \in 0..big : read' = [read EXCEPT ![part] = n]
    BY DEF ReadFails
  <2>2. n \in Absent..cap
    <3>1. big \in Absent..cap /\ cap \in Nat
      BY FragAssumption DEF TypeOK
    <3> HIDE DEF TestInv
    <3> QED BY <3>1 DEF Absent
  <2>3. read \in [{1, 2} -> Absent..cap] /\ part \in {1, 2}
    BY DEF TypeOK
  <2> QED BY <1>0, <2>1, <2>2, <2>3
<1>4. rv # 0
  BY <1>0 DEF StageInv
<1>5. TypeOK'
  <2>1. pc' \in {"idle", "clean"} /\ rv' \in {-1, 0, 1}
    BY <1>1 DEF TypeOK
  <2> QED BY <1>0, <1>2, <1>3, <2>1 DEF TypeOK
<1>6. DiskInv'
  BY <1>0 DEF DiskInv, Used
<1>7. CountInv' /\ FileInv'
  BY <1>0, <1>1 DEF CountInv, FileInv
<1>8. StageInv'
  BY <1>0, <1>1, <1>4 DEF StageInv
<1>9. CleanReturn' /\ MeasureInv'
  BY <1>0, <1>1, <1>2, <1>4 DEF CleanReturn, MeasureInv, Cleanup
<1> QED BY <1>5, <1>6, <1>7, <1>8, <1>9

LEMMA ReadNoMemoryStep == ASSUME TestInv, ReadNoMemory PROVE TestInv'
<1> USE DEF TestInv, FragInv, ReadNoMemory, Return, Fault, call, locals, disk
<1>1. TypeOK'
  BY FragAssumption DEF TypeOK
<1>2. DiskInv'
  BY DEF DiskInv, Used
<1>3. CountInv'
  BY DEF CountInv
<1>4. StageInv'
  BY DEF StageInv, TypeOK
<1>5. FileInv'
  BY DEF FileInv
<1>6. CleanReturn'
  BY DEF CleanReturn
<1>7. MeasureInv'
  BY DEF MeasureInv, TypeOK
<1> QED BY <1>1, <1>2, <1>3, <1>4, <1>5, <1>6, <1>7

\* File nr is written at the end of a disk that holds the files before it.
LEMMA FillStep == ASSUME TestInv, Fill PROVE TestInv'
<1> USE DEF TestInv, FragInv, Fill, Goto, call
<1>0. /\ part = 2 /\ cap \in Nat /\ nr \in Nat /\ nr <= cap /\ small = 0..(nr - 1)
      /\ empty = {} /\ big = Absent /\ deleted = 0 /\ ~fd /\ dir
  BY FragAssumption DEF StageInv, FileInv, TypeOK
<1>a. small' = 0..nr /\ nr' = nr + 1
  BY <1>0
<1>b. Cardinality(small) = nr /\ Cardinality(small') = nr + 1
  <2>1. Cardinality(0..(nr - 1)) = IF 0 > nr - 1 THEN 0 ELSE (nr - 1) - 0 + 1
    BY <1>0, FS_Interval
  <2>2. Cardinality(0..nr) = IF 0 > nr THEN 0 ELSE nr - 0 + 1
    BY <1>0, FS_Interval
  <2>3. small = 0..(nr - 1) /\ small' = 0..nr /\ nr \in Nat
    BY <1>0, <1>a
  <2> HIDE DEF Fill, TestInv
  <2> QED BY <2>1, <2>2, <2>3
<1>c. small \ empty = small
  BY <1>0
<1>d. Used = nr /\ Free = cap - nr
  BY <1>0, <1>b, <1>c DEF Used, Free
<1>e. \/ nr < cap /\ pc' = "fill" /\ empty' = {}
      \/ nr = cap /\ pc' = "remove" /\ empty' = {nr}
  BY <1>0, <1>d
<1>f. /\ part' = 2 /\ cap' = cap /\ big' = Absent /\ deleted' = 0 /\ rv' = rv
      /\ ~fd' /\ dir' /\ faults' = faults /\ read' = read
  BY <1>0
<1>1. TypeOK'
  <2>1. small' \subseteq 0..cap' /\ empty' \subseteq small' /\ nr' \in 0..(cap' + 1)
    BY <1>0, <1>a, <1>e, <1>f
  <2>2. pc' \in {"fill", "remove"}
    BY <1>e
  <2> QED BY <2>1, <2>2 DEF TypeOK
<1>2. DiskInv'
  <2>1. Cardinality(small' \ empty') <= cap
    <3>1. CASE nr < cap /\ empty' = {}
      <4>1. small' \ empty' = small'
        BY <3>1
      <4> QED BY <1>0, <1>b, <4>1, <3>1
    <3>2. CASE nr = cap /\ empty' = {nr}
      <4>1. small' \ empty' = small
        BY <1>0, <1>a, <3>2
      <4> QED BY <1>0, <1>b, <4>1, <3>2
    <3> QED BY <1>e, <3>1, <3>2
  <2>2. Cardinality(small' \ empty') \in Nat
    <3>1. IsFiniteSet(0..nr)
      BY <1>0, FS_Interval
    <3>2. IsFiniteSet(small' \ empty')
      BY <3>1, <1>a, FS_Difference
    <3> QED BY <3>2, FS_CardinalityType
  <2>3. big' = Absent /\ cap' = cap
    BY <1>f
  <2>4. Used' <= cap'
    <3> HIDE DEF Fill, TestInv
    <3> QED BY <2>1, <2>2, <2>3 DEF Used, Absent
  <2> QED BY <2>4, <1>f DEF DiskInv
<1>3. CountInv'
  <2>1. small' \subseteq 0..(nr' - 1) /\ Cardinality(small') = nr' - deleted'
    BY <1>0, <1>a, <1>b, <1>f
  <2>2. pc' = "remove" => nr' = cap' + 1
    BY <1>a, <1>e, <1>f
  <2>3. ~fd'
    BY <1>f
  <2> HIDE DEF Fill, TestInv
  <2> QED BY <2>1, <2>2, <2>3 DEF CountInv
<1>4. StageInv'
  BY <1>e, <1>f DEF StageInv
<1>5. FileInv'
  <2>1. pc' = "fill" => nr' <= cap' /\ small' = 0..(nr' - 1)
    BY <1>0, <1>a, <1>e, <1>f
  <2>2. nr' >= 1 /\ empty' \subseteq {nr' - 1}
    BY <1>0, <1>a, <1>e, <1>f
  <2>3. deleted' <= to_delete'
    BY <1>0, <1>a, <1>f DEF to_delete
  <2>4. deleted' = 0 /\ big' = Absent /\ ~fd'
    BY <1>f
  <2> HIDE DEF Fill, TestInv
  <2> QED BY <2>1, <2>2, <2>3, <2>4 DEF FileInv
<1>6. CleanReturn'
  BY DEF CleanReturn, StageInv
<1>7. MeasureInv'
  <2>1. rv' # 0 /\ pc' \notin {"read", "clean"}
    BY <1>e DEF StageInv
  <2>2. part' = 2 /\ read' = read /\ cap' = cap /\ faults' = faults /\ part = 2
    BY <1>0
  <2>3. faults = 0 => read[1] = cap
    BY <1>0 DEF MeasureInv
  <2> HIDE DEF Fill, TestInv
  <2> QED BY <2>1, <2>2, <2>3 DEF MeasureInv
<1> QED BY <1>1, <1>2, <1>3, <1>4, <1>5, <1>6, <1>7

\* The file whose write failed takes no space, whatever room there is.
LEMMA FillWriteFailsStep == ASSUME TestInv, FillWriteFails PROVE TestInv'
<1> USE DEF TestInv, FragInv
<1>0. /\ pc = "fill" /\ pc' = "remove" /\ dir' = dir /\ big' = big /\ part' = part
      /\ rnd' = rnd /\ deleted' = deleted /\ fd' = fd /\ read' = read /\ rv' = rv
      /\ cap' = cap /\ args' = args /\ dirty' = dirty
      /\ small' = small \cup {nr} /\ nr' = nr + 1 /\ empty' = {nr}
  BY DEF FillWriteFails, Goto, call
<1>1. /\ part = 2 /\ cap \in Nat /\ nr \in Nat /\ nr <= cap /\ small = 0..(nr - 1)
      /\ empty = {} /\ big = Absent /\ deleted = 0 /\ ~fd /\ dir /\ rv # 0
  BY <1>0, FragAssumption DEF StageInv, FileInv, TypeOK
<1>2. faults' \in 0..MaxFaults /\ faults' # 0
  BY FragAssumption DEF FillWriteFails, Fault, TypeOK
<1>3. small' = 0..nr /\ small' \ empty' = small
  BY <1>0, <1>1
<1>4. Cardinality(small) = nr /\ Cardinality(small') = nr + 1
  <2>1. Cardinality(0..(nr - 1)) = IF 0 > nr - 1 THEN 0 ELSE (nr - 1) - 0 + 1
    BY <1>1, FS_Interval
  <2>2. Cardinality(0..nr) = IF 0 > nr THEN 0 ELSE nr - 0 + 1
    BY <1>1, FS_Interval
  <2> HIDE DEF TestInv
  <2> QED BY <1>1, <1>3, <2>1, <2>2
<1>5. TypeOK'
  <2>1. small' \subseteq 0..cap' /\ empty' \subseteq small' /\ nr' \in 0..(cap' + 1)
    BY <1>0, <1>1, <1>3
  <2> QED BY <1>0, <1>2, <2>1 DEF TypeOK
<1>6. DiskInv'
  <2>1. Cardinality(small' \ empty') = nr /\ big' = Absent /\ cap' = cap
    BY <1>0, <1>1, <1>3, <1>4
  <2>2. Used' = nr
    BY <1>1, <2>1 DEF Used
  <2>3. Used' <= cap'
    BY <1>1, <2>1, <2>2
  <2> QED BY <1>0, <1>1, <2>3 DEF DiskInv
<1>7. CountInv'
  <2>1. small' \subseteq 0..(nr' - 1) /\ Cardinality(small') = nr' - deleted'
    BY <1>0, <1>1, <1>3, <1>4
  <2> QED BY <1>2, <2>1 DEF CountInv
<1>8. StageInv'
  BY <1>0, <1>1 DEF StageInv
<1>9. FileInv'
  <2>1. nr' >= 1 /\ empty' \subseteq {nr' - 1} /\ deleted' <= to_delete'
    BY <1>0, <1>1 DEF to_delete
  <2> QED BY <1>0, <1>1, <2>1 DEF FileInv
<1>10. CleanReturn' /\ MeasureInv'
  BY <1>0, <1>1, <1>2 DEF CleanReturn, MeasureInv
<1> QED BY <1>5, <1>6, <1>7, <1>8, <1>9, <1>10

LEMMA FillOpenFailsStep == ASSUME TestInv, FillOpenFails PROVE TestInv'
<1> USE DEF TestInv, FragInv, FillOpenFails, Return, Fault, call, locals, disk
<1>1. TypeOK'
  BY FragAssumption DEF TypeOK
<1>2. DiskInv'
  BY DEF DiskInv, Used
<1>3. CountInv'
  BY DEF CountInv
<1>4. StageInv'
  BY DEF StageInv, TypeOK
<1>5. FileInv'
  BY DEF FileInv
<1>6. CleanReturn'
  BY DEF CleanReturn
<1>7. MeasureInv'
  BY DEF MeasureInv, TypeOK
<1> QED BY <1>1, <1>2, <1>3, <1>4, <1>5, <1>6, <1>7

\* One file less, while the files are removed.
LEMMA OneRemoved ==
  ASSUME TestInv, pc = "remove", deleted < to_delete, NEW i \in small
  PROVE  /\ part = 2 /\ dir /\ rv # 0 /\ cap \in Nat /\ nr \in 1..(cap + 1) /\ deleted \in Nat
         /\ deleted + 1 <= nr \div 3 /\ deleted + 1 <= cap + 1
         /\ small \ {i} \subseteq 0..(nr - 1) /\ empty \ {i} \subseteq small \ {i}
         /\ empty \ {i} \subseteq {nr - 1}
         /\ Cardinality(small \ {i}) = nr - (deleted + 1)
         /\ Cardinality((small \ {i}) \ (empty \ {i})) \in 0..cap
         /\ Cardinality((small \ {i}) \ (empty \ {i})) <= Cardinality(small \ empty)
<1> USE DEF TestInv, FragInv
<1>1. part = 2 /\ dir /\ rv # 0
  BY DEF StageInv, TypeOK
<1>2. cap \in Nat /\ nr \in 1..(cap + 1) /\ deleted \in Nat
  BY FragAssumption DEF TypeOK, FileInv
<1>3. deleted + 1 <= nr \div 3 /\ deleted + 1 <= cap + 1
  BY <1>2 DEF to_delete
<1>4. small \subseteq 0..(nr - 1) /\ Cardinality(small) = nr - deleted
  BY <1>1 DEF CountInv
<1>5. IsFiniteSet(small) /\ Cardinality(small \ {i}) = nr - (deleted + 1)
  <2>1. IsFiniteSet(small)
    BY FilesFinite
  <2>2. Cardinality(small \ {i}) = Cardinality(small) - 1
    BY <2>1, FS_RemoveElement
  <2> QED BY <1>2, <1>4, <2>1, <2>2
<1>6. empty \subseteq small /\ empty \subseteq {nr - 1}
  BY DEF TypeOK, FileInv
<1> DEFINE T == (small \ {i}) \ (empty \ {i})
<1>7. T \subseteq small \ {i} /\ T \subseteq small \ empty
  OBVIOUS
<1>8. IsFiniteSet(small \ {i}) /\ IsFiniteSet(small \ empty) /\ IsFiniteSet(T)
  BY FilesFinite
<1>9. Cardinality(T) \in Nat /\ Cardinality(T) <= Cardinality(small \ {i})
      /\ Cardinality(T) <= Cardinality(small \ empty)
  BY <1>7, <1>8, FS_Subset, FS_CardinalityType
<1>10. Cardinality(T) \in 0..cap
  <2> HIDE DEF T
  <2> QED BY <1>2, <1>5, <1>9
<1> QED BY <1>1, <1>2, <1>3, <1>4, <1>5, <1>6, <1>9, <1>10

\* After a removal, what the big file takes is what the small files leave.
LEMMA RemoveStep == ASSUME TestInv, Remove PROVE TestInv'
<1> USE DEF TestInv, FragInv
<1> DEFINE i == Index(drawn, nr)
<1>0. /\ pc = "remove" /\ pc' = "remove" /\ part' = part /\ rv' = rv /\ nr' = nr
      /\ dir' = dir /\ cap' = cap /\ args' = args /\ dirty' = dirty /\ read' = read
      /\ faults' = faults /\ rnd' = drawn /\ deleted < to_delete
  BY DEF Remove, call
<1>1. rnd' \in [hi : 0..(Hi - 1), lo : 0..(Lo - 1)]
  BY <1>0, DrawnType
<1>2. rv # 0 /\ part = 2
  BY <1>0 DEF StageInv, TypeOK
<1>3. CleanReturn'
  BY <1>0, <1>2 DEF CleanReturn
<1>4. MeasureInv'
  <2>1. faults = 0 => read[1] = cap
    BY <1>2 DEF MeasureInv
  <2> QED BY <1>0, <1>2, <2>1 DEF MeasureInv
<1>5. CASE i \notin small
  <2>1. small' = small /\ empty' = empty /\ deleted' = deleted /\ fd' = fd /\ big' = big
    BY <1>5 DEF Remove
  <2>2. TypeOK'
    BY <1>0, <1>1, <2>1 DEF TypeOK
  <2>3. DiskInv'
    BY <1>0, <2>1 DEF DiskInv, Used
  <2>4. CountInv'
    BY <1>0, <2>1 DEF CountInv, Free, Used
  <2>5. StageInv'
    BY <1>0, <2>1 DEF StageInv
  <2>6. FileInv'
    BY <1>0, <2>1 DEF FileInv, to_delete
  <2> QED BY <1>3, <1>4, <2>2, <2>3, <2>4, <2>5, <2>6
<1>6. CASE i \in small
  <2> DEFINE n == Cardinality((small \ {i}) \ (empty \ {i}))
  <2>1. /\ small' = small \ {i} /\ empty' = empty \ {i} /\ deleted' = deleted + 1
        /\ fd' = TRUE /\ big' = cap - Cardinality(small' \ empty')
    BY <1>6 DEF Remove, Room
  <2>2. big' = cap - n /\ Cardinality(small' \ empty') = n
    BY <2>1
  <2>3. n \in 0..cap /\ cap \in Nat
    BY <1>0, <1>6, OneRemoved
  <2>4. cap - n \in 0..cap /\ cap - n # -1
    <3> HIDE DEF n
    <3> QED BY <2>3
  <2>5. /\ dir /\ nr \in 1..(cap + 1) /\ deleted \in Nat
        /\ deleted + 1 <= nr \div 3 /\ deleted + 1 <= cap + 1
        /\ small' \subseteq 0..(nr - 1) /\ empty' \subseteq small' /\ empty' \subseteq {nr - 1}
        /\ Cardinality(small') = nr - (deleted + 1)
    BY <1>0, <1>6, <2>1, OneRemoved
  <2>6. TypeOK'
    <3>1. small' \subseteq 0..cap' /\ big' \in Absent..cap' /\ deleted' \in 0..(cap' + 1)
      <4> HIDE DEF n, i
      <4> QED BY <1>0, <2>1, <2>2, <2>3, <2>4, <2>5 DEF Absent
    <3>2. nr' \in 0..(cap' + 1) /\ read' \in [{1, 2} -> Absent..cap'] /\ faults' \in 0..MaxFaults
      BY <1>0 DEF TypeOK
    <3>3. dir' \in BOOLEAN /\ dirty' \in BOOLEAN /\ fd' \in BOOLEAN
      BY <1>0, <2>1 DEF TypeOK
    <3>4. cap' \in Capacities /\ args' \in ArgVectors \cup {<<>>} /\ part' \in {1, 2}
          /\ rv' \in {-1, 0, 1}
      BY <1>0 DEF TypeOK
    <3> QED BY <1>0, <1>1, <2>5, <3>1, <3>2, <3>3, <3>4 DEF TypeOK
  <2>7. Used' = cap /\ Free' = 0
    <3>1. Used' = n + (cap - n)
      <4> HIDE DEF n, i
      <4> QED BY <2>2, <2>4 DEF Used, Absent
    <3>2. Used' = cap
      <4> HIDE DEF n, i
      <4> QED BY <3>1, <2>3
    <3> QED BY <1>0, <2>3, <3>2 DEF Free
  <2>8. DiskInv'
    <3>1. Used' <= cap'
      BY <1>0, <2>3, <2>7
    <3> QED BY <1>0, <2>5, <3>1 DEF DiskInv
  <2>9. CountInv'
    <3>1. small' \subseteq 0..(nr' - 1) /\ Cardinality(small') = nr' - deleted'
      BY <1>0, <2>1, <2>5
    <3>2. faults' = 0 => nr' = cap' + 1
      BY <1>0 DEF CountInv
    <3> QED BY <2>7, <3>1, <3>2 DEF CountInv
  <2>10. StageInv'
    BY <1>0, <1>2, <2>5 DEF StageInv
  <2>11. FileInv'
    <3>1. deleted' <= to_delete' /\ nr' >= 1 /\ empty' \subseteq {nr' - 1}
      BY <1>0, <2>1, <2>5 DEF to_delete
    <3>2. fd' /\ big' # Absent
      BY <2>1, <2>2, <2>4 DEF Absent
    <3> QED BY <1>0, <3>1, <3>2 DEF FileInv
  <2> QED BY <1>3, <1>4, <2>6, <2>8, <2>9, <2>10, <2>11
<1> QED BY <1>5, <1>6

\* The big file takes no more than the small files leave.
LEMMA RemoveWriteFailsStep == ASSUME TestInv, RemoveWriteFails PROVE TestInv'
<1> USE DEF TestInv, FragInv
<1> DEFINE i == Index(drawn, nr)
           n == Cardinality((small \ {i}) \ (empty \ {i}))
<1>0. /\ pc = "remove" /\ pc' = "remove" /\ part' = part /\ rv' = rv /\ nr' = nr
      /\ dir' = dir /\ cap' = cap /\ args' = args /\ dirty' = dirty /\ read' = read
      /\ rnd' = drawn /\ deleted < to_delete /\ i \in small /\ fd' = TRUE
  BY DEF RemoveWriteFails, call
<1>1. small' = small \ {i} /\ empty' = empty \ {i} /\ deleted' = deleted + 1
  BY DEF RemoveWriteFails
<1>2. faults' \in 0..MaxFaults /\ faults' # 0
  BY FragAssumption DEF RemoveWriteFails, Fault, TypeOK
<1>3. /\ part = 2 /\ dir /\ rv # 0 /\ cap \in Nat /\ nr \in 1..(cap + 1) /\ deleted \in Nat
      /\ deleted + 1 <= nr \div 3 /\ deleted + 1 <= cap + 1
      /\ small' \subseteq 0..(nr - 1) /\ empty' \subseteq small' /\ empty' \subseteq {nr - 1}
      /\ Cardinality(small') = nr - (deleted + 1)
      /\ n \in 0..cap /\ Cardinality(small' \ empty') = n
  BY <1>0, <1>1, OneRemoved
<1>4. big' \in 0..(cap - n)
  <2>1. big' \in 0..Room(small' \ empty')
    BY DEF RemoveWriteFails
  <2>2. Room(small' \ empty') = cap - n
    BY <1>3 DEF Room
  <2> HIDE DEF n, i, TestInv
  <2> QED BY <2>1, <2>2
<1>5. TypeOK'
  <2>1. small' \subseteq 0..cap' /\ deleted' \in 0..(cap' + 1) /\ big' \in Absent..cap'
    <3> HIDE DEF n, i, TestInv
    <3> QED BY <1>0, <1>1, <1>3, <1>4 DEF Absent
  <2>2. fd' \in BOOLEAN
    BY <1>0
  <2> QED BY <1>0, <1>2, <1>3, <2>1, <2>2, DrawnType DEF TypeOK
<1>6. DiskInv'
  <2>1. cap' = cap /\ Cardinality(small' \ empty') = n
    BY <1>0, <1>3
  <2>2. Used' = n + big'
    <3>1. big' # -1
      <4> HIDE DEF n, TestInv
      <4> QED BY <1>3, <1>4
    <3> HIDE DEF n, TestInv
    <3> QED BY <2>1, <3>1 DEF Used, Absent
  <2>3. Used' <= cap'
    <3>1. n + big' <= cap
      BY <1>3, <1>4, Fits
    <3> QED BY <2>1, <2>2, <3>1
  <2> QED BY <1>0, <1>3, <2>3 DEF DiskInv
<1>7. CountInv'
  <2>1. small' \subseteq 0..(nr' - 1) /\ Cardinality(small') = nr' - deleted'
    BY <1>0, <1>1, <1>3
  <2> QED BY <1>2, <2>1 DEF CountInv
<1>8. StageInv'
  BY <1>0, <1>3 DEF StageInv
<1>9. FileInv'
  <2>1. deleted' <= to_delete' /\ nr' >= 1 /\ empty' \subseteq {nr' - 1}
    BY <1>0, <1>1, <1>3 DEF to_delete
  <2>2. big' # Absent
    <3> HIDE DEF n, i, TestInv
    <3> QED BY <1>3, <1>4 DEF Absent
  <2> QED BY <1>0, <2>1, <2>2 DEF FileInv
<1>10. CleanReturn' /\ MeasureInv'
  BY <1>0, <1>2, <1>3 DEF CleanReturn, MeasureInv
<1> QED BY <1>5, <1>6, <1>7, <1>8, <1>9, <1>10

LEMMA RemoveFailsStep == ASSUME TestInv, RemoveFails PROVE TestInv'
<1> USE DEF TestInv, FragInv, RemoveFails, Return, Fault, call, disk
<1>1. TypeOK'
  <2>1. faults' \in 0..MaxFaults
    BY FragAssumption DEF TypeOK
  <2> QED BY <2>1, DrawnType DEF TypeOK
<1>2. DiskInv'
  BY DEF DiskInv, Used
<1>3. CountInv'
  BY DEF CountInv
<1>4. StageInv'
  BY DEF StageInv, TypeOK
<1>5. FileInv'
  BY DEF FileInv
<1>6. CleanReturn'
  BY DEF CleanReturn
<1>7. MeasureInv'
  BY DEF MeasureInv, TypeOK
<1> QED BY <1>1, <1>2, <1>3, <1>4, <1>5, <1>6, <1>7

\* The file is gone, and there is no big file to take its place.
LEMMA BigOpenFailsStep == ASSUME TestInv, BigOpenFails PROVE TestInv'
<1> USE DEF TestInv, FragInv
<1> DEFINE i == Index(drawn, nr)
           n == Cardinality((small \ {i}) \ (empty \ {i}))
<1>0. /\ pc = "remove" /\ pc' = "read" /\ part' = part /\ rv' = rv /\ nr' = nr
      /\ dir' = dir /\ cap' = cap /\ args' = args /\ dirty' = dirty /\ read' = read
      /\ rnd' = drawn /\ deleted < to_delete /\ fd' = fd /\ big' = big /\ i \in small
  BY DEF BigOpenFails, Goto, call
<1>1. small' = small \ {i} /\ empty' = empty \ {i} /\ deleted' = deleted + 1
  BY DEF BigOpenFails
<1>2. faults' \in 0..MaxFaults /\ faults' # 0
  BY FragAssumption DEF BigOpenFails, Fault, TypeOK
<1>3. /\ part = 2 /\ dir /\ rv # 0 /\ cap \in Nat /\ nr \in 1..(cap + 1) /\ deleted \in Nat
      /\ deleted + 1 <= nr \div 3 /\ deleted + 1 <= cap + 1
      /\ small' \subseteq 0..(nr - 1) /\ empty' \subseteq small'
      /\ Cardinality(small') = nr - (deleted + 1)
      /\ n \in 0..cap /\ Cardinality(small' \ empty') = n
  BY <1>0, <1>1, OneRemoved
<1>4. big = Absent
  BY <1>0 DEF FileInv, BigOpenFails
<1>5. TypeOK'
  <2>1. small' \subseteq 0..cap' /\ deleted' \in 0..(cap' + 1)
    BY <1>0, <1>1, <1>3
  <2> QED BY <1>0, <1>2, <1>3, <2>1, DrawnType DEF TypeOK
<1>6. DiskInv'
  <2>1. Used' <= cap'
    <3> HIDE DEF n
    <3> QED BY <1>0, <1>3, <1>4 DEF Used
  <2> QED BY <1>0, <1>3, <2>1 DEF DiskInv
<1>7. CountInv'
  <2>1. small' \subseteq 0..(nr' - 1) /\ Cardinality(small') = nr' - deleted'
    BY <1>0, <1>1, <1>3
  <2> QED BY <1>0, <2>1 DEF CountInv
<1>8. StageInv'
  BY <1>0, <1>3 DEF StageInv
<1>9. FileInv'
  BY <1>0 DEF FileInv
<1>10. CleanReturn' /\ MeasureInv'
  BY <1>0, <1>2, <1>3 DEF CleanReturn, MeasureInv
<1> QED BY <1>5, <1>6, <1>7, <1>8, <1>9, <1>10

\* With a third removed, the big file is as long as what was removed, less
\* the file without contents if that one is still there.
LEMMA RemoveDoneStep == ASSUME TestInv, RemoveDone PROVE TestInv'
<1> USE DEF TestInv, FragInv, RemoveDone, Goto, call, disk
<1>1. TypeOK'
  BY DEF TypeOK
<1>2. DiskInv'
  BY DEF DiskInv, Used
<1>3. CountInv'
  BY DEF CountInv, StageInv
<1>4. StageInv'
  BY DEF StageInv, TypeOK
<1>5. FileInv'
  BY DEF FileInv
<1>6. CleanReturn'
  BY DEF CleanReturn, StageInv
<1>7. MeasureInv'
  <2>0. CASE faults # 0
    BY <2>0 DEF MeasureInv
  <2>a. SUFFICES ASSUME faults = 0 PROVE MeasureInv'
    BY <2>0
  <2>1. /\ part = 2 /\ rv # 0 /\ cap \in Nat /\ nr = cap + 1 /\ deleted \in Nat
        /\ deleted = to_delete /\ Cardinality(small) = nr - deleted
    BY <2>a, FragAssumption DEF StageInv, TypeOK, CountInv, FileInv, to_delete
  <2>2. empty \subseteq small /\ empty \subseteq {cap}
    BY <2>1 DEF TypeOK, FileInv
  <2>3. Cardinality(small \ empty) \in {nr - deleted, nr - deleted - 1}
    <3>1. IsFiniteSet(small)
      BY FilesFinite
    <3>2. CASE cap \in empty
      <4>1. small \ empty = small \ {cap} /\ cap \in small
        BY <2>2, <3>2
      <4>2. Cardinality(small \ {cap}) = Cardinality(small) - 1
        BY <3>1, <4>1, FS_RemoveElement
      <4> QED BY <2>1, <4>1, <4>2
    <3>3. CASE cap \notin empty
      <4>1. small \ empty = small
        BY <2>2, <3>3
      <4> QED BY <2>1, <4>1
    <3> QED BY <3>2, <3>3
  <2>4. nr >= 3 => big \in {to_delete, to_delete - 1}
    <3> SUFFICES ASSUME nr >= 3 PROVE big \in {to_delete, to_delete - 1}
      OBVIOUS
    <3>1. deleted # 0
      BY <2>1 DEF to_delete
    <3>2. Free = 0 /\ Used = cap
      <4>1. fd
        BY <3>1 DEF FileInv
      <4>2. Free = 0
        BY <2>a, <4>1 DEF CountInv
      <4>3. Used \in Int
        <5>1. Cardinality(small \ empty) \in Int /\ big \in Int
          BY <2>1, <2>3 DEF TypeOK, Absent
        <5> HIDE DEF RemoveDone, TestInv
        <5> QED BY <5>1 DEF Used
      <4> HIDE DEF RemoveDone, TestInv
      <4> QED BY <2>1, <4>2, <4>3 DEF Free
    <3>3. big # Absent
      BY <3>1 DEF FileInv
    <3>4. big = cap - Cardinality(small \ empty)
      <4>1. Cardinality(small \ empty) \in Int /\ big \in Int
        BY <2>1, <2>3 DEF TypeOK, Absent
      <4> HIDE DEF RemoveDone, TestInv
      <4> QED BY <2>1, <3>2, <3>3, <4>1 DEF Used
    <3> HIDE DEF RemoveDone, TestInv
    <3> QED BY <2>1, <2>3, <3>4
  <2>5. read[1] = cap
    BY <2>1, <2>a DEF MeasureInv
  <2>6. /\ part' = part /\ pc' = "read" /\ rv' = rv /\ nr' = nr /\ big' = big
        /\ cap' = cap /\ read' = read /\ faults' = faults
    OBVIOUS
  <2> HIDE DEF RemoveDone, TestInv
  <2> QED BY <2>1, <2>4, <2>5, <2>6 DEF MeasureInv, to_delete
<1> QED BY <1>1, <1>2, <1>3, <1>4, <1>5, <1>6, <1>7

-----------------------------------------------------------------------------
(* The clean-up and the next call.                                          *)

\* The second part removes every file it has written.  The first part has
\* written none and leaves those of another call.
LEMMA CleanedFiles ==
  ASSUME TestInv, pc = "clean"
  PROVE  /\ part = 1 => nr = 0 /\ \A S : Leftover(S) = small
         /\ part = 2 => Leftover({}) = {}
<1> USE DEF TestInv, FragInv
<1>1. ASSUME part = 1 PROVE nr = 0 /\ \A S : Leftover(S) = small
  <2>1. nr = 0
    BY <1>1 DEF StageInv
  <2>2. 0..(nr - 1) = {}
    BY <2>1
  <2> QED BY <2>1, <2>2 DEF Leftover
<1>2. ASSUME part = 2 PROVE Leftover({}) = {}
  <2>1. small \subseteq 0..(nr - 1)
    BY <1>2 DEF CountInv
  <2> QED BY <2>1 DEF Leftover
<1> QED BY <1>1, <1>2

LEMMA CleanStep == ASSUME TestInv, Clean PROVE TestInv'
<1> USE DEF TestInv, FragInv
<1>0. /\ pc = "clean" /\ small' = Leftover({}) /\ empty' = empty \cap small'
      /\ big' = Absent /\ dir' = (small' # {}) /\ nr' = nr /\ rnd' = rnd
      /\ deleted' = deleted /\ fd' = fd /\ read' = read /\ faults' = faults
      /\ cap' = cap /\ args' = args /\ dirty' = dirty
  BY DEF Clean, locals, call
<1>1. \/ small' # {} /\ pc' = "idle" /\ rv' = -1 /\ part' = part
      \/ small' = {} /\ part = 1 /\ pc' = "mkdir" /\ rv' = rv /\ part' = 2
      \/ small' = {} /\ part = 2 /\ pc' = "idle" /\ rv' = 0 /\ part' = 2
  BY <1>0 DEF Clean, CleanReturns, Return, Goto, TypeOK
<1>2. small' \subseteq small /\ empty' \subseteq small' /\ empty' = empty \cap small'
  BY <1>0 DEF Leftover
<1>3. part = 1 => small' = small /\ nr = 0 /\ deleted = 0 /\ ~fd
  BY <1>0, CleanedFiles DEF StageInv
<1>4. part \in {1, 2} /\ rv # 0
  BY <1>0 DEF TypeOK, StageInv
<1>5. TypeOK'
  <2>1. dir' \in BOOLEAN
    BY <1>0
  <2>2. big' \in Absent..cap'
    BY <1>0, FragAssumption DEF TypeOK, Absent
  <2>3. pc' \in {"idle", "mkdir"} /\ part' \in {1, 2} /\ rv' \in {-1, 0, 1}
    BY <1>1, <1>4 DEF TypeOK
  <2> QED BY <1>0, <1>2, <2>1, <2>2, <2>3 DEF TypeOK
<1>6. DiskInv'
  <2>1. small' \ empty' = small' \ empty
    BY <1>2
  <2>2. Cardinality(small' \ empty') <= Cardinality(small \ empty)
        /\ Cardinality(small' \ empty') \in Nat /\ Cardinality(small \ empty) \in Nat
    BY <1>2, <2>1, DeletedFrees
  <2>3. Cardinality(small \ empty) <= cap /\ cap \in Nat
    BY RoomLeft, <2>2
  <2>4. Used' <= cap'
    BY <1>0, <2>2, <2>3 DEF Used
  <2> QED BY <1>0, <2>4 DEF DiskInv
<1>7. CountInv' /\ FileInv'
  BY <1>1 DEF CountInv, FileInv
<1>8. StageInv'
  <2>1. CASE small' # {} /\ pc' = "idle" /\ rv' = -1 /\ part' = part
    BY <1>0, <2>1 DEF StageInv
  <2>2. CASE small' = {} /\ part = 1 /\ pc' = "mkdir" /\ rv' = rv /\ part' = 2
    <3>1. ~dirty /\ empty' = {}
      BY <1>0, <1>2, <1>3, <2>2 DEF StageInv
    <3> QED BY <1>0, <1>3, <1>4, <2>2, <3>1 DEF StageInv
  <2>3. CASE small' = {} /\ part = 2 /\ pc' = "idle" /\ rv' = 0 /\ part' = 2
    BY <1>0, <2>3 DEF StageInv
  <2> QED BY <1>1, <2>1, <2>2, <2>3
<1>9. CleanReturn'
  <2>1. small' # {} => rv' # 0
    BY <1>1
  <2>2. small' = {} => ~dir' /\ big' = Absent
    BY <1>0
  <2> QED BY <2>1, <2>2 DEF CleanReturn
<1>10. MeasureInv'
  <2>1. CASE small' # {} /\ pc' = "idle" /\ rv' = -1 /\ part' = part
    BY <1>0, <2>1 DEF MeasureInv
  <2>2. CASE small' = {} /\ part = 1 /\ pc' = "mkdir" /\ rv' = rv /\ part' = 2
    <3>1. faults = 0 => read[1] = cap - Cardinality(small \ empty)
      BY <1>0, <2>2 DEF MeasureInv
    <3>2. small \ empty = {}
      BY <1>3, <2>2
    <3>3. Cardinality(small \ empty) = 0
      BY <3>2, FS_EmptySet
    <3>4. faults = 0 => read[1] = cap
      BY <3>1, <3>3, FragAssumption DEF TypeOK
    <3> QED BY <1>0, <1>4, <2>2, <3>4 DEF MeasureInv
  <2>3. CASE small' = {} /\ part = 2 /\ pc' = "idle" /\ rv' = 0 /\ part' = 2
    BY <1>0, <2>3 DEF MeasureInv, to_delete
  <2> QED BY <1>1, <2>1, <2>2, <2>3
<1> QED BY <1>5, <1>6, <1>7, <1>8, <1>9, <1>10

LEMMA CleanFailsStep == ASSUME TestInv, CleanFails PROVE TestInv'
<1> USE DEF TestInv, FragInv
<1>0. /\ pc = "clean" /\ pc' = "idle" /\ rv' = -1 /\ part' = part
      /\ empty' = empty \cap small' /\ dir' = TRUE
      /\ nr' = nr /\ rnd' = rnd /\ deleted' = deleted /\ fd' = fd /\ read' = read
      /\ cap' = cap /\ args' = args /\ dirty' = dirty
  BY DEF CleanFails, CleanReturns, Return, locals, call
<1>a. PICK n \in 1..(MaxFaults - faults) : \E f \in [1..n -> small \cup {Absent}] :
        LET failed == {f[k] : k \in 1..n}
        IN  /\ small' = Leftover(failed)
            /\ big' = Absent \/ (Absent \in failed /\ big' = big)
            /\ faults' = faults + n
  BY DEF CleanFails
<1>1. faults' \in 0..MaxFaults /\ faults' # 0
  <2>1. faults' = faults + n
    BY <1>a
  <2>2. faults \in 0..MaxFaults /\ MaxFaults \in Nat /\ n \in 1..(MaxFaults - faults)
    BY FragAssumption DEF TypeOK
  <2> HIDE DEF TestInv
  <2> QED BY <2>1, <2>2
<1>2. small' \subseteq small /\ big' \in {big, Absent}
  <2>1. \A S : Leftover(S) \subseteq small
    BY DEF Leftover
  <2> QED BY <1>a, <2>1
<1>3. TypeOK'
  <2>1. big' \in Absent..cap'
    BY <1>0, <1>2, FragAssumption DEF TypeOK, Absent
  <2> QED BY <1>0, <1>1, <1>2, <2>1 DEF TypeOK
<1>4. DiskInv'
  <2>1. small' \ empty' = small' \ empty
    BY <1>0
  <2>2. Cardinality(small' \ empty') <= Cardinality(small \ empty)
        /\ Cardinality(small' \ empty') \in Nat /\ Cardinality(small \ empty) \in Nat
    BY <1>2, <2>1, DeletedFrees
  <2>3. cap \in Nat /\ big \in Int /\ big >= -1
    BY FragAssumption DEF TypeOK, Absent
  <2>4. Used' <= cap'
    <3>1. Used <= cap
      BY DEF DiskInv
    <3> QED BY <1>0, <1>2, <2>2, <2>3, <3>1 DEF Used, Absent
  <2> QED BY <1>0, <2>4 DEF DiskInv
<1>5. CountInv' /\ FileInv'
  BY <1>0 DEF CountInv, FileInv
<1>6. StageInv'
  BY <1>0 DEF StageInv
<1>7. CleanReturn' /\ MeasureInv'
  BY <1>0, <1>1 DEF CleanReturn, MeasureInv
<1> QED BY <1>3, <1>4, <1>5, <1>6, <1>7

LEMMA CommandStep == ASSUME TestInv, NEW v \in ArgVectors, Command(v) PROVE TestInv'
<1> USE DEF TestInv, FragInv
<1>0. /\ args' = v /\ nr' = 0 /\ rnd' = [hi |-> 0, lo |-> 0] /\ deleted' = 0 /\ ~fd'
      /\ fd' = FALSE /\ part' = 1 /\ read' = <<Absent, Absent>> /\ faults' = 0
      /\ dirty' = (small # {}) /\ cap' = cap /\ dir' = dir /\ small' = small
      /\ empty' = empty /\ big' = big
  BY DEF Command, disk
<1>1. pc' \in {"mkdir", "idle"} /\ rv' \in {1, -1}
  BY DEF Command
<1>2. TypeOK'
  <2>1. read' \in [{1, 2} -> Absent..cap']
    BY <1>0, FragAssumption DEF TypeOK, Absent
  <2>2. rnd' \in [hi : 0..(Hi - 1), lo : 0..(Lo - 1)]
    BY <1>0, FragAssumption
  <2>3. nr' \in 0..(cap' + 1) /\ deleted' \in 0..(cap' + 1) /\ faults' \in 0..MaxFaults
        /\ part' \in {1, 2} /\ rv' \in {-1, 0, 1}
    BY <1>0, <1>1, FragAssumption DEF TypeOK
  <2>4. dirty' \in BOOLEAN /\ fd' \in BOOLEAN /\ dir' \in BOOLEAN
    BY <1>0 DEF TypeOK
  <2> QED BY <1>0, <1>1, <2>1, <2>2, <2>3, <2>4 DEF TypeOK
<1>3. DiskInv'
  BY <1>0 DEF DiskInv, Used
<1>4. CountInv' /\ FileInv'
  BY <1>0, <1>1 DEF CountInv, FileInv
<1>5. StageInv'
  <2>1. dirty' => small' # {}
    BY <1>0
  <2>2. part' = 1 /\ part' # 2 /\ rv' # 0 /\ nr' = 0 /\ deleted' = 0
    BY <1>0, <1>1
  <2>3. pc' \notin {"big", "read", "fill", "remove", "clean"}
    BY <1>1
  <2> QED BY <1>0, <2>1, <2>2, <2>3 DEF StageInv
<1>6. CleanReturn' /\ MeasureInv'
  BY <1>0, <1>1 DEF CleanReturn, MeasureInv
<1> QED BY <1>2, <1>3, <1>4, <1>5, <1>6

LEMMA StutterStep == ASSUME TestInv, UNCHANGED vars PROVE TestInv'
<1> USE DEF TestInv, FragInv, vars, disk, locals, call
<1>1. TypeOK'
  BY DEF TypeOK
<1>2. DiskInv' /\ CountInv' /\ FileInv'
  BY DEF DiskInv, CountInv, FileInv, Used, Free, to_delete
<1>3. StageInv' /\ CleanReturn' /\ MeasureInv'
  BY DEF StageInv, CleanReturn, MeasureInv, Cleanup, to_delete
<1> QED BY <1>1, <1>2, <1>3

LEMMA TestStep == ASSUME TestInv, [Next]_vars PROVE TestInv'
<1>1. CASE Work
  BY <1>1, MakeDirStep, CreateBigStep, ReadStep, FillStep, RemoveStep, RemoveDoneStep,
     CleanStep DEF Work
<1>2. CASE Fails
  BY <1>2, MakeDirFailsStep, CreateBigFailsStep, CreateBigWriteFailsStep, ReadOpenFailsStep,
     ReadFailsStep, ReadNoMemoryStep, FillOpenFailsStep, FillWriteFailsStep, RemoveFailsStep,
     RemoveWriteFailsStep, BigOpenFailsStep, CleanFailsStep DEF Fails
<1>3. CASE \E v \in ArgVectors : Command(v)
  BY <1>3, CommandStep
<1>4. CASE UNCHANGED vars
  BY <1>4, StutterStep
<1> QED BY <1>1, <1>2, <1>3, <1>4 DEF Next

LEMMA TestAlways == Spec => []TestInv
<1>1. Init => TestInv
  BY InitTest
<1>2. TestInv /\ [Next]_vars => TestInv'
  BY TestStep
<1> QED BY <1>1, <1>2, PTL DEF Spec

-----------------------------------------------------------------------------
(* What the command promises.                                               *)

\* Whatever system calls fail, the writes among them, the disk is never
\* overcommitted, the files are in the directory, and the count of deleted
\* files is the number of small files that are gone; when none fails, the files
\* take the whole disk (fragmented-read-test.c:103-252).
THEOREM DiskAccounted == Spec => []FragInv
<1>1. TestInv => FragInv
  BY DEF TestInv
<1> QED BY <1>1, TestAlways, PTL

\* A call that cleans up and returns 0 leaves nothing on the disk
\* (do_cleanup, fragmented-read-test.c:326-367).
THEOREM SuccessCleans == Spec => []CleanReturn
<1>1. TestInv => CleanReturn
  BY DEF TestInv
<1> QED BY <1>1, TestAlways, PTL

\* A call that finds files of an earlier call never returns 0: the rmdir that
\* ends its first part fails (fragmented-read-test.c:360-364, :408).
THEOREM DirtyRefused == Spec => []NotDirty
<1>1. TestInv => NotDirty
  BY DEF TestInv, StageInv, NotDirty
<1> QED BY <1>1, TestAlways, PTL

\* When no system call fails, the first read test reads a file as large as
\* the disk, the second one of a third of the small files, or one less
\* (fragmented-read-test.c:255-323).
THEOREM ReadsMeasure == Spec => []Measured
<1>1. TestInv => Measured
  BY DEF TestInv, StageInv, MeasureInv, Measured
<1> QED BY <1>1, TestAlways, PTL

-----------------------------------------------------------------------------
(* Why some disks never get to a third.  The generator is linear: a is 7     *)
(* modulo 8 and c is 2, so that from 0 its lowest bits alternate between 0   *)
(* and 2.  The remainder of a multiple of 8 keeps them.                      *)

\* The files the generator can draw when their number is a multiple of 8.
Drawable(n) == {i \in 0..(n - 1) : i % 8 \in {0, 2}}

DrawInv ==
  /\ rnd.lo % 8 \in {0, 2}
  /\ pc = "remove" /\ nr % 8 = 0 => (0..(nr - 1)) \ small \subseteq Drawable(nr)

LEMMA Eightfold ==
  ASSUME NEW q \in Nat, NEW d \in Nat
  PROVE  (8 * q) * d = 8 * (q * d) /\ q * d \in Nat
  OBVIOUS

\* The remainder of a multiple of 8 has the lowest three bits of the number.
LEMMA LowBitsKept ==
  ASSUME NEW x \in Nat, NEW m \in Nat \ {0}, m % 8 = 0
  PROVE  (x % m) % 8 = x % 8
<1>1. PICK q \in Nat : m = 8 * q
  <2>1. m = 8 * (m \div 8) /\ m \div 8 \in Nat
    OBVIOUS
  <2> QED BY <2>1
<1>2. x \div m \in Nat /\ x % m \in Nat /\ x = m * (x \div m) + (x % m)
  OBVIOUS
<1> DEFINE e == q * (x \div m)
           r == x % m
<1>3. m * (x \div m) = 8 * e /\ e \in Nat
  BY <1>1, <1>2, Eightfold
<1>4. x = 8 * e + r /\ r \in Nat
  BY <1>2, <1>3
<1>5. x % 8 = r % 8
  <2> HIDE DEF e, r
  <2> QED BY <1>3, <1>4
<1> QED BY <1>5

\* One draw turns 0 into 2 and 2 into 0.
LEMMA BitsAlternate ==
  ASSUME TypeOK, Lo % 8 = 0, rnd.lo % 8 \in {0, 2}
  PROVE  drawn.lo % 8 \in {0, 2}
<1> DEFINE A == a % Lo
           l == rnd.lo
<1>1. A \in Nat /\ l \in Nat
  BY FragAssumption DEF TypeOK, a
<1>2. A % 8 = 7
  <2>1. a \in Nat /\ Lo \in Nat \ {0}
    BY FragAssumption DEF a
  <2>2. (a % Lo) % 8 = a % 8
    BY <2>1, LowBitsKept
  <2>3. a % 8 = 7
    BY DEF a
  <2> QED BY <2>2, <2>3
<1>3. drawn.lo = (l * A + c) % Lo
  BY DEF drawn, pseudo_random
<1>4. l % 8 \in {0, 2}
  OBVIOUS
<1>5. l * A + c \in Nat /\ (l * A + c) % 8 \in {0, 2}
  <2> HIDE DEF A, l
  <2>1. PICK k \in Nat : A = 8 * k + 7
    <3>1. A = 8 * (A \div 8) + 7 /\ A \div 8 \in Nat
      BY <1>1, <1>2
    <3> QED BY <3>1
  <2> DEFINE e == l * k
  <2>2. l * A = 8 * e + 7 * l /\ e \in Nat
    BY <1>1, <2>1
  <2> HIDE DEF e
  <2> QED BY <1>1, <1>4, <2>2 DEF c
<1> DEFINE w == l * A + c
<1>6. (w % Lo) % 8 = w % 8
  <2> HIDE DEF w
  <2> QED BY <1>5, LowBitsKept, FragAssumption DEF w
<1> QED BY <1>3, <1>5, <1>6

\* What is drawn from a multiple of 8 files has the lowest bits of the word.
LEMMA DrawnFile ==
  ASSUME TypeOK, Lo % 8 = 0, drawn.lo % 8 \in {0, 2}, nr # 0, nr % 8 = 0,
         Index(drawn, nr) \in 0..(nr - 1)
  PROVE  Index(drawn, nr) \in Drawable(nr)
<1>1. nr \in Nat \ {0} /\ drawn.hi \in Nat /\ drawn.lo \in Nat
  <2>1. drawn \in [hi : 0..(Hi - 1), lo : 0..(Lo - 1)]
    BY DrawnType
  <2>2. drawn.hi \in Nat /\ drawn.lo \in Nat
    BY <2>1, FragAssumption
  <2>3. nr \in Nat
    BY FragAssumption DEF TypeOK
  <2> QED BY <2>2, <2>3
<1> DEFINE h == drawn.hi % nr
           L == Lo % nr
           l == drawn.lo
           w == h * L + l
<1>2. h \in Nat /\ L \in Nat /\ l \in Nat
  BY <1>1, FragAssumption
<1>3. L % 8 = 0
  BY <1>1, LowBitsKept, FragAssumption
<1>4. w \in Nat /\ w % 8 = l % 8
  <2> HIDE DEF h, L, l
  <2>1. PICK k \in Nat : L = 8 * k
    <3>1. L = 8 * (L \div 8) /\ L \div 8 \in Nat
      BY <1>2, <1>3
    <3> QED BY <3>1
  <2> DEFINE e == h * k
  <2>2. h * L = 8 * e /\ e \in Nat
    BY <1>2, <2>1
  <2> HIDE DEF e
  <2> QED BY <1>2, <2>2
<1>5. (w % nr) % 8 = w % 8
  <2> HIDE DEF w
  <2> QED BY <1>1, <1>4, LowBitsKept
<1>6. Index(drawn, nr) = w % nr
  BY DEF Index
<1> QED BY <1>4, <1>5, <1>6 DEF Drawable

\* That is a quarter of them.
LEMMA DrawableQuarter ==
  ASSUME NEW n \in Nat, n % 8 = 0
  PROVE  IsFiniteSet(Drawable(n)) /\ Cardinality(Drawable(n)) <= n \div 4
<1>1. PICK m \in Nat : n = 8 * m
  <2>1. n = 8 * (n \div 8) /\ n \div 8 \in Nat
    OBVIOUS
  <2> QED BY <2>1
<1> DEFINE f == [k \in 1..(2 * m) |-> IF k <= m THEN 8 * (k - 1) ELSE 8 * (k - m - 1) + 2]
<1>2. \A k \in 1..(2 * m) : f[k] \in Drawable(n)
  BY <1>1 DEF Drawable
<1>3. \A i \in Drawable(n) : \E k \in 1..(2 * m) : f[k] = i
  <2> SUFFICES ASSUME NEW i \in Drawable(n) PROVE \E k \in 1..(2 * m) : f[k] = i
    OBVIOUS
  <2>1. i \in Nat /\ i < 8 * m /\ i % 8 \in {0, 2}
    BY <1>1 DEF Drawable
  <2> DEFINE d == i \div 8
  <2>2. d \in Nat /\ d < m /\ (i = 8 * d \/ i = 8 * d + 2)
    BY <2>1, <1>1
  <2> HIDE DEF d
  <2>3. CASE i = 8 * d
    <3>1. d + 1 \in 1..(2 * m) /\ f[d + 1] = i
      BY <1>1, <2>2, <2>3
    <3> QED BY <3>1
  <2>4. CASE i = 8 * d + 2
    <3>1. d + 1 + m \in 1..(2 * m) /\ f[d + 1 + m] = i
      BY <1>1, <2>2, <2>4
    <3> QED BY <3>1
  <2> QED BY <2>2, <2>3, <2>4
<1>4. f \in Surjection(1..(2 * m), Drawable(n))
  BY <1>2, <1>3 DEF Surjection
<1>5. IsFiniteSet(1..(2 * m)) /\ Cardinality(1..(2 * m)) = 2 * m
  <2>1. Cardinality(1..(2 * m)) = IF 1 > 2 * m THEN 0 ELSE 2 * m - 1 + 1
    BY <1>1, FS_Interval
  <2>2. IsFiniteSet(1..(2 * m))
    BY <1>1, FS_Interval
  <2> QED BY <1>1, <2>1, <2>2
<1>6. IsFiniteSet(Drawable(n)) /\ Cardinality(Drawable(n)) <= 2 * m
  <2> HIDE DEF f
  <2> QED BY <1>4, <1>5, FS_Surjection
<1>7. n \div 4 = 2 * m
  BY <1>1
<1> QED BY <1>6, <1>7

LEMMA DrawStep ==
  ASSUME Lo % 8 = 0, TestInv, DrawInv, [Next]_vars
  PROVE  DrawInv'
<1> USE DEF TestInv, FragInv
<1>1. ASSUME UNCHANGED <<pc, nr, small>>, rnd' \in {rnd, drawn}
      PROVE  DrawInv'
  <2>1. rnd'.lo % 8 \in {0, 2}
    BY <1>1, BitsAlternate DEF DrawInv
  <2> QED BY <1>1, <2>1 DEF DrawInv
<1>2. ASSUME pc' # "remove", rnd' \in {rnd, drawn, [hi |-> 0, lo |-> 0]}
      PROVE  DrawInv'
  <2>1. rnd'.lo % 8 \in {0, 2}
    BY <1>2, BitsAlternate DEF DrawInv
  <2> QED BY <1>2, <2>1 DEF DrawInv
<1>3. CASE UNCHANGED vars
  BY <1>3, <1>1 DEF vars, disk, locals
<1>b. ASSUME pc = "fill", rnd' = rnd, nr' = nr + 1, small' = small \cup {nr}
      PROVE  DrawInv'
  <2>1. nr \in Nat /\ small = 0..(nr - 1)
    BY <1>b DEF FileInv, TypeOK
  <2>2. (0..(nr' - 1)) \ small' = {}
    BY <1>b, <2>1
  <2> QED BY <1>b, <2>2 DEF DrawInv
<1>c. ASSUME pc = "remove", rnd' = drawn, nr' = nr, Index(drawn, nr) \in small,
             small' = small \ {Index(drawn, nr)}
      PROVE  DrawInv'
  <2>1. nr # 0
    BY <1>c, FragAssumption DEF TypeOK, FileInv
  <2>2. rnd'.lo % 8 \in {0, 2}
    BY <1>c, BitsAlternate DEF DrawInv
  <2>3. Index(drawn, nr) \in 0..(nr - 1)
    BY <1>c DEF CountInv, StageInv, TypeOK
  <2>4. nr % 8 = 0 => Index(drawn, nr) \in Drawable(nr)
    BY <1>c, <2>1, <2>2, <2>3, DrawnFile
  <2> QED BY <1>c, <2>2, <2>4 DEF DrawInv
<1>4. CASE MakeDir \/ CreateBig \/ Read \/ RemoveDone \/ Clean
  BY <1>4, <1>2 DEF MakeDir, AfterMkdir, CreateBig, Read, AfterRead, RemoveDone, Clean,
     CleanReturns, Goto, Return, locals
<1>5. CASE Fails
  <2>1. CASE FillWriteFails
    BY <2>1, <1>b DEF FillWriteFails
  <2>2. CASE RemoveWriteFails
    <3>1. Index(drawn, nr) \in small /\ small' = small \ {Index(drawn, nr)}
      BY <2>2 DEF RemoveWriteFails
    <3> QED BY <2>2, <3>1, <1>c DEF RemoveWriteFails
  <2>3. CASE MakeDirFails \/ CreateBigFails \/ CreateBigWriteFails \/ ReadOpenFails
             \/ ReadFails \/ ReadNoMemory \/ FillOpenFails \/ RemoveFails \/ BigOpenFails
    BY <2>3, <1>2 DEF MakeDirFails, CreateBigFails, CreateBigWriteFails, ReadOpenFails,
       ReadFails, ReadNoMemory, FillOpenFails, RemoveFails, BigOpenFails, AfterRead, Goto,
       Return, locals
  <2>4. CASE CleanFails
    BY <2>4, <1>2 DEF CleanFails, CleanReturns, Goto, Return, locals
  <2> QED BY <1>5, <2>1, <2>2, <2>3, <2>4 DEF Fails
<1>6. CASE \E v \in ArgVectors : Command(v)
  BY <1>6, <1>2 DEF Command
<1>7. CASE Fill
  BY <1>7, <1>b DEF Fill
<1>8. CASE Remove
  <2>1. CASE Index(drawn, nr) \notin small
    BY <1>8, <1>1, <2>1 DEF Remove
  <2>2. CASE Index(drawn, nr) \in small
    BY <1>8, <1>c, <2>2 DEF Remove
  <2> QED BY <2>1, <2>2
<1> QED BY <1>3, <1>4, <1>5, <1>6, <1>7, <1>8 DEF Next, Work

\* As long as files are being removed, there is a file left to remove.
ThirdOutOfReach ==
  pc = "remove" /\ nr % 8 = 0 /\ nr >= 16 => deleted < to_delete

\* On a word whose lower limb is a multiple of 8, as that of unsigned is, and a
\* number of small files that is a multiple of 8, the loop of
\* remove_some_small_files_and_create_big_file never has its third of the
\* files: it ends with a failed system call or not at all
\* (fragmented-read-test.c:193-236).  Run frag_sixteen shows 16 files of them.
THEOREM NeverAThird ==
  ASSUME Lo % 8 = 0 PROVE Spec => []ThirdOutOfReach
<1>1. Init => DrawInv
  BY DEF Init, DrawInv
<1>2. TestInv /\ DrawInv /\ [Next]_vars => DrawInv'
  BY DrawStep
<1>3. TestInv /\ DrawInv => ThirdOutOfReach
  <2> SUFFICES ASSUME TestInv, DrawInv, pc = "remove", nr % 8 = 0, nr >= 16
               PROVE  deleted < to_delete
    BY DEF ThirdOutOfReach
  <2> USE DEF TestInv, FragInv
  <2>1. /\ nr \in Nat /\ deleted \in Nat /\ small \subseteq 0..(nr - 1)
        /\ Cardinality(small) = nr - deleted
    BY FragAssumption DEF TypeOK, StageInv, CountInv
  <2> DEFINE gone == (0..(nr - 1)) \ small
  <2>2. Cardinality(gone) = deleted
    <3>1. IsFiniteSet(0..(nr - 1)) /\ Cardinality(0..(nr - 1)) = nr
      <4>1. Cardinality(0..(nr - 1)) = IF 0 > nr - 1 THEN 0 ELSE (nr - 1) - 0 + 1
        BY <2>1, FS_Interval
      <4>2. IsFiniteSet(0..(nr - 1))
        BY <2>1, FS_Interval
      <4> QED BY <2>1, <4>1, <4>2
    <3>2. (0..(nr - 1)) \cap small = small
      BY <2>1
    <3>3. Cardinality(gone) = Cardinality(0..(nr - 1)) - Cardinality((0..(nr - 1)) \cap small)
      BY <3>1, FS_Difference
    <3>4. Cardinality((0..(nr - 1)) \cap small) = nr - deleted
      BY <2>1, <3>2
    <3>5. Cardinality(gone) = nr - (nr - deleted)
      BY <3>1, <3>3, <3>4
    <3> HIDE DEF gone, TestInv
    <3> QED BY <2>1, <3>5
  <2>3. Cardinality(gone) <= nr \div 4
    <3>1. gone \subseteq Drawable(nr)
      BY DEF DrawInv
    <3>2. IsFiniteSet(Drawable(nr)) /\ Cardinality(Drawable(nr)) <= nr \div 4
      BY <2>1, DrawableQuarter
    <3>3. IsFiniteSet(gone) /\ Cardinality(gone) <= Cardinality(Drawable(nr))
      BY <3>1, <3>2, FS_Subset
    <3>4. Cardinality(gone) \in Nat /\ Cardinality(Drawable(nr)) \in Nat
      BY <3>2, <3>3, FS_CardinalityType
    <3> HIDE DEF gone
    <3> QED BY <2>1, <3>2, <3>3, <3>4
  <2>4. deleted <= nr \div 4
    BY <2>2, <2>3
  <2> QED BY <2>1, <2>4 DEF to_delete
<1>4. Spec => []DrawInv
  BY <1>1, <1>2, TestAlways, PTL DEF Spec
<1> QED BY <1>3, <1>4, TestAlways, PTL

\* The loop over the draws is left only for a system call that failed.
StaysInLoop ==
  pc = "remove" /\ nr % 8 = 0 /\ nr >= 16 => pc' = "remove" \/ RemoveFails \/ BigOpenFails

\* So no such call of frag-rd-test comes back to the shell by itself: each of
\* its steps is another draw, until an unlink or an open fails.
THEOREM DrawsForEver ==
  ASSUME Lo % 8 = 0 PROVE Spec => [][StaysInLoop]_vars
<1>1. ASSUME TypeOK, ThirdOutOfReach, Next PROVE StaysInLoop
  <2> SUFFICES ASSUME pc = "remove", nr % 8 = 0, nr >= 16, ~RemoveFails, ~BigOpenFails
               PROVE  pc' = "remove"
    BY DEF StaysInLoop
  <2>1. deleted < to_delete /\ deleted \in Nat /\ to_delete \in Nat
    <3>1. cap \in Nat /\ nr \in 0..(cap + 1) /\ deleted \in 0..(cap + 1)
      BY <1>1, FragAssumption DEF TypeOK
    <3>2. nr \in Nat /\ deleted \in Nat
      BY <3>1
    <3> QED BY <1>1, <3>2 DEF ThirdOutOfReach, to_delete
  <2>2. Remove \/ RemoveWriteFails
    <3>1. ~RemoveDone
      BY <2>1 DEF RemoveDone
    <3>2. ~(MakeDir \/ CreateBig \/ Read \/ Fill \/ Clean)
      BY DEF MakeDir, CreateBig, Read, Fill, Clean
    <3>3. ~\E v \in ArgVectors : Command(v)
      BY DEF Command
    <3>4. ~(MakeDirFails \/ CreateBigFails \/ CreateBigWriteFails \/ ReadOpenFails
            \/ ReadFails \/ ReadNoMemory \/ FillOpenFails \/ FillWriteFails \/ CleanFails)
      BY DEF MakeDirFails, CreateBigFails, CreateBigWriteFails, ReadOpenFails, ReadFails,
         ReadNoMemory, FillOpenFails, FillWriteFails, CleanFails
    <3> QED BY <1>1, <3>1, <3>2, <3>3, <3>4 DEF Next, Work, Fails
  <2> QED BY <2>2 DEF Remove, RemoveWriteFails
<1>2. TypeOK /\ ThirdOutOfReach /\ [Next]_vars => [StaysInLoop]_vars
  BY <1>1
<1>3. TestInv => TypeOK
  BY DEF TestInv, FragInv
<1> QED BY <1>2, <1>3, NeverAThird, TestAlways, PTL DEF Spec
=============================================================================
