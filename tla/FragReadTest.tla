--------------------------- MODULE FragReadTest ----------------------------
(***************************************************************************)
(* demo/fragmented-read-test.c: fill a disk with small files, remove a     *)
(* third of them at pseudo-random places, let one big file grow into the   *)
(* gaps and read it.  The disk is counted in units of a small file; what   *)
(* directories take is left out, and what a short write leaves of a unit.   *)
(* The generator is modelled exactly, its 32-bit word as two limbs.  At     *)
(* most MaxFaults system calls fail in one call of the command; a write on  *)
(* a full disk does not count as one.                                      *)
(***************************************************************************)
EXTENDS Integers, Sequences, FiniteSets

CONSTANTS Capacities,  \* sizes of the disk, in small files
          ArgVectors,  \* argv[1..] of the calls
          MaxFaults,
          Hi, Lo       \* the word of the generator has Hi * Lo values

ASSUME FragAssumption ==
  /\ Capacities \subseteq Nat
  /\ ArgVectors \subseteq Seq(STRING)
  /\ MaxFaults \in Nat
  /\ Hi \in Nat \ {0} /\ Lo \in Nat \ {0}

Absent == -1       \* size of a big file that does not exist

VARIABLES cap,     \* size of the disk
          dir,     \* the test directory exists
          small,   \* small files that exist
          empty,   \* the one whose contents were not written
          big,     \* size of the big file
          pc,      \* the function the command is in
          args,    \* argv[1..]
          part,    \* 1: non-fragmented file, 2: fragmented file
          nr,      \* small files opened so far: nr_files once a write has failed
          rnd,     \* rnd_state
          deleted,
          fd,      \* the big file is open while files are removed
          read,    \* size of the big file each read test found
          rv,      \* what the command returned; 1 while it runs
          faults,  \* system calls that failed
          dirty    \* the command was called on files of an earlier call

disk == <<dir, small, empty, big>>
locals == <<nr, rnd, deleted, fd>>
call == <<cap, args, dirty>>
vars == <<disk, pc, part, locals, read, rv, faults, call>>

Used == Cardinality(small \ empty) + (IF big = Absent THEN 0 ELSE big)
Free == cap - Used

-----------------------------------------------------------------------------
(* pseudo_random *)

a == 9910879       \* 0x973a5f
c == 2122          \* 0x84a

\* Fault: the increment is missing.
pseudo_random_NoIncrement(s) ==
  LET low == s.lo * (a % Lo)
  IN  [lo |-> low % Lo,
       hi |-> (s.hi * (a % Lo) + s.lo * (a \div Lo) + low \div Lo) % Hi]

\* *state * a + c in a word of Hi * Lo values.
pseudo_random(s) ==
  LET low == s.lo * (a % Lo) + c
  IN  [lo |-> low % Lo,
       hi |-> (s.hi * (a % Lo) + s.lo * (a \div Lo) + low \div Lo) % Hi]

\* *state % max
Index(s, max) == ((s.hi % max) * (Lo % max) + s.lo) % max

-----------------------------------------------------------------------------
(* command_fragmented_read_test *)

Options == {"-h", "--help", "--no-cleanup"}
Paths(v) == {k \in DOMAIN v : v[k] \notin Options}
Accepted(v) ==
  /\ \A k \in DOMAIN v : v[k] \notin {"-h", "--help"}
  /\ Cardinality(Paths(v)) = 1
Cleanup == \A k \in DOMAIN args : args[k] # "--no-cleanup"

Init ==
  /\ cap \in Capacities
  /\ dir = FALSE /\ small = {} /\ empty = {} /\ big = Absent
  /\ pc = "idle" /\ args = <<>> /\ part = 1 /\ rv = 1
  /\ nr = 0 /\ rnd = [hi |-> 0, lo |-> 0] /\ deleted = 0 /\ fd = FALSE
  /\ read = <<Absent, Absent>> /\ faults = 0 /\ dirty = FALSE

Command(v) ==
  /\ pc = "idle"
  /\ args' = v
  /\ IF Accepted(v)
     THEN pc' = "mkdir" /\ rv' = 1
     ELSE pc' = "idle" /\ rv' = -1
  /\ nr' = 0 /\ rnd' = [hi |-> 0, lo |-> 0] /\ deleted' = 0 /\ fd' = FALSE
  /\ part' = 1 /\ read' = <<Absent, Absent>> /\ faults' = 0 /\ dirty' = (small # {})
  /\ UNCHANGED <<cap, disk>>

Return(code) == pc' = "idle" /\ rv' = code
Goto(label) == pc' = label /\ UNCHANGED rv
Fault == faults < MaxFaults /\ faults' = faults + 1

-----------------------------------------------------------------------------
(* create_test_dir, create_big_file, check_read_speed_of_big_file *)

AfterMkdir == IF part = 1 THEN "big" ELSE "fill"

\* A directory that exists already (EEXIST) is good enough.
MakeDir ==
  /\ pc = "mkdir"
  /\ dir' = TRUE /\ Goto(AfterMkdir)
  /\ UNCHANGED <<small, empty, big, part, locals, read, faults, call>>

MakeDirFails ==
  /\ pc = "mkdir" /\ ~dir
  /\ Fault /\ Return(-1)
  /\ UNCHANGED <<disk, part, locals, read, call>>

\* What the disk has room for beside the small files fs.
Room(fs) == cap - Cardinality(fs)

\* An existing file is overwritten from its start and grows to the same size.
CreateBig ==
  /\ pc = "big"
  /\ big' = Room(small \ empty) /\ Goto("read")
  /\ UNCHANGED <<dir, small, empty, part, locals, read, faults, call>>

\* The status of a failed open is that of snprintf: a success.
CreateBigFails ==
  /\ pc = "big"
  /\ Fault /\ Goto("read")
  /\ UNCHANGED <<disk, part, locals, read, call>>

\* A write that fails ends the loop, and the function returns 0 all the same; a
\* file that was there is not truncated.
CreateBigWriteFails ==
  /\ pc = "big"
  /\ \E n \in 0..Room(small \ empty) : n >= big /\ big' = n
  /\ Fault /\ Goto("read")
  /\ UNCHANGED <<dir, small, empty, part, locals, read, call>>

\* Where the command goes on after a read test that did not return -1.
AfterRead == IF part = 1 \/ Cleanup THEN Goto("clean") ELSE Return(0)

Read ==
  /\ pc = "read"
  /\ read' = [read EXCEPT ![part] = big] /\ AfterRead
  /\ UNCHANGED <<disk, part, locals, faults, call>>

\* Again a failed open is a success; an earlier measurement stays none.
ReadOpenFails ==
  /\ pc = "read" /\ big # Absent
  /\ Fault /\ AfterRead
  /\ UNCHANGED <<disk, part, locals, read, call>>

\* An error ends the loop over the blocks, and what was read until then counts.
ReadFails ==
  /\ pc = "read" /\ big # Absent
  /\ \E n \in 0..big : read' = [read EXCEPT ![part] = n]
  /\ Fault /\ AfterRead
  /\ UNCHANGED <<disk, part, locals, call>>

ReadNoMemory ==
  /\ pc = "read"
  /\ Fault /\ Return(-1)
  /\ UNCHANGED <<disk, part, locals, read, call>>

-----------------------------------------------------------------------------
(* fill_disk_with_small_files; rmdir has just seen the directory empty *)

Fill ==
  /\ pc = "fill"
  /\ small' = small \cup {nr} /\ nr' = nr + 1
  /\ IF Free > 0
     THEN Goto("fill") /\ UNCHANGED empty
     ELSE Goto("remove") /\ empty' = {nr}
  /\ UNCHANGED <<dir, big, part, rnd, deleted, fd, read, faults, call>>

\* A write that fails for another reason than a full disk ends the loop as well:
\* the files do not fill the disk, and the last one counts.
FillWriteFails ==
  /\ pc = "fill" /\ Free > 0
  /\ small' = small \cup {nr} /\ nr' = nr + 1 /\ empty' = {nr}
  /\ Fault /\ Goto("remove")
  /\ UNCHANGED <<dir, big, part, rnd, deleted, fd, read, call>>

\* What has been written stays on the disk.
FillOpenFails ==
  /\ pc = "fill"
  /\ Fault /\ Return(-1)
  /\ UNCHANGED <<disk, part, locals, read, call>>

-----------------------------------------------------------------------------
(* remove_some_small_files_and_create_big_file *)

to_delete == nr \div 3
drawn == pseudo_random(rnd)

\* Fault: a file that was already gone counts as removed.
Remove_CountsMissing ==
  /\ pc = "remove" /\ deleted < to_delete
  /\ rnd' = drawn
  /\ LET i == Index(drawn, nr)
     IN  /\ small' = small \ {i} /\ empty' = empty \ {i}
         /\ deleted' = deleted + 1 /\ fd' = TRUE
         /\ big' = Room(small' \ empty')
  /\ UNCHANGED <<dir, pc, part, nr, read, rv, faults, call>>

\* Fault: the big file is written when it is opened, not after each removal.
Remove_WritesOnce ==
  /\ pc = "remove" /\ deleted < to_delete
  /\ rnd' = drawn
  /\ LET i == Index(drawn, nr)
     IN  IF i \in small
         THEN /\ small' = small \ {i} /\ empty' = empty \ {i}
              /\ deleted' = deleted + 1 /\ fd' = TRUE
              /\ big' = IF fd THEN big ELSE Room(small' \ empty')
         ELSE UNCHANGED <<small, empty, deleted, fd, big>>
  /\ UNCHANGED <<dir, pc, part, nr, read, rv, faults, call>>

(* One draw.  A file that is gone (ENOENT) costs another draw; after a      *)
(* removal the big file, opened the first time, takes all that is free.     *)
Remove ==
  /\ pc = "remove" /\ deleted < to_delete
  /\ rnd' = drawn
  /\ LET i == Index(drawn, nr)
     IN  IF i \in small
         THEN /\ small' = small \ {i} /\ empty' = empty \ {i}
              /\ deleted' = deleted + 1 /\ fd' = TRUE
              /\ big' = Room(small' \ empty')
         ELSE UNCHANGED <<small, empty, deleted, fd, big>>
  /\ UNCHANGED <<dir, pc, part, nr, read, rv, faults, call>>

\* A write to the big file fails before the disk is full; nobody asks why.
RemoveWriteFails ==
  /\ pc = "remove" /\ deleted < to_delete
  /\ rnd' = drawn
  /\ LET i == Index(drawn, nr)
     IN  i \in small /\ small' = small \ {i} /\ empty' = empty \ {i}
  /\ deleted' = deleted + 1 /\ fd' = TRUE
  /\ \E n \in 0..Room(small' \ empty') : n >= big /\ big' = n
  /\ Fault
  /\ UNCHANGED <<dir, pc, part, nr, read, rv, call>>

\* The descriptor of the big file stays open.
RemoveFails ==
  /\ pc = "remove" /\ deleted < to_delete
  /\ rnd' = drawn
  /\ Fault /\ Return(-1)
  /\ UNCHANGED <<disk, part, nr, deleted, fd, read, call>>

\* rv is 0 from the removal, so the command goes on without a big file.
BigOpenFails ==
  /\ pc = "remove" /\ deleted < to_delete /\ ~fd
  /\ rnd' = drawn
  /\ Index(drawn, nr) \in small
  /\ small' = small \ {Index(drawn, nr)} /\ empty' = empty \ {Index(drawn, nr)}
  /\ deleted' = deleted + 1
  /\ Fault /\ Goto("read")
  /\ UNCHANGED <<dir, big, part, nr, fd, read, call>>

RemoveDone ==
  /\ pc = "remove" /\ deleted >= to_delete
  /\ fd' = FALSE /\ Goto("read")
  /\ UNCHANGED <<disk, part, nr, rnd, deleted, read, faults, call>>

-----------------------------------------------------------------------------
(* do_cleanup(dir, nr_files); part 1 has written no small files, nr is 0.   *)
(* Files another call has left keep rmdir from removing the directory.      *)

Leftover(keep) == {f \in small : f \notin 0..(nr - 1) \/ f \in keep}

CleanReturns ==
  IF dir' THEN Return(-1) /\ UNCHANGED part
  ELSE IF part = 1 THEN Goto("mkdir") /\ part' = 2
  ELSE Return(0) /\ UNCHANGED part

\* Fault: the status of rmdir is printed and forgotten.
Clean_IgnoresRmdir ==
  /\ pc = "clean"
  /\ small' = Leftover({}) /\ empty' = empty \cap small'
  /\ big' = Absent /\ dir' = (small' # {})
  /\ IF part = 1 THEN Goto("mkdir") /\ part' = 2 ELSE Return(0) /\ UNCHANGED part
  /\ UNCHANGED <<locals, read, faults, call>>

Clean ==
  /\ pc = "clean"
  /\ small' = Leftover({}) /\ empty' = empty \cap small'
  /\ big' = Absent /\ dir' = (small' # {})
  /\ CleanReturns
  /\ UNCHANGED <<locals, read, faults, call>>

\* Any of the unlinks may fail, and rmdir.  f names the calls that do: small
\* files, and Absent for the big one or the directory.
CleanFails ==
  /\ pc = "clean"
  /\ \E n \in 1..(MaxFaults - faults) : \E f \in [1..n -> small \cup {Absent}] :
       LET failed == {f[k] : k \in 1..n}
       IN  /\ small' = Leftover(failed)
           /\ big' = Absent \/ (Absent \in failed /\ big' = big)
           /\ faults' = faults + n
  /\ empty' = empty \cap small' /\ dir' = TRUE
  /\ CleanReturns
  /\ UNCHANGED <<locals, read, call>>

-----------------------------------------------------------------------------
Work ==
  \/ MakeDir \/ CreateBig \/ Read \/ Fill \/ Remove \/ RemoveDone \/ Clean

Fails ==
  \/ MakeDirFails \/ CreateBigFails \/ CreateBigWriteFails
  \/ ReadOpenFails \/ ReadFails \/ ReadNoMemory
  \/ FillOpenFails \/ FillWriteFails \/ RemoveFails \/ RemoveWriteFails \/ BigOpenFails
  \/ CleanFails

Next == Work \/ Fails \/ \E v \in ArgVectors : Command(v)

Spec == Init /\ [][Next]_vars

\* A command that was started runs on.
FairSpec == Spec /\ WF_vars(Work)

-----------------------------------------------------------------------------
TypeOK ==
  /\ cap \in Capacities /\ args \in ArgVectors \cup {<<>>}
  /\ dir \in BOOLEAN /\ dirty \in BOOLEAN /\ fd \in BOOLEAN
  /\ small \subseteq 0..cap /\ empty \subseteq small
  /\ big \in Absent..cap
  /\ pc \in {"idle", "mkdir", "big", "read", "fill", "remove", "clean"}
  /\ part \in {1, 2} /\ rv \in {-1, 0, 1}
  /\ nr \in 0..(cap + 1) /\ deleted \in 0..(cap + 1)
  /\ rnd \in [hi : 0..(Hi - 1), lo : 0..(Lo - 1)]
  /\ read \in [{1, 2} -> Absent..cap]
  /\ faults \in 0..MaxFaults

\* Files live in the directory, and the disk is never overcommitted.
DiskInv ==
  /\ small # {} \/ big # Absent => dir
  /\ Used <= cap

\* Every file that was filled in is there or was counted as deleted; unless a
\* call has failed, they and the big file take the whole disk.
CountInv ==
  /\ part = 2 /\ pc \in {"fill", "remove", "read", "clean"} =>
       /\ small \subseteq 0..(nr - 1)
       /\ Cardinality(small) = nr - deleted
  /\ pc = "remove" /\ faults = 0 => nr = cap + 1 /\ (fd => Free = 0)

FragInv == TypeOK /\ DiskInv /\ CountInv

(* A call that reports success after a clean-up leaves the disk as it was   *)
(* before the first call.                                                   *)
CleanReturn == rv = 0 /\ Cleanup => ~dir /\ small = {} /\ big = Absent

(* A call on a disk that still holds the small files of an earlier call     *)
(* (aborted, or --no-cleanup) does not measure with them and report success.*)
NotDirty == rv = 0 => ~dirty

(* When no system call fails, both read tests read what they are meant to:  *)
(* the whole disk in one piece, and then a third of it, less the small file *)
(* that had no contents.                                                    *)
Measured ==
  rv = 0 /\ faults = 0 =>
    /\ read[1] = cap
    /\ nr >= 3 => read[2] \in {to_delete, to_delete - 1}

(* Every call comes back to the shell, whatever fails, unless it has made a *)
(* number of small files that is a multiple of 8 from 16 up: then it draws   *)
(* for ever (frag_sixteen).                                                 *)
DrawsInVain == pc = "remove" /\ nr % 8 = 0 /\ nr >= 16
Returns == pc # "idle" ~> pc = "idle" \/ DrawsInVain

(* fragmented-read-test.c:207, "Remove a third of the files."               *)
RemovesAThird == pc = "remove" ~> deleted = nr \div 3 \/ faults > 0
=============================================================================
