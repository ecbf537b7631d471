---------------------------- MODULE StateStore -----------------------------
(***************************************************************************)
(* The barebox state storage that fdt/imx6ul-grisp2-state.dtsi declares on *)
(* the I2C EEPROM: the whole block of variables (update_system,            *)
(* update_boot_count, active_system) is written with a checksum to every   *)
(* copy in turn.  Writing a copy is not atomic: until it is complete the   *)
(* copy is Torn, that is, its checksum does not match.  A load takes the   *)
(* first copy that is valid, or the defaults of the dtsi, and repairs the  *)
(* others.  The driver is barebox; the number of copies, the variables and *)
(* the defaults are this repository's.                                     *)
(***************************************************************************)
EXTENDS Naturals

CONSTANTS Value,     \* the values of the state block
          Default,   \* the block of dtsi defaults
          Lost,      \* the working copy while the board is in reset
          Torn,      \* contents of a copy whose checksum does not match
          NCopies    \* partition size / stride size (0xC0 / 64 in the dtsi)

ASSUME StoreAssumption ==
  /\ Default \in Value
  /\ Lost \notin Value /\ Torn \notin Value
  /\ NCopies \in Nat /\ NCopies >= 2

VARIABLES copies,    \* the copies in the EEPROM
          ram,       \* state.bootstate.* in barebox or in the application
          todo       \* the copies a save or a repair has still to write

storeVars == <<copies, ram, todo>>

Copies == 1..NCopies

\* What a load makes of the copies f: the first one that is valid.
LoadFrom(f) ==
  IF \E c \in Copies : f[c] \in Value
  THEN f[CHOOSE c \in Copies : f[c] \in Value /\ \A d \in 1..(c - 1) : f[d] \notin Value]
  ELSE Default

Stored == LoadFrom(copies)
SomeValid == \E c \in Copies : copies[c] \in Value

\* Fault: the copies are written concurrently.
IsCurrent_Any(c) == c \in todo

\* The writer goes through the copies in their order.
IsCurrent(c) == c \in todo /\ \A d \in todo : c <= d

\* A new board has never written its EEPROM; a used one was left idle.
StoreInit ==
  /\ copies \in {[c \in Copies |-> v] : v \in Value \cup {Torn}}
  /\ ram = Lost
  /\ todo = {}

Idle == ram # Lost /\ todo = {}

-----------------------------------------------------------------------------
\* Fault: a load does not look at the copies after the one it uses.
Load_NoRepair == ram = Lost /\ ram' = Stored /\ todo' = {} /\ UNCHANGED copies

(* barebox probes the state node: read, then bring the copies that differ  *)
(* from the one that was used up to date.                                  *)
Load ==
  /\ ram = Lost
  /\ ram' = Stored
  /\ todo' = IF SomeValid
             THEN {c \in Copies : copies[c] # Stored} ELSE {}
  /\ UNCHANGED copies

\* setenv or let on a variable of state.bootstate.
Set(v) ==
  /\ Idle
  /\ ram' = v
  /\ UNCHANGED <<copies, todo>>

\* state -s
Save ==
  /\ Idle
  /\ todo' = Copies
  /\ UNCHANGED <<copies, ram>>

\* Fault: the partition is erased before the copies are written.
BeginWrite_EraseAll ==
  /\ \E c \in Copies : IsCurrent(c) /\ copies[c] # Torn
  /\ copies' = [c \in Copies |-> IF c \in todo THEN Torn ELSE copies[c]]
  /\ UNCHANGED <<ram, todo>>

BeginWrite ==
  \E c \in Copies :
    /\ IsCurrent(c) /\ copies[c] # Torn
    /\ copies' = [copies EXCEPT ![c] = Torn]
    /\ UNCHANGED <<ram, todo>>

EndWrite ==
  \E c \in Copies :
    /\ IsCurrent(c) /\ copies[c] = Torn
    /\ copies' = [copies EXCEPT ![c] = ram]
    /\ todo' = todo \ {c}
    /\ UNCHANGED ram

\* A reset or a power loss, whatever the writer was doing.
Reset ==
  /\ ram' = Lost /\ todo' = {}
  /\ UNCHANGED copies

StoreNext ==
  \/ Load \/ Save \/ BeginWrite \/ EndWrite \/ Reset
  \/ \E v \in Value : Set(v)

StoreSpec == StoreInit /\ [][StoreNext]_storeVars

-----------------------------------------------------------------------------
StoreTypeOK ==
  /\ copies \in [Copies -> Value \cup {Torn}]
  /\ ram \in Value \cup {Lost}
  /\ todo \subseteq Copies

(* What an interruption can leave behind: the copies before some k were     *)
(* written with a new value, those after it hold an old one, and copy k is  *)
(* torn or not yet touched.                                                 *)
Split ==
  \E k \in Copies, new \in Value, old \in Value \cup {Torn} :
    /\ \A c \in Copies : c < k => copies[c] = new
    /\ copies[k] \in {Torn, old}
    /\ \A c \in Copies : c > k => copies[c] = old

(* A save or a repair has brought the copies outside todo to the working    *)
(* copy; those in todo are as they were, but for the torn one at the front. *)
(* What is left is a suffix of the copies, or one torn copy to repair.      *)
Writing ==
  \E m \in todo, old \in Value \cup {Torn} :
    /\ todo = m..NCopies \/ (todo = {m} /\ copies[m] = Torn)
    /\ \A c \in Copies \ todo : copies[c] = ram
    /\ copies[m] \in {Torn, old}
    /\ \A c \in todo \ {m} : copies[c] = old

StoreInv ==
  /\ StoreTypeOK
  /\ ram = Lost => todo = {} /\ Split
  /\ todo # {} => Writing
  /\ Idle => \A c, d \in Copies : copies[c] = copies[d]

(* Redundancy: when barebox or the application is not writing, every copy  *)
(* in the EEPROM is the same, so any one of them may fail later.  A load    *)
(* must therefore repair what an interrupted `state -s` left.               *)
Redundant == Idle => \A c, d \in Copies : copies[c] = copies[d]

(* A board that has a valid copy never falls back to the dtsi defaults     *)
(* (active_system 0), wherever the power fails in however many `state -s`. *)
NeverForgets == [][SomeValid => SomeValid']_storeVars

(* The copies, the write order and the repair together give the scripts    *)
(* what AtomicState promises.                                               *)
Atomic == INSTANCE AtomicState WITH stored <- Stored, pending <- todo # {}
AtomicSpec == Atomic!Spec
=============================================================================
