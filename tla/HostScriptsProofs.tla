--------------------------- MODULE HostScriptsProofs ---------------------------
(***************************************************************************)
(* The scripts that run on the host.  The linker script workaround keeps a *)
(* default script through any number of interruptions, for any number of   *)
(* BSP versions; the reset of the debugger script brings what it promises  *)
(* to the prompt of gdb, for every time it waits.                          *)
(***************************************************************************)
EXTENDS LinkCmds, GdbReset, TLAPS

-----------------------------------------------------------------------------
(* libbsd of the Makefile *)

LEMMA ScriptKinds ==
  /\ Missing \notin Defaults \cup Sdrams
  /\ Torn \notin Defaults
  /\ Defaults \cap Sdrams = {}
<1>1. Missing.kind = "missing" /\ Torn.kind = "torn"
  BY DEF Missing, Torn
<1>2. \A f \in Defaults : f.kind = "default"
  BY DEF Defaults, Default
<1>3. \A f \in Sdrams : f.kind = "sdram"
  BY DEF Sdrams, Sdram
<1> QED BY <1>1, <1>2, <1>3

\* Nothing is installed and nothing is kept.
LEMMA LinkStart == LinkInit => LinkInv
  BY LinkAssumption, ScriptKinds DEF LinkAssumption, LinkInit, LinkInv, LinkTypeOK, Scripts, Versions

\* Every command of the two targets, and every way to break them off, keeps
\* the invariant.
LEMMA LinkStep == LinkInv /\ [LinkNext]_linkVars => LinkInv'
<1> SUFFICES ASSUME LinkInv, [LinkNext]_linkVars PROVE LinkInv'
  OBVIOUS
<1> USE LinkAssumption, ScriptKinds DEF LinkAssumption, LinkInv, LinkTypeOK, Scripts, Versions
<1>1. CASE InstallBsp
  <2>1. bsp' \in Versions /\ linkcmds' = Default(bsp')
    BY <1>1 DEF InstallBsp
  <2>2. linkcmds' \in Defaults
    BY <2>1 DEF Defaults
  <2> QED BY <1>1, <2>1, <2>2 DEF InstallBsp
<1>2. CASE InstallSdram
  <2>1. sdram' \in Sdrams
    BY <1>2 DEF InstallSdram, Sdrams
  <2> QED BY <1>2, <2>1 DEF InstallSdram
<1>3. CASE Configure
  BY <1>3 DEF Configure, files
<1>4. CASE Keep
  <2>1. CASE org = Missing
    <3>1. linkcmds \in Defaults /\ linkcmds # Missing
      BY <1>4, <2>1 DEF Keep
    <3> QED BY <1>4, <2>1, <3>1 DEF Keep
  <2>2. CASE org # Missing
    BY <1>4, <2>2 DEF Keep
  <2> QED BY <2>1, <2>2
<1>5. CASE UseSdram
  BY <1>5 DEF UseSdram
<1>6. CASE Build
  BY <1>6 DEF Build, files
<1>7. CASE Restore
  BY <1>7 DEF Restore
<1>8. CASE Interrupt
  BY <1>8 DEF Interrupt, files
<1>9. CASE InterruptCopy
  BY <1>9 DEF InterruptCopy
<1>10. CASE UNCHANGED linkVars
  BY <1>10 DEF linkVars, files
<1> QED BY <1>1, <1>2, <1>3, <1>4, <1>5, <1>6, <1>7, <1>8, <1>9, <1>10 DEF LinkNext

\* The inductive invariant, of the rules bsp-grisp1 and libbsd of the Makefile.
THEOREM LinkCorrect == LinkSpec => []LinkInv
  BY LinkStart, LinkStep, PTL DEF LinkSpec

\* A libbsd that ended has put a default script back, whatever was broken off
\* before it.
THEOREM WorkaroundUndone == LinkSpec => []Undone
<1>1. LinkInv => Undone
  BY ScriptKinds DEF LinkInv, LinkTypeOK, Undone
<1> QED BY <1>1, LinkCorrect, PTL

\* What is kept once stays, and is what libbsd leaves.
KeptForGood == org # Missing => org' = org /\ (pc' = "done" => linkcmds' = org)

\* The first script that was kept is kept for good: whatever BSPs are installed
\* after it, each libbsd that ends puts that one back (Makefile, the test of
\* linkcmds.org in libbsd).
THEOREM FirstScriptForGood == LinkSpec => [][KeptForGood]_linkVars
<1>1. ASSUME LinkInv, LinkNext PROVE KeptForGood
  <2> SUFFICES ASSUME org # Missing
               PROVE  org' = org /\ (pc' = "done" => linkcmds' = org)
    BY DEF KeptForGood
  <2> QED
    BY <1>1
       DEF LinkNext, InstallBsp, InstallSdram, Configure, Keep, UseSdram, Build, Restore,
           Interrupt, InterruptCopy, files
<1>2. LinkInv /\ [LinkNext]_linkVars => [KeptForGood]_linkVars
  BY <1>1
<1> QED BY <1>2, LinkCorrect, PTL DEF LinkSpec

-----------------------------------------------------------------------------
(* reset of start.gdb *)

\* The breakpoint stands from the line that sets it to the one that removes it.
BpInv == bp <=> line \in {"resume", "wait", "rbp"}

\* Until the script lets the target run, it is as the reset has left it.
HeldInv == line \in {"bp", "resume"} => halted /\ target = "rom"

\* The bootloader jumps to what it has loaded; as long as the script waits,
\* nothing else has been loaded over it.
JumpInv ==
  target = "jump" =>
    fdt /\ program # "garbage" /\ (line = "wait" => program = "sample")

\* The target that was caught in time, before and after the load.
Caught == line \in {"wait", "rbp", "load"} /\ target = "entry" /\ halted /\ fdt
Loaded == line = "prompt" /\ target = "app" /\ program = "app" /\ fdt
TimelyInv == timely => Caught \/ Loaded

ResetInv == TypeOK /\ BpInv /\ HeldInv /\ JumpInv /\ TimelyInv

LEMMA InitReset == ASSUME Init PROVE ResetInv
<1>1. TypeOK
  <2>1. elapsed \in 0..WaitLimit
    BY GdbAssumption DEF Init
  <2> QED BY <2>1 DEF Init, TypeOK
<1>2. BpInv /\ HeldInv /\ JumpInv /\ TimelyInv
  BY DEF Init, BpInv, HeldInv, JumpInv, TimelyInv
<1> QED BY <1>1, <1>2 DEF ResetInv

LEMMA ScriptStep == ASSUME ResetInv, Script PROVE ResetInv'
<1> USE DEF ResetInv, Then, board
<1>1. CASE ResetHalt
  <2> USE <1>1 DEF ResetHalt
  <2>1. elapsed' \in 0..WaitLimit
    BY GdbAssumption
  <2>2. TypeOK'
    BY <2>1 DEF TypeOK
  <2>3. BpInv' /\ HeldInv' /\ JumpInv' /\ TimelyInv'
    BY DEF BpInv, HeldInv, JumpInv, TimelyInv
  <2> QED BY <2>2, <2>3
<1>2. CASE SetBp
  <2> USE <1>2 DEF SetBp
  <2>1. TypeOK'
    BY DEF TypeOK
  <2>2. BpInv' /\ HeldInv' /\ JumpInv'
    BY DEF BpInv, HeldInv, JumpInv
  <2>3. TimelyInv'
    BY DEF TimelyInv, Caught, Loaded
  <2> QED BY <2>1, <2>2, <2>3
<1>3. CASE Resume
  <2> USE <1>3 DEF Resume
  <2>1. TypeOK'
    BY DEF TypeOK
  <2>2. BpInv' /\ HeldInv' /\ JumpInv'
    BY DEF BpInv, HeldInv, JumpInv
  <2>3. TimelyInv'
    BY DEF TimelyInv, Caught, Loaded
  <2> QED BY <2>1, <2>2, <2>3
<1>4. CASE WaitHalt
  <2>1. elapsed' \in 0..WaitLimit
    BY <1>4, GdbAssumption DEF WaitHalt, TypeOK
  <2>2. line = "wait" /\ line' \in {"wait", "rbp"} /\ UNCHANGED <<board, bp, timely>>
    BY <1>4 DEF WaitHalt
  <2>3. TypeOK'
    BY <2>1, <2>2 DEF TypeOK
  <2>4. BpInv' /\ HeldInv' /\ JumpInv'
    BY <2>2 DEF BpInv, HeldInv, JumpInv
  <2>5. TimelyInv'
    BY <2>2 DEF TimelyInv, Caught, Loaded
  <2> QED BY <2>3, <2>4, <2>5
<1>5. CASE WaitTimeout
  <2>1. line = "wait" /\ line' = "rbp" /\ UNCHANGED <<board, bp, elapsed, timely>>
    BY <1>5 DEF WaitTimeout
  <2>2. TypeOK'
    BY <2>1 DEF TypeOK
  <2>3. BpInv' /\ HeldInv' /\ JumpInv'
    BY <2>1 DEF BpInv, HeldInv, JumpInv
  <2>4. TimelyInv'
    BY <2>1 DEF TimelyInv, Caught, Loaded
  <2> QED BY <2>2, <2>3, <2>4
<1>6. CASE RemoveBp
  <2> USE <1>6 DEF RemoveBp
  <2>1. TypeOK'
    BY DEF TypeOK
  <2>2. BpInv' /\ HeldInv' /\ JumpInv'
    BY DEF BpInv, HeldInv, JumpInv
  <2>3. TimelyInv'
    BY DEF TimelyInv, Caught, Loaded
  <2> QED BY <2>1, <2>2, <2>3
<1>7. CASE Load
  <2> USE <1>7 DEF Load
  <2>1. TypeOK'
    BY DEF TypeOK
  <2>2. BpInv' /\ HeldInv' /\ JumpInv'
    BY DEF BpInv, HeldInv, JumpInv
  <2>3. TimelyInv'
    BY DEF TimelyInv, Caught, Loaded
  <2> QED BY <2>1, <2>2, <2>3
<1> QED BY <1>1, <1>2, <1>3, <1>4, <1>5, <1>6, <1>7 DEF Script

\* A target that was caught in time does not move on by itself: it is halted,
\* and the application is not one of the states of the bootloader.
LEMMA TargetStep == ASSUME ResetInv, Debug \/ Bootloader \/ LoadSample \/ Jump PROVE ResetInv'
<1> USE DEF ResetInv
<1>1. CASE Debug
  <2> USE <1>1 DEF Debug
  <2>1. TypeOK'
    BY DEF TypeOK
  <2>2. BpInv' /\ HeldInv' /\ JumpInv'
    BY DEF BpInv, HeldInv, JumpInv
  <2>3. TimelyInv'
    BY DEF TimelyInv, Caught, Loaded
  <2> QED BY <2>1, <2>2, <2>3
<1>2. CASE Bootloader
  <2> USE <1>2 DEF Bootloader
  <2>1. TypeOK'
    BY DEF TypeOK
  <2>2. BpInv' /\ HeldInv' /\ JumpInv'
    BY DEF BpInv, HeldInv, JumpInv
  <2>3. TimelyInv'
    BY DEF TimelyInv, Caught, Loaded
  <2> QED BY <2>1, <2>2, <2>3
<1>3. CASE LoadSample
  <2> USE <1>3 DEF LoadSample
  <2>1. TypeOK'
    BY DEF TypeOK
  <2>2. BpInv' /\ HeldInv' /\ JumpInv'
    BY DEF BpInv, HeldInv, JumpInv
  <2>3. TimelyInv'
    BY DEF TimelyInv, Caught, Loaded
  <2> QED BY <2>1, <2>2, <2>3
<1>4. CASE Jump
  <2> USE <1>4 DEF Jump
  <2>1. TypeOK'
    BY DEF TypeOK, JumpInv
  <2>2. BpInv' /\ JumpInv'
    BY DEF BpInv, JumpInv, TypeOK
  <2>3. HeldInv'
    BY DEF HeldInv
  <2>4. TimelyInv'
    BY DEF TimelyInv, Caught, JumpInv, BpInv
  <2> QED BY <2>1, <2>2, <2>3, <2>4
<1> QED BY <1>1, <1>2, <1>3, <1>4

LEMMA ResetStutter == ASSUME ResetInv, UNCHANGED vars PROVE ResetInv'
<1>1. TypeOK'
  BY DEF ResetInv, TypeOK, vars, board
<1>2. BpInv' /\ HeldInv' /\ JumpInv' /\ TimelyInv'
  BY DEF ResetInv, BpInv, HeldInv, JumpInv, TimelyInv, Caught, Loaded, vars, board
<1> QED BY <1>1, <1>2 DEF ResetInv

LEMMA ResetAlways == Spec => []ResetInv
<1>1. Init => ResetInv
  BY InitReset
<1>2. ResetInv /\ [Next]_vars => ResetInv'
  BY ScriptStep, TargetStep, ResetStutter DEF Next
<1> QED BY <1>1, <1>2, PTL DEF Spec

\* The script is at one of its lines, the target in one of its states, and the
\* wait never exceeds its limit.
THEOREM ResetTypes == Spec => []TypeOK
<1>1. ResetInv => TypeOK
  BY DEF ResetInv
<1> QED BY <1>1, ResetAlways, PTL

\* When the sample application was reached while the script waited, the
\* application is what is debugged, with the device tree and no breakpoint
\* left, however long the limit of wait_halt (start.gdb, define reset).
THEOREM CaughtAppIsDebugged == Spec => []DebugsApp
<1>1. ResetInv => DebugsApp
  BY DEF ResetInv, TimelyInv, BpInv, Caught, Loaded, DebugsApp
<1> QED BY <1>1, ResetAlways, PTL

\* Steps that the script has still to make: its lines, and the seconds it waits.
Left ==
  CASE line = "bp" -> WaitLimit + 5
    [] line = "resume" -> WaitLimit + 4
    [] line = "wait" -> (WaitLimit - elapsed) + 3
    [] line = "rbp" -> 2
    [] line = "load" -> 1
    [] OTHER -> 0

LEMMA LeftIsNat == TypeOK => Left \in 0..(WaitLimit + 5)
BY GdbAssumption DEF TypeOK, Left

LEMMA ScriptLeft == ASSUME TypeOK, Script, ~ResetHalt PROVE Left' < Left
<1> USE GdbAssumption DEF TypeOK, Left, Then
<1>1. CASE SetBp
  BY <1>1 DEF SetBp
<1>2. CASE Resume
  BY <1>2 DEF Resume
<1>3. CASE WaitHalt
  <2>1. CASE halted
    BY <1>3, <2>1 DEF WaitHalt
  <2>2. CASE ~halted
    BY <1>3, <2>2 DEF WaitHalt
  <2> QED BY <2>1, <2>2
<1>4. CASE WaitTimeout
  BY <1>4 DEF WaitTimeout
<1>5. CASE RemoveBp
  BY <1>5 DEF RemoveBp
<1>6. CASE Load
  BY <1>6 DEF Load
<1> QED BY <1>1, <1>2, <1>3, <1>4, <1>5, <1>6 DEF Script

\* reset is over after at most WaitLimit + 5 steps of the script that follow
\* the one that resets the target, whatever the target does in between: it can
\* neither hold the script up nor send it back (start.gdb, define reset).
THEOREM ResetRunsDown ==
  Spec => [][/\ Left \in 0..(WaitLimit + 5)
             /\ Script /\ ~ResetHalt => Left' < Left
             /\ ~Script => Left' = Left]_vars
<1> DEFINE Down == /\ Left \in 0..(WaitLimit + 5)
                   /\ Script /\ ~ResetHalt => Left' < Left
                   /\ ~Script => Left' = Left
<1>1. ASSUME TypeOK, Next PROVE Down
  <2>1. ASSUME ~Script PROVE Left' = Left
    <3>1. line' = line /\ elapsed' = elapsed
      BY <1>1, <2>1 DEF Next, Debug, Bootloader, LoadSample, Jump
    <3> QED BY <3>1 DEF Left
  <2> QED BY <1>1, <2>1, LeftIsNat, ScriptLeft
<1>2. TypeOK /\ [Next]_vars => [Down]_vars
  BY <1>1
<1> QED BY <1>2, ResetTypes, PTL DEF Spec
=============================================================================
