------------------------------ MODULE GdbReset ------------------------------
(***************************************************************************)
(* debug/openocd/start.gdb: the command reset restarts the target, lets    *)
(* the bootloader load the device tree and some sample application, stops  *)
(* it where it starts that and loads the application to be debugged over   *)
(* it.  The bootloader runs while the script waits, and may need longer    *)
(* than the script waits, or stay at its prompt.  OpenOCD answers OK       *)
(* whatever came of a monitor command, so the script always goes on.       *)
(***************************************************************************)
EXTENDS Integers

CONSTANT WaitLimit   \* of monitor wait_halt, in seconds

ASSUME GdbAssumption == WaitLimit \in Nat

VARIABLES target,  \* what the target executes
          halted,
          program, \* what is at 0x80200000
          fdt,     \* the device tree is in memory
          bp,      \* the breakpoint at 0x80200000
          line,    \* next command of the script
          elapsed, \* seconds of wait_halt
          timely   \* the sample application was reached while the script waited

board == <<target, halted, program, fdt>>
vars == <<board, bp, line, elapsed, timely>>

\* start-openocd.sh and the connection leave a halted target.
Init ==
  /\ target = "rom" /\ halted = TRUE /\ program = "garbage" /\ fdt = FALSE
  /\ bp = FALSE /\ line = "reset" /\ elapsed = 0
  /\ timely = FALSE

-----------------------------------------------------------------------------
(* define reset *)

Then(next) == line' = next

ResetHalt ==
  /\ line \in {"reset", "prompt"} /\ Then("bp")
  /\ target' = "rom" /\ halted' = TRUE /\ fdt' = FALSE
  /\ timely' = FALSE /\ elapsed' = 0
  /\ UNCHANGED <<program, bp>>

\* Fault: the breakpoint is a software one, which the bootloader overwrites.
SetBp_Software ==
  /\ line = "bp" /\ Then("resume")
  /\ UNCHANGED <<board, bp, elapsed, timely>>

SetBp ==
  /\ line = "bp" /\ Then("resume")
  /\ bp' = TRUE
  /\ UNCHANGED <<board, elapsed, timely>>

Resume ==
  /\ line = "resume" /\ Then("wait")
  /\ halted' = FALSE
  /\ UNCHANGED <<target, program, fdt, bp, elapsed, timely>>

WaitHalt ==
  /\ line = "wait"
  /\ IF halted THEN Then("rbp") /\ UNCHANGED elapsed
     ELSE elapsed < WaitLimit /\ elapsed' = elapsed + 1 /\ UNCHANGED line
  /\ UNCHANGED <<board, bp, timely>>

\* Fault: the script waits as long as it takes.
WaitTimeout_Never ==
  /\ line = "wait" /\ ~halted /\ elapsed = WaitLimit
  /\ UNCHANGED vars

WaitTimeout ==
  /\ line = "wait" /\ ~halted /\ elapsed = WaitLimit
  /\ Then("rbp")
  /\ UNCHANGED <<board, bp, elapsed, timely>>

RemoveBp ==
  /\ line = "rbp" /\ Then("load")
  /\ bp' = FALSE
  /\ UNCHANGED <<board, elapsed, timely>>

\* gdb sets the program counter; a target that runs may refuse the writes or
\* be written to while it goes on.
Load ==
  /\ line = "load" /\ Then("prompt")
  /\ IF halted
     THEN program' = "app" /\ target' = "app"
     ELSE program' \in {program, "app"} /\ UNCHANGED target
  /\ UNCHANGED <<halted, fdt, bp, elapsed, timely>>

\* continue, and Ctrl-C
Debug ==
  /\ line = "prompt" /\ halted' = ~halted
  /\ UNCHANGED <<target, program, fdt, bp, line, elapsed, timely>>

-----------------------------------------------------------------------------
(* The target *)

Bootloader ==
  /\ ~halted
  /\ \/ target = "rom" /\ target' = "bootloader"
     \/ target = "bootloader" /\ target' = "menu"
  /\ UNCHANGED <<halted, program, fdt, bp, line, elapsed, timely>>

LoadSample ==
  /\ ~halted /\ target \in {"bootloader", "menu"}
  /\ target' = "jump" /\ program' = "sample" /\ fdt' = TRUE
  /\ UNCHANGED <<halted, bp, line, elapsed, timely>>

Jump ==
  /\ ~halted /\ target = "jump"
  /\ target' = (IF bp THEN "entry" ELSE program) /\ halted' = bp
  /\ timely' = (line = "wait")
  /\ UNCHANGED <<program, fdt, bp, line, elapsed>>

-----------------------------------------------------------------------------
Script == ResetHalt \/ SetBp \/ Resume \/ WaitHalt \/ WaitTimeout \/ RemoveBp \/ Load

Next == Script \/ Debug \/ Bootloader \/ LoadSample \/ Jump

Spec == Init /\ [][Next]_vars

\* The script goes on; the target need not.
FairSpec == Spec /\ WF_vars(SetBp \/ Resume \/ WaitHalt \/ WaitTimeout \/ RemoveBp \/ Load)

-----------------------------------------------------------------------------
TypeOK ==
  /\ target \in {"rom", "bootloader", "menu", "jump", "entry", "sample", "app"}
  /\ halted \in BOOLEAN /\ fdt \in BOOLEAN /\ bp \in BOOLEAN /\ timely \in BOOLEAN
  /\ program \in {"garbage", "sample", "app"}
  /\ line \in {"reset", "bp", "resume", "wait", "rbp", "load", "prompt"}
  /\ elapsed \in 0..WaitLimit

(* When the bootloader was in time, what is debugged is the application,    *)
(* with the device tree the bootloader has loaded, and nothing overwrites   *)
(* it or stops it afterwards.                                               *)
DebugsApp == line = "prompt" /\ timely => target = "app" /\ program = "app" /\ fdt /\ ~bp

(* reset comes back to the prompt of gdb although the target never stops.   *)
PromptComes == line = "bp" ~> line = "prompt"
=============================================================================
