---------------------------- MODULE AtomicState ----------------------------
(***************************************************************************)
(* What the boot scripts and the application are promised by the barebox   *)
(* state storage of fdt/imx6ul-grisp2-state.dtsi: one cell that survives   *)
(* power loss, a working copy in RAM that does not, and a save that        *)
(* replaces the cell as a whole at one instant between its start and its   *)
(* end.  A power loss during a save leaves the old value or the new one.   *)
(***************************************************************************)
CONSTANTS Value,     \* the values of the state block
          Lost       \* the working copy while the board is in reset

VARIABLES stored,    \* what a load returns
          ram,       \* the working copy (state.bootstate.*)
          pending    \* a save or a repair is writing

vars == <<stored, ram, pending>>

Init == stored \in Value /\ ram = Lost /\ pending = FALSE

\* A load may find the storage in need of repair and start writing at once.
Load ==
  /\ ram = Lost
  /\ ram' = stored
  /\ pending' \in BOOLEAN
  /\ UNCHANGED stored

Set ==
  /\ ram # Lost /\ ~pending
  /\ ram' \in Value
  /\ UNCHANGED <<stored, pending>>

BeginSave ==
  /\ ram # Lost /\ ~pending
  /\ pending' = TRUE
  /\ UNCHANGED <<stored, ram>>

Commit ==
  /\ pending
  /\ stored' = ram
  /\ UNCHANGED <<ram, pending>>

EndSave ==
  /\ pending /\ stored = ram
  /\ pending' = FALSE
  /\ UNCHANGED <<stored, ram>>

PowerLoss ==
  /\ ram' = Lost /\ pending' = FALSE
  /\ UNCHANGED stored

Next == Load \/ Set \/ BeginSave \/ Commit \/ EndSave \/ PowerLoss

Spec == Init /\ [][Next]_vars
=============================================================================
