------------------------------ MODULE LinkCmds ------------------------------
(***************************************************************************)
(* The linker script of GRiSP1 while the Makefile builds libbsd: linkcmds  *)
(* of the installed BSP is kept as linkcmds.org, replaced by the one for   *)
(* SDRAM so that libbsd links, and put back.  A make may be interrupted    *)
(* between any two commands of a target and in the middle of a cp, and any *)
(* target may be made again.  Targets run one after the other (no -j).     *)
(***************************************************************************)
EXTENDS Integers

CONSTANT MaxVersion   \* bound: BSPs that are ever installed

ASSUME LinkAssumption == MaxVersion \in Nat \ {0}

Missing == [kind |-> "missing", v |-> 0]
Default(n) == [kind |-> "default", v |-> n]
Sdram(n) == [kind |-> "sdram", v |-> n]
Torn == [kind |-> "torn", v |-> 0]

VARIABLES bsp,       \* version of the BSP that was last installed, whole or not
          linkcmds, org, sdram, \* the files
          pc,        \* what make has just done; "done" when libbsd came to its end
          linked     \* the script libbsd was linked with

files == <<linkcmds, org, sdram>>
linkVars == <<bsp, files, pc, linked>>

LinkInit ==
  /\ bsp = 0 /\ linkcmds = Missing /\ org = Missing /\ sdram = Missing
  /\ pc = "idle" /\ linked = Missing

-----------------------------------------------------------------------------
(* bsp-grisp1: make install of RTEMS, the same version again or a newer one *)

InstallBsp ==
  /\ pc \in {"idle", "done"} /\ pc' = "installing"
  /\ bsp' \in {n \in {bsp, bsp + 1} : n \in 1..MaxVersion}
  /\ linkcmds' = Default(bsp')
  /\ UNCHANGED <<org, sdram, linked>>

InstallSdram ==
  /\ pc = "installing" /\ pc' = "idle"
  /\ sdram' = Sdram(bsp)
  /\ UNCHANGED <<bsp, linkcmds, org, linked>>

-----------------------------------------------------------------------------
(* libbsd *)

\* Configuring needs an installed BSP.
Configure ==
  /\ pc \in {"idle", "done"} /\ bsp > 0 /\ pc' = "configured"
  /\ UNCHANGED <<bsp, files, linked>>

\* Fault: the script is kept whether or not one was kept before.
Keep_Again ==
  /\ pc = "configured" /\ pc' = "kept"
  /\ IF linkcmds # Missing
     THEN org' = linkcmds /\ linkcmds' = Missing
     ELSE UNCHANGED <<org, linkcmds>>
  /\ UNCHANGED <<bsp, sdram, linked>>

\* [ ! -e linkcmds.org ] && mv linkcmds linkcmds.org || true
Keep ==
  /\ pc = "configured" /\ pc' = "kept"
  /\ IF org = Missing /\ linkcmds # Missing
     THEN org' = linkcmds /\ linkcmds' = Missing
     ELSE UNCHANGED <<org, linkcmds>>
  /\ UNCHANGED <<bsp, sdram, linked>>

\* Fault: the status of cp is not looked at.
UseSdram_Unchecked ==
  /\ pc = "kept" /\ pc' = "replaced"
  /\ linkcmds' = IF sdram = Missing THEN linkcmds ELSE sdram
  /\ UNCHANGED <<bsp, org, sdram, linked>>

UseSdram ==
  /\ pc = "kept" /\ sdram # Missing /\ pc' = "replaced"
  /\ linkcmds' = sdram
  /\ UNCHANGED <<bsp, org, sdram, linked>>

Build ==
  /\ pc = "replaced" /\ pc' = "built"
  /\ linked' = linkcmds
  /\ UNCHANGED <<bsp, files>>

Restore ==
  /\ pc = "built" /\ org # Missing /\ pc' = "done"
  /\ linkcmds' = org
  /\ UNCHANGED <<bsp, org, sdram, linked>>

-----------------------------------------------------------------------------
\* A command fails, or make is interrupted: what was done stays done.
Interrupt ==
  /\ pc \notin {"idle", "done"} /\ pc' = "idle"
  /\ UNCHANGED <<bsp, files, linked>>

\* ... in the middle of one of the two cp.
InterruptCopy ==
  /\ \/ pc = "kept" /\ sdram # Missing
     \/ pc = "built" /\ org # Missing
  /\ linkcmds' = Torn /\ pc' = "idle"
  /\ UNCHANGED <<bsp, org, sdram, linked>>

LinkNext ==
  \/ InstallBsp \/ InstallSdram
  \/ Configure \/ Keep \/ UseSdram \/ Build \/ Restore
  \/ Interrupt \/ InterruptCopy

LinkSpec == LinkInit /\ [][LinkNext]_linkVars

-----------------------------------------------------------------------------
Versions == 1..MaxVersion
Defaults == {Default(n) : n \in Versions}
Sdrams == {Sdram(n) : n \in Versions}
Scripts == {Missing, Torn} \cup Defaults \cup Sdrams

LinkTypeOK ==
  /\ bsp \in 0..MaxVersion
  /\ linkcmds \in Scripts /\ linked \in Scripts
  /\ org \in {Missing} \cup Defaults
  /\ sdram \in {Missing} \cup Sdrams
  /\ pc \in {"idle", "installing", "configured", "kept", "replaced", "built", "done"}

\* A default script is always at hand: linkcmds itself until it is kept, and
\* then linkcmds.org.
LinkInv ==
  /\ LinkTypeOK
  /\ org = Missing => IF bsp = 0 THEN linkcmds = Missing ELSE linkcmds \in Defaults
  /\ pc # "idle" => bsp > 0
  /\ pc \in {"kept", "replaced", "built"} => org # Missing
  /\ pc = "replaced" => linkcmds \in Sdrams
  /\ pc = "built" => linked \in Sdrams
  /\ pc = "done" => linkcmds = org /\ org # Missing /\ linked \in Sdrams

(* "End of workaround for GRiSP1": a libbsd that ended was linked with a     *)
(* script for SDRAM and has left a default one, however often the target    *)
(* was interrupted before.                                                  *)
Undone ==
  pc = "done" => linked \in Sdrams /\ linkcmds \in Defaults
=============================================================================
