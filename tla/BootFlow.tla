----------------------------- MODULE BootFlow ------------------------------
(***************************************************************************)
(* How a GRiSP2 comes up: barebox loads the state block, the environment   *)
(* of barebox/env picks boot entries, boot/system chooses between the      *)
(* updated and the active eMMC system and counts the attempts down, and    *)
(* the application that starts may install, announce and validate updates. *)
(* Power may fail in any state, and `state -s` may fail without the script *)
(* noticing.  The application and the operator are not in this repository; *)
(* they are modelled from how the scripts and the README use the variables *)
(* they leave behind.                                                      *)
(***************************************************************************)
EXTENDS StateStore, Sequences

CONSTANTS MaxCount,    \* the largest update_boot_count that is ever granted
          NvChoices    \* settings of nv.boot.default; <<>> is "not set"

Systems == {"0", "1"}            \* the two eMMC systems, mmc1.0 and mmc1.1
SystemNumbers == {"0", "1", "2"} \* "2": any other value of the uint32
Entries == {"sdcard", "system", "try-again", "net"}

DefaultOrder == <<"sdcard", "system", "try-again">>
Tries(o, entry) == \E i \in DOMAIN o : o[i] = entry

\* boot/net would be handed the mount point of a boot/system that has failed.
SystemThenNet(o) == \E i, j \in DOMAIN o : i < j /\ o[i] = "system" /\ o[j] = "net"

Block(u, n, a) == [update_system |-> u, update_boot_count |-> n, active_system |-> a]

ASSUME BootAssumption ==
  /\ MaxCount \in Nat \ {0}
  /\ Value = [update_system : SystemNumbers, update_boot_count : 0..MaxCount,
              active_system : SystemNumbers]
  /\ Default = Block("0", 0, "0")
  /\ NvChoices \subseteq Seq(Entries)

VARIABLES pc,        \* what the processor is doing
          order,     \* the boot entries still to be tried
          S,         \* the shell variable S of boot/system
          paid,      \* S is the updated system and the count in the EEPROM says so
          mount,     \* /chosen/grisp-mountpoint of the device tree to be passed
          running,   \* where the running application came from
          nv,        \* nv.boot.default
          img,       \* the image in each eMMC system
          repair,    \* an operator's write of the eMMC was left half-way
          credits    \* attempts the announced update still has

scriptVars == <<pc, order, S, paid, mount, running>>
envVars == <<nv, img, repair>>
vars == <<storeVars, scriptVars, envVars, credits>>

MountOf(m) == CASE m = "sd" -> "/media/mmcsd-1-0/"
                [] m = "0"  -> "/media/mmcsd-0-0/"
                [] m = "1"  -> "/media/mmcsd-0-1/"

MountPoints == {"none"} \cup {MountOf(m) : m \in Systems \cup {"sd"}}

(* What a system holds: a validated image or one that will be; one that     *)
(* falls over; nothing; nothing because a write of the whole eMMC that      *)
(* leaves the state block alone went over it.                               *)
Images == {"good", "crash", "none", "erased"}
Bootable(s) == img[s] \in {"good", "crash"}

\* The active system of a state block holds a validated image.
Sound(v) == v.active_system \in Systems /\ img[v.active_system] = "good"

\* The systems an application started with this mount point thinks it is.
Own == {s \in Systems : MountOf(s) = mount}

Init ==
  /\ StoreInit
  /\ pc = "reset" /\ order = <<>> /\ S = "0" /\ paid = FALSE
  /\ mount = "none" /\ running = "none"
  /\ nv \in NvChoices
  /\ img \in [Systems -> {"good", "crash", "none"}]
  /\ Sound(Stored)
  /\ repair = FALSE
  /\ credits = Stored.update_boot_count

-----------------------------------------------------------------------------
(* barebox *)

\* Fault: what resets the board does not stop the writer of the EEPROM.
Restart_KeepsWriting ==
  /\ ram' = Lost /\ UNCHANGED <<copies, todo>>
  /\ pc' = "reset" /\ order' = <<>> /\ S' = "0" /\ paid' = FALSE
  /\ mount' = "none" /\ running' = "none"
  /\ UNCHANGED <<envVars, credits>>

\* Whatever resets the board: RAM, shell variables and device tree are gone.
Restart ==
  /\ Reset
  /\ pc' = "reset" /\ order' = <<>> /\ S' = "0" /\ paid' = FALSE
  /\ mount' = "none" /\ running' = "none"
  /\ UNCHANGED <<envVars, credits>>

Goto(label) ==
  /\ pc' = label
  /\ UNCHANGED <<order, S, paid, mount, running>>

LoadState ==
  /\ pc = "reset"
  /\ Load /\ Goto("probe")
  /\ UNCHANGED <<envVars, credits>>

\* The copies of the state block are written by one writer at a time.
WriteCopies ==
  /\ BeginWrite \/ EndWrite
  /\ UNCHANGED <<scriptVars, envVars, credits>>

\* init/bootsource: nv.boot.default wins over the default of the script.
BootSource ==
  /\ pc = "probe" /\ todo = {}
  /\ pc' = "autoboot"
  /\ order' = IF nv # <<>> THEN nv ELSE DefaultOrder
  /\ UNCHANGED <<storeVars, S, paid, mount, running, envVars, credits>>

Autoboot ==
  /\ pc = "autoboot"
  /\ Goto("boot")
  /\ UNCHANGED <<storeVars, envVars, credits>>

At(entry) == pc = "boot" /\ order # <<>> /\ Head(order) = entry

\* An image is started; it will read the state block for itself.
Start(medium) ==
  /\ Set(Stored)
  /\ pc' = "app" /\ running' = medium
  /\ UNCHANGED <<order, S, paid, envVars>>

\* The entry did not boot anything: barebox goes on with the next one.
NextEntry ==
  /\ pc' = "boot" /\ order' = Tail(order) /\ paid' = FALSE
  /\ UNCHANGED <<storeVars, S, running, envVars>>

\* boot/sdcard, with or without a bootable card in the slot.
BootSdcard ==
  /\ At("sdcard")
  /\ mount' = MountOf("sd")
  /\ Start("sd") \/ NextEntry
  /\ UNCHANGED credits

\* Fault: attempts are not counted.
SelectUpdate_NotCounted ==
  /\ At("system") /\ ram.update_boot_count > 0
  /\ S' = ram.update_system /\ paid' = FALSE
  /\ pc' = "selected"
  /\ UNCHANGED <<storeVars, order, mount, running, envVars, credits>>

\* Fault: the first attempt uses all of them up.
SelectUpdate_LastOne ==
  /\ At("system") /\ ram.update_boot_count > 0
  /\ S' = ram.update_system /\ paid' = TRUE
  /\ Set(Block(ram.update_system, 0, ram.active_system))
  /\ pc' = "save"
  /\ UNCHANGED <<order, mount, running, envVars, credits>>

\* boot/system, lines 2 to 10, up to the save.
SelectUpdate ==
  /\ At("system") /\ ram.update_boot_count > 0
  /\ S' = ram.update_system /\ paid' = TRUE
  /\ Set(Block(ram.update_system, ram.update_boot_count - 1, ram.active_system))
  /\ pc' = "save"
  /\ UNCHANGED <<order, mount, running, envVars, credits>>

SelectActive ==
  /\ At("system") /\ ram.update_boot_count = 0
  /\ S' = ram.active_system /\ paid' = FALSE
  /\ pc' = "selected"
  /\ UNCHANGED <<storeVars, order, mount, running, envVars, credits>>

\* Fault: the decremented count stays in RAM.
SaveState_Forgotten ==
  /\ pc = "save" /\ Goto("selected")
  /\ UNCHANGED <<storeVars, envVars, credits>>

SaveState ==
  /\ pc = "save"
  /\ Save /\ Goto("saving")
  /\ UNCHANGED <<envVars, credits>>

\* The EEPROM does not answer.  boot/system ignores the status of state -s.
SaveStateFails ==
  /\ pc = "save"
  /\ pc' = "selected" /\ paid' = FALSE
  /\ UNCHANGED <<storeVars, order, S, mount, running, envVars, credits>>

\* Fault: the image is booted while the EEPROM is being written.
SaveStateDone_NoWait ==
  /\ pc = "saving" /\ Goto("selected")
  /\ UNCHANGED <<storeVars, envVars, credits>>

SaveStateDone ==
  /\ pc = "saving" /\ todo = {}
  /\ Goto("selected")
  /\ UNCHANGED <<storeVars, envVars, credits>>

\* Fault: of_property leaves a mount point that is already there alone.
BootSystem_KeepsMount ==
  /\ pc = "selected"
  /\ mount' = IF S \in Systems /\ mount = "none" THEN MountOf(S) ELSE mount
  /\ IF S \in Systems /\ Bootable(S) THEN Start(S) ELSE NextEntry
  /\ credits' = IF paid THEN credits - 1 ELSE credits

\* Fault: boot/system1 is a copy of boot/system0 with the mount point left in.
BootSystem_SameMount ==
  /\ pc = "selected"
  /\ mount' = IF S \in Systems THEN MountOf("0") ELSE mount
  /\ IF S \in Systems /\ Bootable(S) THEN Start(S) ELSE NextEntry
  /\ credits' = IF paid THEN credits - 1 ELSE credits

\* boot/system, lines 11 to 17, with boot/system0 and boot/system1.
BootSystem ==
  /\ pc = "selected"
  /\ mount' = IF S \in Systems THEN MountOf(S) ELSE mount
  /\ IF S \in Systems /\ Bootable(S) THEN Start(S) ELSE NextEntry
  /\ credits' = IF paid THEN credits - 1 ELSE credits

\* boot/net, with or without a server; the script sets no mount point.
BootNet ==
  /\ At("net")
  /\ Start("net") \/ NextEntry
  /\ UNCHANGED <<mount, credits>>

TryAgain == At("try-again") /\ Restart

\* No entry left: barebox offers its shell.
NothingBoots ==
  /\ pc = "boot" /\ order = <<>>
  /\ Goto("shell")
  /\ UNCHANGED <<storeVars, envVars, credits>>

PowerLoss == Restart

-----------------------------------------------------------------------------
(* the application *)

AppRuns == pc = "app" /\ (running \in Systems => img[running] = "good")

\* An image that was never validated may do nothing but fall over.
AppCrash ==
  /\ pc = "app" /\ running \in Systems /\ img[running] = "crash"
  /\ Restart

AppReboot == AppRuns /\ Restart

\* A system that is neither active nor, by its mount point, the running one.
Spare(s) == s \in Systems /\ s \notin Own /\ s # ram.active_system

AppInstall(s) ==
  /\ AppRuns /\ Spare(s)
  /\ img' = [img EXCEPT ![s] = "none"]
  /\ S' = s /\ pc' = "installing"
  /\ UNCHANGED <<storeVars, order, paid, mount, running, nv, repair, credits>>

AppInstalled ==
  /\ pc = "installing"
  /\ \E i \in {"good", "crash"} : img' = [img EXCEPT ![S] = i]
  /\ Goto("app")
  /\ UNCHANGED <<storeVars, nv, repair, credits>>

\* Announce system s for n attempts.
AppMark(s, n) ==
  /\ AppRuns /\ Spare(s)
  /\ Set(Block(s, n, ram.active_system))
  /\ credits' = IF n > Stored.update_boot_count THEN n ELSE Stored.update_boot_count
  /\ Goto("appset")
  /\ UNCHANGED envVars

\* The running system becomes the active one and no update is pending.
AppValidate ==
  /\ AppRuns
  /\ \E s \in Own : Set(Block(ram.update_system, 0, s))
  /\ Goto("appset")
  /\ UNCHANGED <<envVars, credits>>

AppSave ==
  /\ pc = "appset"
  /\ Save /\ Goto("appsave")
  /\ UNCHANGED <<envVars, credits>>

AppSaved ==
  /\ pc = "appsave" /\ todo = {}
  /\ Goto("app")
  /\ repair' = (repair /\ ~Sound(Stored))
  /\ UNCHANGED <<storeVars, nv, img, credits>>

-----------------------------------------------------------------------------
(* The operator at the barebox prompt, who writes an image to the eMMC from  *)
(* an SD card or from a TFTP server as README.md says, and may stop anywhere. *)

Interrupt ==
  /\ pc = "autoboot"
  /\ Goto("shell")
  /\ UNCHANGED <<storeVars, envVars, credits>>

\* setenv state.bootstate.{active_system,update_system,update_boot_count} 0
ForceSystem0 ==
  /\ pc = "shell"
  /\ Set(Default) /\ Goto("forced")
  /\ UNCHANGED <<envVars, credits>>

ShellSave ==
  /\ pc = "forced"
  /\ Save /\ Goto("shellsave")
  /\ repair' = TRUE
  /\ UNCHANGED <<nv, img, credits>>

\* From the card: the state names system 0 before /dev/mmc1 is overwritten,
\* partition table first.
CopyImage ==
  /\ pc = "shellsave" /\ todo = {}
  /\ img' = [s \in Systems |-> "none"]
  /\ Goto("copying")
  /\ UNCHANGED <<storeVars, nv, repair, credits>>

\* From a TFTP server: whatever the state names, it is left as it is.
FetchImage ==
  /\ pc = "shell"
  /\ img' = [s \in Systems |-> "erased"] /\ repair' = TRUE
  /\ Goto("fetching")
  /\ UNCHANGED <<storeVars, nv, credits>>

\* The image has an application in its first partition; the second one may be
\* uninitialized, as it is in the factory image.
ImageCopied ==
  /\ pc \in {"copying", "fetching"}
  /\ \E second \in {"good", img["1"]} : img' = [img EXCEPT !["0"] = "good", !["1"] = second]
  /\ repair' = FALSE
  /\ Goto("copied")
  /\ UNCHANGED <<storeVars, nv, credits>>

ShellReset == pc \in {"shell", "copied"} /\ Restart

-----------------------------------------------------------------------------
Boot ==
  \/ LoadState \/ WriteCopies \/ BootSource \/ Autoboot
  \/ BootSdcard \/ SelectUpdate \/ SelectActive
  \/ SaveState \/ SaveStateDone \/ BootSystem
  \/ BootNet \/ TryAgain \/ NothingBoots

App ==
  \/ AppReboot \/ AppValidate
  \/ \E s \in Systems : AppInstall(s) \/ \E n \in 1..MaxCount : AppMark(s, n)

Finish == AppCrash \/ AppInstalled \/ AppSave \/ AppSaved

Operator ==
  \/ Interrupt \/ ForceSystem0 \/ ShellSave \/ CopyImage \/ FetchImage \/ ImageCopied
  \/ ShellReset

Next == Boot \/ SaveStateFails \/ PowerLoss \/ App \/ Finish \/ Operator

Spec == Init /\ [][Next]_vars

\* barebox and a started image keep going; nothing else is owed to anyone.
FairSpec == Spec /\ WF_vars(Boot) /\ WF_vars(Finish)

-----------------------------------------------------------------------------
TypeOK ==
  /\ StoreTypeOK
  /\ pc \in {"reset", "probe", "autoboot", "boot", "save", "saving", "selected", "app",
             "installing", "appset", "appsave",
             "shell", "forced", "shellsave", "copying", "fetching", "copied"}
  /\ order \in Seq(Entries) /\ nv \in NvChoices
  /\ S \in SystemNumbers /\ paid \in BOOLEAN /\ repair \in BOOLEAN
  /\ mount \in MountPoints
  /\ running \in {"none", "sd", "net"} \cup Systems
  /\ img \in [Systems -> Images]
  /\ credits \in Nat

\* Its active system was overwritten by a write that did not reset the state.
Erased(v) == v.active_system \in Systems /\ img[v.active_system] = "erased"

AppPcs == {"app", "installing", "appset", "appsave"}
SavePcs == {"saving", "appsave", "shellsave"}
Trying == {"save", "saving", "selected"}

\* Who may be writing, and what has been written when they are done.
WriterInv ==
  /\ pc = "reset" <=> ram = Lost
  /\ todo # {} => pc \in SavePcs \cup {"probe"}
  /\ pc \in {"app", "installing", "copying"} \/ (pc \in SavePcs /\ todo = {}) => ram = Stored

\* The device tree belongs to the entry being tried.
MountInv ==
  /\ running # "none" <=> pc \in AppPcs
  /\ running \in Systems \cup {"sd"} => mount = MountOf(running)
  /\ pc \in Trying => order # <<>> /\ Head(order) = "system"
  /\ ~SystemThenNet(nv) =>
       /\ ~SystemThenNet(order)
       /\ Own # {} /\ pc = "boot" => ~Tries(order, "net")
       /\ running = "net" => Own = {}
  /\ pc \in {"reset", "probe", "autoboot"} => mount = "none"

\* What is written next is covered by the credits as well.
CreditInv ==
  /\ Stored.update_boot_count <= credits
  /\ ram # Lost => ram.update_boot_count <= credits
  /\ pc \in {"save", "saving"} => ram.update_boot_count < credits
  /\ pc = "selected" /\ paid => /\ ram.update_boot_count < credits
                                /\ Stored.update_boot_count < credits

(* What may have left the active system without a validated image: a write  *)
(* of the eMMC that is half-way, from the save of the state or the first     *)
(* byte to the last; one that left the state naming a system the new image   *)
(* does not have; an application from the network that took itself for a     *)
(* system it did not run from.                                              *)
Excused == repair \/ Erased(Stored) \/ SystemThenNet(nv)

(* The fallback is sound: whatever is installed, announced, tried, validated *)
(* or abandoned, and wherever that is interrupted, the system the stored    *)
(* state calls active holds a validated image, or is excused.  A write from  *)
(* an SD card excuses nothing once it is finished.                          *)
GoodActive == Excused \/ Sound(Stored)

\* A working copy that could be saved is as sound as the stored block.
ActiveInv ==
  /\ Stored.active_system \in Systems /\ (ram # Lost => ram.active_system \in Systems)
  /\ GoodActive
  /\ pc \in {"reset", "forced"} \/ repair \/ SystemThenNet(nv) \/ Erased(ram) \/ Sound(ram)
  /\ pc \in {"forced", "shellsave", "copying"} => ram = Default
  /\ pc \in {"shellsave", "copying", "fetching"} => repair
  /\ pc = "fetching" => img["1"] = "erased"
  /\ pc = "installing" => S \in Systems /\ S # ram.active_system

\* At most one attempt to boot the eMMC between two resets.
Once(o) == \A i, j \in DOMAIN o : o[i] = "system" /\ o[j] = "system" => i = j

\* From the load to the start of an image the working copy is the stored block
\* but for the attempts that were not, or not yet, written.
Unpaid == /\ ram.update_system = Stored.update_system
          /\ ram.active_system = Stored.active_system
          /\ ram.update_boot_count <= Stored.update_boot_count

CostInv ==
  /\ pc \in {"probe", "autoboot"} => ram = Stored
  /\ pc \in {"boot", "save", "saving", "selected"} => Unpaid
  /\ pc = "save" => ram.update_boot_count < Stored.update_boot_count
  /\ pc \in {"save", "saving"} => paid
  /\ pc = "selected" /\ ~paid =>
       S = Stored.active_system \/ ram.update_boot_count < Stored.update_boot_count
  /\ Once(nv) => Once(order)
  /\ Once(nv) /\ pc = "boot" /\ Tries(order, "system") => ram = Stored
  /\ Once(nv) /\ (pc = "save" \/ (pc = "saving" /\ ram # Stored)) =>
       ram.update_boot_count = Stored.update_boot_count - 1

BootInv == TypeOK /\ StoreInv /\ WriterInv /\ MountInv /\ CreditInv /\ ActiveInv

(* Attempts are paid for before they are made: however the power fails,     *)
(* boot/system never tries the updated system more often than the count it  *)
(* was announced with; an attempt after a failed `state -s` comes on top.   *)
AttemptsPaid ==
  /\ Stored.update_boot_count <= credits
  /\ pc = "selected" /\ paid => Stored.update_boot_count < credits

(* Coming up never changes the stored block but for the count, which goes   *)
(* down, by one where the order has the eMMC once: wherever a boot is        *)
(* interrupted, it costs one attempt or none.                               *)
CountsDown ==
  Stored' # Stored =>
    \/ pc \in {"appsave", "shellsave"}
    \/ /\ pc = "saving"
       /\ \E n \in 0..(Stored.update_boot_count - 1) :
            Stored' = Block(Stored.update_system, n, Stored.active_system)
       /\ Once(nv) => Stored'.update_boot_count = Stored.update_boot_count - 1

\* A system that is not the stored active one starts for an attempt that was
\* paid, or after a `state -s` that has failed.
StartsPaid ==
  pc = "selected" /\ pc' = "app" =>
    S = Stored.active_system \/ ram # Stored \/ credits' = credits - 1

AttemptCost == [][CountsDown /\ StartsPaid]_vars

(* The application finds itself under the mount point it was started from:  *)
(* entries that were tried before leave theirs in the device tree.  One from *)
(* the network is not told that it is an eMMC system, unless the order tries *)
(* the eMMC first.                                                          *)
MountMatches ==
  /\ running \in Systems \cup {"sd"} => mount = MountOf(running)
  /\ running = "net" /\ ~SystemThenNet(nv) => Own = {}

(* All state writes of scripts, application and operator are steps of the   *)
(* state storage, and none starts while another is writing.                 *)
StoreRespected == StoreSpec

(* An update that cannot run does not take a board down: once every step is *)
(* one of the scripts or of the started image, so that the power stays on   *)
(* and every `state -s` succeeds, a working application comes back after    *)
(* any number of crashes, and again after every reboot, whatever went on    *)
(* before.  If an operator's write was left half-way, or took the active     *)
(* system away, the board still keeps offering its prompt.                  *)
Undisturbed == <>[][Boot \/ App \/ Finish]_vars
AtPrompt == pc \in {"shell", "forced", "shellsave", "copying", "fetching", "copied"}
OffersPrompt == pc = "autoboot"
ComesBack ==
  nv = <<>> /\ Undisturbed => []<>(AppRuns \/ AtPrompt \/ (Excused /\ OffersPrompt))

(* README.md:189, of a write that is finished: "Reset the system with       *)
(* `reset` on the shell. Barebox should now boot your application."          *)
WriteBoots ==
  nv = <<>> /\ Undisturbed /\ []<>~(AtPrompt \/ repair) => (pc = "copied" ~> AppRuns)
=============================================================================
