# A TLA+ model of the GRiSP2 RTEMS toolchain

This repository builds a cross toolchain for the GRiSP2 board and brings along
the parts that run on the board: a bootloader environment, the layout of the
bootloader's persistent state, and a demo application with test commands. The
modules here model those parts, because they are what keeps state, races with
resets and runs unattended. Paths below are relative to the repository.

## Inventory

| Component | State it keeps | Operations | What is hard |
|---|---|---|---|
| State storage: `fdt/imx6ul-grisp2-state.dtsi`, `barebox/grisp2-state.patch` | three copies of a block (`update_system`, `update_boot_count`, `active_system`) in an EEPROM; a working copy in RAM | load and repair, `setenv`/`let`, `state -s` | a reset in the middle of a write |
| Boot environment: `barebox/env` | boot order, shell variable `S`, the device tree handed over | `init/bootsource`, `boot/{sdcard,system,system0,system1,net,try-again}` | resets everywhere, ignored failures, what a failed entry leaves behind, coming back from a bad update |
| Update and recovery: `README.md`, `doc/grisp2/bootloader-update.md` | images in the two eMMC systems | an operator who writes the eMMC at the prompt, from an SD card or a TFTP server | interruption between the steps; only one of the two procedures resets the state |
| `frag-rd-test`: `demo/fragmented-read-test.c` | files on a disk, a random generator | one shell command | termination of a random loop, failing system calls, leftovers of aborted calls |
| `pattern-fill`, `pattern-check`: `demo/sd-card-test.c` | the bytes of a card | two shell commands | blocks that cut words, arithmetic that wraps, failed transfers |
| RFID Pmod: `demo/pmod_rfid.c` | chip initialised or not, IRQ flags, LED | five shell commands | failing SPI transfers, late answers, waits of 0 ticks |
| 1-wire: `demo/1wire.c` | none | one shell command | fixed waits instead of polling, ignored errors, an uninitialised flag |
| Demo start-up: `demo/init.c` | tasks, LEDs | `Init`, `led_task`, WLAN creation | other users of `ifconfig` in the middle of the WLAN creation, waits that end without a card |
| libbsd workaround: `Makefile` 184-208 | two linker scripts | `mv`, `cp`, build, `cp` | interrupted and repeated runs |
| Debugger scripts: `debug/` | the halted or running target | `reset` of `start.gdb` | a wait that times out |
| Build, packaging, device trees, `cryptoauthlib`, vendored `external/` | none of their own | external tools | order of targets under `make -j` |

Interaction: barebox loads the state block; `boot/system` reads and writes it
and starts an application, which is told by the device tree
(`/chosen/grisp-mountpoint`) which medium it came from. The application and the
operator write the same block. The demo's commands are called one at a time from
a shell and share nothing but the file system.

What makes each component correct:

* State storage: a save is atomic under power loss, a valid block is never
  forgotten, the copies are equal again after the next load.
* Boot environment: an attempt is paid for before it is made, the application
  gets the mount point of its own medium, the active system holds a validated
  image, an unattended board comes back.
* Update and recovery: a finished write leaves a board that boots.
* `frag-rd-test`: it ends, leaves the disk as it was, does not report success on
  leftovers, and measures files of the right sizes.
* pattern commands: the pattern does not depend on the block size, a good card
  gives no report, a bad byte gives one.
* RFID: a chip counts as initialized only when it is completely set up, a tag
  that stays is found, a tag that is gone is not shown for ever, a key ends the
  search.
* 1-wire: a printed scratchpad is whole, its bytes are in their places, the
  command returns whatever the bus master does.
* Start-up: the shell comes without card and network; `wlan0` is up after a call
  that found none, also when another `ifconfig` created it first.
* libbsd workaround: when `libbsd` ends, a default linker script is in place
  again, however often it was interrupted before.
* Debugger: the command comes back, and when the bootloader was in time the
  application is what is debugged.

## Modules

| Module | Models | Remarks |
|---|---|---|
| `AtomicState` | what the storage promises | abstract specification: one cell and a save that commits at one instant |
| `StateStore` | the storage with `NCopies` copies | refines `AtomicState` (`AtomicSpec`); run as part of `BootFlow` |
| `BootFlow` | scripts, application, operator, power | extends `StateStore`; every write of the block is one of its actions (`StoreRespected`) |
| `FragReadTest` | `frag-rd-test` | one action per function or loop turn, one per failing call |
| `PatternTest` | `pattern-fill`, `pattern-check` | one action per loop turn |
| `Clock` | the tick of `demo/init.c` and what a sleep is worth | used by the next two |
| `PmodRfid` | the `rfid_...` commands | the TRF7970A, the tag and the key run beside them |
| `OneWire` | `1wiretemp` | the DS2482 and the sensor run beside it |
| `DemoInit` | `Init`, `led_task`, `create_wlandev`, the operator's shell | one action per statement that others can see |
| `LinkCmds` | the targets `bsp-grisp1` and `libbsd` of `Makefile` | one action per command that touches a linker script |
| `GdbReset` | `reset` of `debug/openocd/start.gdb` | the bootloader runs beside it |
| `MC...` | constants for TLC | the other modules are run with the constants of their `.cfg` |
| `StateStoreProofs`, `BootFlowProofs`, `FragReadProofs`, `PatternProofs`, `PmodRfidProofs`, `OneWireProofs`, `DemoInitProofs` | theorems about the module of that name | see "Proofs" |
| `HostScriptsProofs` | theorems about `LinkCmds` and `GdbReset` | extends both, so the names of `LinkCmds` are `LinkSpec`, `LinkNext`, ... |

Definitions named `X_Something` before a definition `X`, with a comment that
starts with "Fault:", are forms of `X` with a plausible mistake in them. Nothing
uses them; putting one in place of `X` makes the property that guards against it
fail.

### `StateStore`

`copies` is the EEPROM partition (0xC0 bytes in strides of 64, three copies),
`ram` the variables `state.bootstate.*`, `todo` the copies that the writer has
still to bring up to date. A copy is `Torn` from the first byte of a write to the
last. `Load` takes the first valid copy and schedules the repair of the others;
without any valid copy it takes the defaults of the dtsi. `Reset` can happen in
every state. The driver itself belongs to barebox, whose sources are not in this
repository; the model relies on its writing the copies one after the other,
checking a checksum on load and repairing what differs.

### `BootFlow`

`pc` follows the processor from reset through the boot entries into an image.
`SelectUpdate`, `SaveState`, `SaveStateDone` and `BootSystem` are the lines of
`boot/system`; `BootSystem` includes `boot/system0` and `boot/system1`.
`SaveStateFails` is a `state -s` that returns an error, which the script does not
look at. `BootSdcard` and `BootNet` either start an image or fall through to the
next entry; `TryAgain` resets. The application is modelled from what the
variables are there for: it may install an image in the system it does not run
from, announce it for a number of attempts, validate the system it runs from, and
save. A new image may turn out not to run (`crash`). `Restart` is every reset;
`PowerLoss` may happen in every state.

The operator follows one of the two procedures of `README.md` for writing the eMMC,
which is also what its recovery asks for, and may stop anywhere. From an SD card:
`ForceSystem0`, `ShellSave`, `CopyImage`, `ImageCopied`, `ShellReset`. From a TFTP
server: `FetchImage`, `ImageCopied`, `ShellReset`; this one does not touch the state
block. A finished write leaves an application in the first system and, if the image
has one, in the second. The README's simplest image, a bootloader alone, is left out.
A system that a write from a TFTP server has left without an application is `"erased"`,
one that a write from an SD card has, or that was never written, is `"none"`.

Three variables are there only for the properties: `credits` counts the attempts
that were announced and not yet made, `paid` says that the attempt under way was
recorded in the EEPROM, `repair` that a write of the eMMC is half-way.

The active system is without a validated image in three cases, and `Excused` names
them. `repair`: the operator has not finished. `Erased`: a finished write from a TFTP
server left `active_system` naming a system the image has nothing for.
`SystemThenNet`: `boot/net` sets no mount point, so after a failed `boot/system0` the
application from the network gets that of system 0, takes itself for it and may
validate it. The default order does not contain `net`.

### `FragReadTest`

The disk is counted in units of one small file, which is one cluster; space that
directories take is left out. `pc` names the function the command is in. The
generator is exact: its 32-bit word is kept as two limbs, because TLC's integers
have 32 bits. The six repetitions of a read are one step, whose total may be short
when a read fails. A failing call is an action of its own (`...Fails`), and what the
code then does is what the model does: a failed `open` in three places counts as
success, a failed `write` ends a loop like a full disk. `FillWriteFails` leaves a
number of files that the size of the disk does not give, `CreateBigWriteFails` and
`RemoveWriteFails` a big file of any size that fits. What a short write leaves of a
cluster is left out. In one clean-up several `unlink` may fail (`CleanFails`).

### `PatternTest`

A byte of the pattern is a pair of its word and its place in the word, so that
bytes that happen to have the same value are told apart; a real byte that goes
bad may by chance show the expected value. `fill_block` is the closed form of the
loops of the function. `size_t` has `W` values and every sum and difference that
can wrap does. The old contents of the card are abstracted to `Old` when a fill
begins.

### `Clock`

`RTEMS_MILLISECONDS_TO_TICKS` divides and drops the rest, and a sleep of n ticks
guarantees n - 1 of them. With the ten milliseconds of `demo/init.c:322` the wait
of 1 ms in `rfid_detect` is none at all and the sleeps of 10 ms in `1wiretemp`
may end at once.

### `PmodRfid`

`ctx` is `struct pmod_rfid_ctx`. `setup`, `irq` and `pending` are the chip: the
registers that `rfid_init` has written since the last software reset, the
interrupt flags that are latched (reading clears them) and those that the last
transmission has still to raise. Flags come in any order that the chip allows and
at any time, except that a wait that is long enough, like the 10 ms of
`input_available`, finds them raised. A transfer whose `ioctl` fails may or may
not have reached the chip. `InitTransfer` goes through the transfers of
`pmod_rfid_cmd_init_func`; `Send`, `Poll`, `Verdict` and `Wait` are a round of
`rfid_detect`. As in the code, `rfid_detect` goes on whatever came of the
initialisation. `Disturbance` is any flag that the search does not expect. The
supply voltage (argument of `rfid_init`) is a register value and left out, as are
the contents of `rfid_regdump`, whose reading clears flags and is modelled.
`steady` is there for `SteadyTagFound` only.

### `OneWire`

`busy` and `data` are the DS2482, `place` is how far the sensor has come. `k`
counts the operations of `read_MAX31820`: reset, two bytes written, nine read. The
DS2482 refuses an operation while it is at another (`IssueRefused`); its data
register can be read at any time and is then the old one (`Fetch`). The status read
after a reset of the bus goes into a buffer that nobody looks at, so a failure of
that transfer and a missing sensor change nothing. `Open` leaves `ok` undetermined
when it succeeds, because the code does not set it. `Complete` is the end of an
operation and `Plug` the sensor that comes and goes. `late`, `stayed` and `fault`
are there for the properties only.

### `DemoInit`

`pc` follows `Init`; the card service, the LED task, the calls of `create_wlandev`
(made by the library that looks after `wpa_supplicant`, once or again) and the
operator's `ifconfig` run beside it in any interleaving. The priorities of the
tasks would only exclude some of them. `owned` is there for `WlanUp`: a call of
`create_wlandev` found no `wlan0`, and since then nobody has set one down or destroyed
it, nor did setting it up fail. Who created it does not matter.

### `LinkCmds`

The files `linkcmds`, `linkcmds.org` and `linkcmds.sdram`, with the version of the
BSP they are from. `Keep` is the `[ ! -e ] && mv || true` of the Makefile.
`Interrupt` ends a target between two commands, `InterruptCopy` in the middle of a
`cp`. Any target can be made again, and a newer BSP installed.

### `GdbReset`

`line` is the next line of the gdb command. OpenOCD answers OK to every monitor
command, so the script goes on after a wait that timed out. The bootloader takes
any time or stays at its prompt. `timely` says that it reached the application
while the script waited.

## Runs

| Run | Question | Bounds |
|---|---|---|
| `boot_flow` | Is the storage atomic, redundant, and does it remember? Safety of scripts, application and operator under resets; what does an attempt cost; does the board come back? | 3 copies; at most 2 attempts per update; default order, `system sdcard`, `sdcard net`, `system net` |
| `boot_write` | Does a board boot after a finished write of the eMMC? | the same; violated |
| `frag_read` | What does the command leave, measure and report? | 8 disks of 0 to 19 files, 2 failing calls per call of the command, any number of calls; not into the draws that `frag_sixteen` is about |
| `frag_sixteen` | Does it remove a third of the files? | a disk that is full after 16 files; violated |
| `pattern` | Are the commands right for any blocks? | addresses of 5 bits, card of 11 bytes |
| `pattern_start` | Does a fill with a start value write `size` bytes? | violated |
| `rfid` | Set-up, verdicts, LED and end of the search | tick of 10 ms, any number of commands and rounds |
| `one_wire` | Is what is printed in order, whole and right but for bytes that were fetched too early? | tick of 10 ms, all nine bytes, any number of calls |
| `one_wire_busy` | Is what is printed the scratchpad? | the same; violated |
| `demo_init` | Start-up, LEDs and WLAN in any interleaving | none |
| `link_cmds` | Is the workaround undone? | 3 versions of the BSP |
| `gdb_reset` | Does the debugger get its application? | a wait of 5 s, as in the script |

Why the bounds are enough: the copies of the storage are the three of the dtsi, and
the 27 values of its variables allow an old block, a new one, a third one and the
defaults to be told apart. The storage has no run of its own: its properties are
checked in the behaviours of its users, and the proofs are about the storage by itself
too, with any number of copies, any blocks and any user. Two attempts allow one that
is interrupted and one that is not. The sizes of the disks cover no file removed (up
to 2 files), one, several, and numbers of files that are odd, even, multiples of 4 and
of 8; with two failing calls one failure can meet the consequences of another. A
failed write on the disk of 19 files can leave 16 of them, and then the draws never
end (see `frag_sixteen`). There are 2^30 states that differ in the generator only, so
the constraint `NotInVain` keeps TLC from going on there, and `Returns` excepts them.
In `pattern` every block size but 0 and 4 cuts words, starts lie on and off word
limits and beyond the sizes, and sums wrap (12 + 30 in 32 values). Three versions of
the BSP allow the script that was kept, the one of the SDRAM and the installed one to
differ (the proof lifts the bound). The other models have the sizes of the code.

`demo_init` does not check for deadlock: after a failed assertion, or when the
shell was left, the demo stops.

`frag_sixteen` takes a word of 4 bits for the generator. For 16 files that is
exact, since the low 4 bits of a product and a sum depend only on the low 4 bits
of the operands, and these are the number that is drawn.

### Fairness

* `BootFlow!FairSpec`: weak fairness of `Boot`, because barebox runs its boot
  entries to the end without waiting for anyone, and of `Finish`, because an
  image that has begun to install, set or save goes on, and one that cannot run
  falls over. Nothing is assumed of the application's decisions, and nothing of the
  operator, who may stay at the prompt. `ComesBack` asks for the default order and
  for a suffix in which every step is one of the scripts or of the image, that is,
  without power failures and failing saves; resets by `try-again` and by crashing
  images stay in it. A board whose operator stays at the prompt is left out; one
  whose active system has no image (`Excused`) need not run an application, but has
  to offer its prompt again and again, so that the write can be repeated.
  `WriteBoots` asks for the same, of a board whose operator does not go back to the
  prompt.
* `FragReadTest!FairSpec`, `PatternTest!FairSpec`: weak fairness of the command
  that was called; failing calls are never required, except for a transfer across
  the end of the card, which cannot succeed. `Finishes` leaves out calls with a
  block size of 0, which do not end (below).
* `PmodRfid!FairSpec`: weak fairness of the command that runs, and of the chip's
  raising the flags of a question it was asked. Failing transfers, tags and keys
  are free. `GoneShown` is about a search that goes on, with a tag that stays away.
* `OneWire!FairSpec`: weak fairness of the command only; the DS2482 may stay busy
  for ever.
* `DemoInit!FairSpec`: weak fairness of `Init`. Its waits have limits, and no task
  it starts keeps the processor.
* `GdbReset!FairSpec`: weak fairness of the lines of `reset`; the target may do
  nothing.

### What the runs found

1. `frag-rd-test` never ends when the number of small files is a multiple of 8
   from 16 up: the low bits of the generator have a short period, so at most a
   quarter of the files is ever drawn, and a third is to be removed
   (`fragmented-read-test.c:225`, `frag_sixteen`, `NeverAThird`).
2. `sd-card-test.c:195` takes the rest of the range as `size - current`, which
   does not count `start_value`; blocks are cut short (`pattern_start`). With a
   `start_value` above the size the last block is not cut at all and bytes beyond
   the size are written; `FillKeepsRest` says that a fill from 0 writes none.
3. `1wiretemp` prints bytes that have not arrived: with a tick of 10 ms its sleep of
   10 ms may end at once, and it does not ask whether the DS2482 is busy
   (`1wire.c:246`, `one_wire_busy`). `OnlyLateBytesWrong` says that nothing else is
   wrong about them.

4. The two procedures for writing the eMMC differ: the one for an SD card sets
   `active_system` to 0 first (`README.md:128-134`), the one for TFTP does not
   (177-189). With `active_system` 1 and an image whose second partition is empty,
   like that of the factory image (252), `boot/system` finds nothing and `try-again`
   resets for ever, where `README.md:189` says that the application should boot
   (`boot_write`).

Seen while modelling, and followed by the models, but not the subject of a run:

* `README.md:105` says that the eMMC has precedence over the SD card;
  `barebox/env/init/bootsource:7` tries the card first.
* The usage text of `frag-rd-test` names `--no-clean`, the code accepts
  `--no-cleanup`; `frag_read` includes such a call, which is refused.
* `sd-card-test.c:101` compares a pointer with 0 and never refuses a block size of
  0, with which the loop does not end; `pattern` includes such calls.
* `rfid_detect` announces an initialisation (`pmod_rfid.c:496`), ignores its result
  (497) and searches in any case. Its waits of 1 ms are 0 ticks, so one round may
  miss a tag; `SteadyTagFound` shows that the next one finds it. A flag left from an
  earlier search may be taken for a tag by the next.
* `rfid_verbose` says "Default to 0" (`pmod_rfid.c:573`) and stores what `strtol`
  returned.
* `1wire.c:274` tests an `ok` that was not set; the status after a bus reset (177) is
  not looked at, so that a missing sensor gives nine bytes of an idle line.
* `Makefile:195` keeps the first linker script for good. After a newer BSP was
  installed, `libbsd` puts the script of the older one back (206).
* `README.md:205` says that the debugger scripts wait until the bootloader has
  loaded the application; `start.gdb:7` waits for 5 s and then goes on.

## Proofs

Every safety property that a run checks is also a theorem. The theorems hold for all
values of the constants that the named assumptions of the modules admit; where a run
has three copies, eight sizes of a disk or one tick, the theorem has any.

| Theorems about | Hold for | Assume |
|---|---|---|
| `StateStore`, `BootFlow` | any number of copies from two up, any blocks, largest count and boot orders | `StoreAssumption`, `BootAssumption` |
| `FragReadTest` | disks of any size, any arguments, any number of failing calls, any word of the generator | `FragAssumption` |
| `PatternTest` | any `size_t` whose size is a multiple of 4, any card, sizes, blocks and numbers of errors; bytes that go bad between commands | `PatternAssumption`, `BadAssumption` |
| `PmodRfid` | any tick, modes and levels, any failing transfer | `ClockAssumption`, `RfidAssumption` |
| `OneWire` | any tick, any failing transfer, any unplugging of the sensor | `ClockAssumption` |
| `DemoInit` | it has no constants | nothing |
| `LinkCmds` | any number of versions of the BSP | `LinkAssumption` |
| `GdbReset` | any limit of `wait_halt` | `GdbAssumption` |

`BadAssumption` says that a byte that went bad does not read as the one that was
written: `Bad` stands for such a value, and the assumption says that it is not one
of the bytes of the pattern. A byte that went bad and by chance reads as what is
expected is not one a comparison could find.

### Storage and boot flow

* `StoreCorrect`: `StoreInv` is inductive. `Redundant` and `NeverForgets` are not
  inductive as they stand: after a reset one has to know what an interrupted save
  can leave behind. `Split` says it (a prefix of new copies, one that is torn or
  untouched, a suffix of old ones), and `Writing` says it for a save or a repair
  under way. `StoreRedundant` and `StoreNeverForgets` follow.
* `StoreIsAtomic`: every step maps to a step of `AtomicState` or to a stutter. The
  commit is the step that makes the first valid copy the new one.
* `BootCorrect`: `BootInv` is inductive. It adds to the types and `StoreInv` who
  may be writing (`WriterInv`), to which entry the device tree belongs
  (`MountInv`), that what is about to be written is covered as well as what is
  stored (`CreditInv`) and that the working copy is sound wherever it could be
  saved (`ActiveInv`).
* `AttemptsArePaid`, `MountPointIsRight`, `FallbackIsSound` follow from it. The last
  is `GoodActive`, with the three excuses above: it says nothing during a write, and
  for a finished one it says that the procedure for an SD card leaves no excuse, that
  for TFTP only where it took the active system away.
* `AttemptsCostOne`: coming up changes nothing that is stored but the count, and
  lowers it by one at most (`CountsDown`); a system that is not the active one starts
  only for an attempt that was paid, or after a `state -s` that failed (`StartsPaid`).
  `BootInv` does not know how the working copy and the stored block are related while
  the scripts run. `CostInv` says it: they agree but for the count (`Unpaid`), and
  the count in RAM may be lower because an earlier pass could not save it. An order
  of `nv.boot.default` may have `system` several times; then a pass that saves pays
  for the unsaved ones before it as well. `Once` is the order, like the default one,
  for which the cost is exactly one.
* `EachPassBrings`: a pass of `boot/system` lowers the stored count, or has a failing
  `state -s`, or ends in a running application. As the count is bounded, a board
  whose saves succeed and whose active system needs no excuse cannot go round for
  ever; that is `ComesBack` without its fairness, for every order and not only the
  default one.
* `BootUsesStore`: every step of the boot flow is a step of the storage;
  `BootSeesAtomicState` combines it with `StoreIsAtomic`.

### frag-rd-test

`TestInv` is inductive: `FragInv` and `CleanReturn`, and three parts that say what
these leave open.

* `StageInv`: where the command is. Its first part has written no small files and
  removes none, so files of an earlier call keep `rmdir` from succeeding, and the
  second part always begins on an empty disk. `DirtyRefused` follows: `NotDirty` is
  true because of that `rmdir` alone.
* `FileInv`: the files are written one by one until a write fails, and only the last
  one can have no contents. That they fill the disk then, and that the big file takes
  all that is free, holds only when no write failed for another reason; `CountInv`
  says it for calls without failures.
* `MeasureInv`: what has been measured so far when nothing failed. `ReadsMeasure`
  needs the number of removed files to be the number of small files that are gone
  (`CountInv`, by cardinalities), and the one file that took no space: it is why the
  second measurement may be one file short of a third.
* `NeverAThird` generalises the counterexample of `frag_sixteen` to the real
  generator: modulo 8 its multiplier is 7 and its increment 2, so from 0 the lowest
  three bits of its word are 0 and 2 in turn (`BitsAlternate`), the remainder of a
  multiple of 8 keeps them (`LowBitsKept`), and a quarter of the files have such
  numbers (`DrawableQuarter`). The hypothesis `Lo % 8 = 0` is true of the 16-bit
  limbs of `unsigned`. The theorem says that the loop has not enough files to
  remove. `DrawsForEver` follows: the loop is left only for an `unlink` or an `open`
  that fails. With failing writes the number of files need not be given by the disk,
  so any disk of 15 clusters or more is concerned.

### pattern-fill and pattern-check

* `FillIsRight`: `AtAddress` (a fill from 0 is at the address of the next byte)
  makes `FillRight` inductive. `FillBlockBytes` says of `fill_block` that it writes to
  every byte of a block the pattern of its address; it needs that the bytes of a word
  stay together when `size_t` wraps (`ModKeepsWords`).
* `FillKeepsRest` is an action property: a fill from 0 changes no byte beyond its size,
  also where a transfer fails half-way.
* `BadBytesFound`: with `ReportInv`, the number of errors is that of the lines printed.
* `NoBlockAccused`: where addresses wrap around, blocks of a fill may overlap in
  what they hold, and no formula says what the card holds. `TraceInv` says instead
  that a set of steps exists (the addresses and positions of the blocks of the
  fill), which is closed under the steps of the loop up to its end, and that every
  block of it is on the card. A check with the same arguments takes the same steps.
* `ShortOutputIsMap`: after every block the last line at or below an address tells how
  that block was; lines of later blocks have later addresses.

* `ShortOutputAlternates`: the lines of that output are ERR and OK by turns, so there
  are at most two for each range of wrong blocks.
* `LoopRunsDown`: a turn brings the return nearer wherever no address wraps around and
  the block size is not 0. Where addresses wrap, `Finishes` stays with TLC.

### RFID and 1-wire

* `SetUpBeforeUse`: `SetupInv`, which adds types to `SetupSoFar`, is inductive.
  `InitializedIsSetUp` alone is not: at the last check of `rfid_init` one has to know
  that every transfer before it has had its effect. `EffectSetsUp` says it for one
  transfer.
* `FoundInTwoRounds`: `SteadyInv` says where the answer of a tag that stays is: on
  its way, latched, or read. At the second question the answer to the first is
  latched, and the first poll finds it, however short the waits are.
* `WireInv`: how far the sensor and the DS2482 are is a function of how many
  operations were issued (`BusInv`), and a byte is wrong only if it was fetched too
  early (`PadInv`) or read from an idle line. `BytesInOrder`, `LateBytesOnly` and
  `FailuresShown` follow.
* `ShortTickSuffices` has a hypothesis: the sleep of 10 ms has at least two ticks of
  1 ms left to it, which is so for ticks of at most 5 ms. Then what is printed is the
  scratchpad. The tick of the demo has 10 ms; `one_wire_busy` shows that the
  hypothesis is needed.

* `CallRunsDown` and `SearchRunsDown`: `1wiretemp` has at most 39 steps to make, and
  an RFID command at most fourteen until it returns or asks for a key. No answer of a
  chip, no failing transfer, no tag and no sensor adds one.

### Start-up

* `DemoCorrect`: `StartInv` is inductive. `WlanUp` alone is not: a call of
  `create_wlandev` has three steps, and others use `ifconfig` in between. `WlanInv`
  says that the claim of a call that found no `wlan0` is open until it has set one up,
  its own or another's. `CreatedWlanIsUp` follows.
* `ShellRunsDown`: `Init` is seven steps from its shell, and no task that it started
  adds one.

### Workaround and debugger

* `LinkCorrect`: `LinkInv` is inductive. `WorkaroundUndone` follows. `Undone` alone
  is not inductive: one has to know that the kept script is a default one whenever
  it exists, and that until it exists `linkcmds` itself is one, so that an interrupted
  target never leaves a state in which the SDRAM script could be kept.
* `FirstScriptForGood`: what was kept once stays, and is what every `libbsd` that ends
  puts back, whatever BSP was installed in between (`Makefile:195`).
* `CaughtAppIsDebugged`: `ResetInv` adds to the types on which lines the breakpoint
  stands (`BpInv`), that the target stays as reset until the script resumes it
  (`HeldInv`), what the bootloader jumps to (`JumpInv`) and where a target that was
  caught in time is (`TimelyInv`).
* `ResetRunsDown`: after the line that resets the target, `reset` has at most
  `WaitLimit + 5` steps to make, and the target can neither add one nor send it back.

### What the proofs changed

The proof of `BytesInOrder` did not go through for an unplugged sensor: the cases of
`Complete` overlapped, so that which of them applied was not determined. An unplugged sensor
is now asked for first. `BadAssumption` was implicit before `BadBytesFound` needed it.
A first form of `CountsDown` asked for a cost of exactly one of every order; it is false
where an order tries `system` twice and the first save fails. And stating who may move
in `AttemptCost` showed that the fair specification of the boot flow had left the
operator out, whose steps are now part of the run.

### Only model-checked

* Liveness (`ComesBack`, `Returns`, `Finishes`, `KeyEnds`, `GoneShown`, `ShellComes`,
  `PromptComes`): the prover has no rule for fairness and `ENABLED` here. For most of
  them a theorem bounds the steps that are left (`...RunsDown`, `EachPassBrings`), so
  that what TLC adds is that a step is always possible and, under fairness, taken.
  `GoneShown` and `Returns` of `FragReadTest` have no such theorem: the first is about
  a search that never ends, the second about draws whose number nothing bounds.
* `WriteBoots` is violated, and only TLC shows it.
* That the loop of `frag_sixteen` really goes on: `DrawsForEver` says that it cannot be
  left, TLC shows a run that draws for ever.

## Not modelled

* The barebox driver below the level of a copy, the i.MX6UL boot ROM, the update
  of the bootloader itself: not in this repository.
* An image that hangs. No watchdog is armed by the environment, and nothing in the
  repository would end such an attempt; `ComesBack` is about images that run or
  crash.
* An EEPROM copy that fails without a reset; the model has failing saves and torn
  copies.
* Memory and file descriptors that the demo commands leak.
* `make -j`: the prerequisites of `install` are not ordered among themselves. The
  model runs one target after the other. The patching of barebox by the Makefile is
  a sequence of `git` commands outside it.
* Priorities in the demo: any interleaving is allowed.
* The scripts for the Lauterbach debugger, which wait without a limit, and those
  that only configure OpenOCD.
* Device trees, build files and scripts without state.

## Plan

Done: all components that keep state; every safety property of a run proved; both
halves of the refinement of the storage; the cost of an attempt that is interrupted
at any point; bounds on the steps of every command but `frag-rd-test`.

Left open:

1. `NeverAThird` for numbers of files that are not multiples of 8, where the reach of
   the draws is not known, and with it the termination of `frag-rd-test` for the
   others.
2. Termination of the pattern commands where addresses wrap around.
