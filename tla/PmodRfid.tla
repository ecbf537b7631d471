------------------------------ MODULE PmodRfid ------------------------------
(***************************************************************************)
(* demo/pmod_rfid.c: the shell commands that drive a TRF7970A behind SPI.  *)
(* One shell runs them, one at a time; what is concurrent is the chip, the *)
(* tag and the key that ends rfid_detect.  The chip latches interrupt flags*)
(* and clears them when they are read.  A transfer whose ioctl fails may or*)
(* may not have reached the chip.  The supply voltage chosen by argument 5 *)
(* is a value of a register only and left out.                             *)
(***************************************************************************)
EXTENDS Integers, Sequences, Clock

CONSTANTS Modes,   \* arguments of rfid_led
          Levels   \* arguments of rfid_verbose

LongMax == 2147483647

ASSUME RfidAssumption ==
  /\ Modes \subseteq {"on", "off", "detect"}
  /\ Levels \subseteq {"1", "3", "abc", "99999999999"}

VARIABLES initialized, led_detection, verbose,  \* the context
          lit,         \* the LED
          setup,       \* what cmd_init has set up since the last software reset
          irq,         \* interrupt flags the chip has latched
          pending,     \* flags the last transmission will still raise
          tag,         \* a tag is in the field
          key,         \* stdin has input
          pc, command, \* where the command is, and which one
          step,        \* transfer of cmd_init
          retry_count, irq_status, error,
          verdict,     \* what the last round of rfid_detect printed
          steady       \* undisturbed questions a tag that stays was asked since it was found

ctx == <<initialized, led_detection, verbose>>
chip == <<setup, irq, pending>>
world == <<tag, key>>
locals == <<command, step, retry_count, irq_status, error>>
history == <<verdict, steady>>
vars == <<ctx, lit, chip, world, pc, locals, history>>

Flags == {"TX", "SRX", "other"}

InitTransfers == <<"SW_INIT", "IDLE", "RESET_FIFO", "STATUS_CONTROL", "ISO_CONTROL",
                   "MODULATOR", "REGULATOR", "DETECTION_LVL">>
Setup == {InitTransfers[k] : k \in 3..Len(InitTransfers)}

-----------------------------------------------------------------------------
(* The chip and its surroundings *)

\* Flags a transmission may raise.  A chip that is not set up may do less.
Raised ==
  IF setup = Setup THEN {{"TX"} \cup (IF tag THEN {"SRX"} ELSE {})}
  ELSE SUBSET ({"TX"} \cup (IF tag /\ "STATUS_CONTROL" \in setup THEN {"SRX"} ELSE {}))

Answer ==
  /\ \E f \in pending :
       /\ f = "SRX" => "TX" \notin pending
       /\ irq' = irq \cup {f} /\ pending' = pending \ {f}
  /\ UNCHANGED <<ctx, lit, setup, world, pc, locals, history>>

\* A collision, a framing error, or anything else rfid_detect does not expect.
Disturbance ==
  /\ "STATUS_CONTROL" \in setup
  /\ irq' = irq \cup {"other"} /\ steady' = 0
  /\ UNCHANGED <<ctx, lit, setup, pending, world, pc, locals, verdict>>

TagMoves ==
  /\ tag' = ~tag
  /\ pending' \in {pending, pending \ {"SRX"}}
  /\ steady' = 0
  /\ UNCHANGED <<ctx, lit, setup, irq, key, pc, locals, verdict>>

\* What is typed during rfid_init is for the shell.
PressKey ==
  /\ pc # "idle" /\ command = "rfid_detect" /\ ~key /\ key' = TRUE
  /\ UNCHANGED <<ctx, lit, chip, tag, pc, locals, history>>

-----------------------------------------------------------------------------
(* pmod_rfid_init, and the commands that do one thing *)

\* The flags of a chip that was not reset are anything.
Init ==
  /\ initialized = FALSE /\ led_detection = TRUE /\ verbose = 0
  /\ lit \in BOOLEAN
  /\ setup = {} /\ irq \in SUBSET Flags /\ pending = {}
  /\ tag \in BOOLEAN /\ key = FALSE
  /\ pc = "idle" /\ command = "rfid_init" /\ step = 1
  /\ retry_count = 0 /\ irq_status = {} /\ error = FALSE
  /\ verdict = "none" /\ steady = 0

\* The dump reads every register, the interrupt flags too.
Regdump ==
  /\ pc = "idle"
  /\ \/ error' = FALSE /\ irq' = {}
     \/ error' = TRUE /\ irq' \in {irq, {}}
  /\ steady' = 0
  /\ UNCHANGED <<ctx, lit, setup, pending, world, pc, command, step, retry_count, irq_status, verdict>>

strtol(s) == CASE s = "1" -> 1 [] s = "3" -> 3 [] s = "abc" -> 0 [] OTHER -> LongMax

Verbose(level) ==
  /\ pc = "idle"
  /\ verbose' = strtol(level) /\ error' = FALSE
  /\ UNCHANGED <<initialized, led_detection, lit, chip, world, pc, command, step, retry_count,
                 irq_status, history>>

Led(mode) ==
  /\ pc = "idle"
  /\ led_detection' = (mode = "detect")
  /\ lit' = (IF mode = "detect" THEN lit ELSE mode = "on")
  /\ error' = FALSE
  /\ UNCHANGED <<initialized, verbose, chip, world, pc, command, step, retry_count, irq_status, history>>

-----------------------------------------------------------------------------
(* pmod_rfid_cmd_init_func, of the shell or of rfid_detect *)

\* What rfid_detect does after the initialisation, whatever came of it.
StartRounds == pc' = "send" /\ error' = FALSE

\* rfid_detect ignores the result.
Initialised(failed) ==
  /\ step' = 1
  /\ IF command = "rfid_detect" THEN StartRounds ELSE pc' = "idle" /\ error' = failed

\* A wrong argument is found after the chip was declared not initialized.
StartInit(valid) ==
  /\ initialized' = FALSE
  /\ step' = 1
  /\ IF valid THEN pc' = "init" /\ error' = FALSE
     ELSE IF command' = "rfid_detect" THEN StartRounds ELSE pc' = "idle" /\ error' = TRUE

RfidInit(valid) ==
  /\ pc = "idle" /\ command' = "rfid_init"
  /\ StartInit(valid)
  /\ UNCHANGED <<led_detection, verbose, lit, chip, world, retry_count, irq_status, history>>

\* A software reset forgets all there was.
Effect(transfer) ==
  IF transfer = "SW_INIT" THEN setup' = {} /\ irq' = {} /\ pending' = {}
  ELSE setup' = setup \cup ({transfer} \cap Setup) /\ UNCHANGED <<irq, pending>>

InitTransfer ==
  /\ pc = "init" /\ step <= Len(InitTransfers)
  /\ Effect(InitTransfers[step])
  /\ step' = step + 1
  /\ UNCHANGED <<ctx, lit, world, pc, command, retry_count, irq_status, error, history>>

\* Fault: the result of the last transfer overwrites the errors before it.
InitTransferFails_Forgets ==
  /\ pc = "init" /\ step <= Len(InitTransfers)
  /\ Effect(InitTransfers[step]) \/ UNCHANGED chip
  /\ IF step < Len(InitTransfers)
     THEN step' = step + 1 /\ UNCHANGED <<pc, error>>
     ELSE Initialised(TRUE)
  /\ steady' = 0
  /\ UNCHANGED <<ctx, lit, world, command, retry_count, irq_status, verdict>>

InitTransferFails ==
  /\ pc = "init" /\ step <= Len(InitTransfers)
  /\ Effect(InitTransfers[step]) \/ UNCHANGED chip
  /\ Initialised(TRUE)
  /\ steady' = 0
  /\ UNCHANGED <<ctx, lit, world, command, retry_count, irq_status, verdict>>

\* The last step of cmd_init: no flag may be set.
InitCheck ==
  /\ pc = "init" /\ step > Len(InitTransfers)
  /\ irq' = {}
  /\ initialized' = (irq = {})
  /\ Initialised(irq # {})
  /\ UNCHANGED <<led_detection, verbose, lit, setup, pending, world, command, retry_count,
                 irq_status, history>>

InitCheckFails ==
  /\ pc = "init" /\ step > Len(InitTransfers)
  /\ irq' \in {irq, {}}
  /\ Initialised(TRUE)
  /\ steady' = 0
  /\ UNCHANGED <<ctx, lit, setup, pending, world, command, retry_count, irq_status, verdict>>

-----------------------------------------------------------------------------
(* pmod_rfid_cmd_detect_func *)

\* The argument goes to cmd_init, when that is called.
RfidDetect(valid) ==
  /\ pc = "idle" /\ command' = "rfid_detect"
  /\ IF initialized
     THEN StartRounds /\ UNCHANGED <<initialized, step>>
     ELSE StartInit(valid)
  /\ UNCHANGED <<led_detection, verbose, lit, chip, world, retry_count, irq_status, verdict, steady>>

\* Fault: the flags of the round before are not forgotten.
NewRound_KeepsStatus == UNCHANGED irq_status /\ retry_count' = 2

NewRound == irq_status' = {} /\ retry_count' = 2

\* Fault: the number of polls is not looked at.
Polling_ForEver(status, n) == IF "SRX" \notin status THEN "poll" ELSE "verdict"

\* The loop over the polls goes on.
Polling(status, n) == IF n > 0 /\ "SRX" \notin status THEN "poll" ELSE "verdict"

\* Fault: the flags are read and dropped before the question.
Send_DropsFlags ==
  /\ pc = "send" /\ NewRound
  /\ pending' \in Raised /\ irq' = {}
  /\ pc' = Polling(irq_status', retry_count')
  /\ steady' = IF tag /\ setup = Setup THEN (IF steady = 0 THEN 1 ELSE 2) ELSE 0
  /\ UNCHANGED <<ctx, lit, setup, world, command, step, error, verdict>>

\* RESET_FIFO, TRANSM_WITH_CRC and the question, in one transfer.
Send ==
  /\ pc = "send" /\ NewRound
  /\ pending' \in Raised
  /\ pc' = Polling(irq_status', retry_count')
  /\ steady' = IF tag /\ setup = Setup THEN (IF steady = 0 THEN 1 ELSE 2) ELSE 0
  /\ UNCHANGED <<ctx, lit, setup, irq, world, command, step, error, verdict>>

SendFails ==
  /\ pc = "send" /\ NewRound
  /\ pending' \in Raised \cup {pending}
  /\ error' = TRUE /\ pc' = "verdict" /\ steady' = 0
  /\ UNCHANGED <<ctx, lit, setup, irq, world, command, step, verdict>>

\* The chip has answered within a millisecond.
Settled(n) == Slept(1, n) >= 1 => pending = {}

\* Each poll overwrites the status of the one before.
Poll ==
  /\ pc = "poll" /\ Settled(3 - retry_count)
  /\ retry_count' = retry_count - 1
  /\ irq_status' = irq /\ irq' = {}
  /\ error' = ("other" \in irq)
  /\ pc' = IF error' THEN "verdict" ELSE Polling(irq, retry_count')
  /\ UNCHANGED <<ctx, lit, setup, pending, world, command, step, history>>

PollFails ==
  /\ pc = "poll"
  /\ retry_count' = retry_count - 1
  /\ irq' \in {irq, {}}
  /\ error' = TRUE /\ pc' = "verdict" /\ steady' = 0
  /\ UNCHANGED <<ctx, lit, setup, pending, world, command, step, irq_status, verdict>>

\* The LED and the message; a failed round has both, too.
Verdict ==
  /\ pc = "verdict"
  /\ verdict' = IF "SRX" \in irq_status THEN "tag" ELSE "no tag"
  /\ lit' = IF led_detection THEN "SRX" \in irq_status ELSE lit
  /\ steady' = IF "SRX" \in irq_status THEN 0 ELSE steady
  /\ pc' = "wait"
  /\ UNCHANGED <<ctx, chip, world, locals>>

Over ==
  /\ pc' = "idle" /\ key' = FALSE
  /\ retry_count' = 0 /\ irq_status' = {}
  /\ verdict' = "none" /\ steady' = 0

Again == pending = {} /\ pc' = "send" /\ UNCHANGED <<key, retry_count, irq_status, history>>

\* Fault: an error ends the loop, a key does not.
Wait_IgnoresKey ==
  /\ pc = "wait"
  /\ IF error THEN Over ELSE Again
  /\ UNCHANGED <<ctx, lit, chip, tag, command, step, error>>

\* input_available: within 10 ms without a key the chip has answered.
Wait ==
  /\ pc = "wait"
  /\ IF key \/ error THEN Over ELSE Again
  /\ UNCHANGED <<ctx, lit, chip, tag, command, step, error>>

\* -1 of select stops the search as a key does.
WaitFails ==
  /\ pc = "wait"
  /\ Over
  /\ UNCHANGED <<ctx, lit, chip, tag, command, step, error>>

-----------------------------------------------------------------------------
Work == InitTransfer \/ InitCheck \/ Send \/ Poll \/ Verdict \/ Wait

Fails == InitTransferFails \/ InitCheckFails \/ SendFails \/ PollFails \/ WaitFails

Commands ==
  \/ \E valid \in BOOLEAN : RfidInit(valid) \/ RfidDetect(valid)
  \/ \E mode \in Modes : Led(mode)
  \/ \E level \in Levels : Verbose(level)
  \/ Regdump

Next == Work \/ Fails \/ Commands \/ Answer \/ Disturbance \/ TagMoves \/ PressKey

Spec == Init /\ [][Next]_vars

\* A command that was started runs on, and the chip raises its flags.
FairSpec == Spec /\ WF_vars(Work) /\ WF_vars(Answer)

-----------------------------------------------------------------------------
TypeOK ==
  /\ initialized \in BOOLEAN /\ led_detection \in BOOLEAN /\ verbose \in Nat
  /\ lit \in BOOLEAN /\ tag \in BOOLEAN /\ key \in BOOLEAN /\ error \in BOOLEAN
  /\ setup \subseteq Setup /\ irq \subseteq Flags /\ pending \subseteq {"TX", "SRX"}
  /\ pc \in {"idle", "init", "send", "poll", "verdict", "wait"}
  /\ command \in {"rfid_init", "rfid_detect"}
  /\ step \in 1..(Len(InitTransfers) + 1)
  /\ retry_count \in 0..2 /\ irq_status \subseteq Flags
  /\ verdict \in {"none", "tag", "no tag"} /\ steady \in 0..2

\* cmd_init never leaves a half set up chip that counts as initialized, not
\* even when a chip in use is initialised again and a transfer fails.
InitializedIsSetUp == initialized => setup = Setup

(* The strengthening: what cmd_init has done up to the transfer it is at.   *)
SetupSoFar ==
  /\ InitializedIsSetUp
  /\ pc = "init" => ~initialized /\ {InitTransfers[k] : k \in 3..(step - 1)} \subseteq setup

\* Two polls that follow each other without a wait may both come before the
\* answer.  The next round then finds it: an undisturbed search never says
\* "No tag" twice in a row of a tag that stays.
SteadyTagFound == ~(steady = 2 /\ pc = "wait")

\* Any key ends rfid_detect (usage: Terminate with any key press.).
KeyEnds == key ~> pc = "idle"

\* When the tag is gone for good, a search that goes on turns the LED off.
Searching == pc \in {"send", "poll", "verdict", "wait"}
GoneShown == <>[](~tag /\ Searching /\ led_detection) => <>[]~lit
=============================================================================
