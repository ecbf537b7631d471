--------------------------- MODULE PmodRfidProofs ---------------------------
(* rfid_init never leaves a half set up chip that counts as initialized,    *)
(* and rfid_detect never misses a tag that stays twice in a row: for any    *)
(* tick, any modes of the LED and any levels, and whichever of the          *)
(* transfers fail, before or after they have reached the chip.              *)
EXTENDS PmodRfid, TLAPS

\* The strengthening, with the types it needs.
SetupInv ==
  /\ initialized \in BOOLEAN
  /\ setup \subseteq Setup
  /\ step \in 1..(Len(InitTransfers) + 1)
  /\ SetupSoFar

\* The sequence of transfers: two that set up nothing, then six that do.
LEMMA TransferFacts ==
  /\ Len(InitTransfers) = 8
  /\ InitTransfers[1] = "SW_INIT" /\ InitTransfers[2] = "IDLE"
  /\ \A k \in 2..8 : InitTransfers[k] # "SW_INIT"
  /\ \A k \in 3..8 : InitTransfers[k] \in Setup
  /\ {InitTransfers[k] : k \in 3..8} = Setup
  /\ {InitTransfers[k] : k \in 3..0} = {}
<1>1. /\ Len(InitTransfers) = 8
      /\ InitTransfers[1] = "SW_INIT" /\ InitTransfers[2] = "IDLE"
      /\ \A k \in 2..8 : InitTransfers[k] # "SW_INIT"
  BY DEF InitTransfers
<1>2. {InitTransfers[k] : k \in 3..8} = Setup
  BY <1>1 DEF Setup
<1>3. \A k \in 3..8 : InitTransfers[k] \in Setup
  BY <1>2
<1>4. 3..0 = {}
  OBVIOUS
<1>5. {InitTransfers[k] : k \in 3..0} = {}
  BY <1>4
<1> QED BY <1>1, <1>2, <1>3, <1>5

\* Before the first transfer nothing has to be set up.
LEMMA SetupInit == Init => SetupInv
<1> SUFFICES ASSUME Init PROVE SetupInv
  OBVIOUS
<1>1. ~initialized /\ initialized \in BOOLEAN
  BY DEF Init
<1>2. setup = {} /\ step = 1 /\ pc # "init"
  BY DEF Init
<1>3. step \in 1..(Len(InitTransfers) + 1)
  BY <1>2, TransferFacts
<1> QED BY <1>1, <1>2, <1>3 DEF SetupInv, SetupSoFar, InitializedIsSetUp

\* One transfer more leaves one register more set up.
LEMMA EffectSetsUp ==
  ASSUME SetupInv, pc = "init", step <= Len(InitTransfers), Effect(InitTransfers[step])
  PROVE  /\ setup' \subseteq Setup
         /\ {InitTransfers[k] : k \in 3..step} \subseteq setup'
<1> USE TransferFacts DEF SetupInv, SetupSoFar, Effect
<1>1. CASE step = 1
  <2>1. 3..step = {}
    BY <1>1
  <2> QED BY <1>1, <2>1
<1>2. CASE step = 2
  <2>1. 3..step = {}
    BY <1>2
  <2>2. setup' \subseteq Setup
    BY <1>2
  <2> QED BY <2>1, <2>2
<1>3. CASE step \in 3..8
  <2>1. setup' = setup \cup {InitTransfers[step]}
    BY <1>3
  <2>2. \A k \in 3..step : k \in 3..(step - 1) \/ k = step
    BY <1>3
  <2>3. \A k \in 3..(step - 1) : InitTransfers[k] \in setup
    OBVIOUS
  <2> QED BY <1>3, <2>1, <2>2, <2>3
<1> QED BY <1>1, <1>2, <1>3

\* A command that begins to set up the chip counts it out first.
LEMMA StartKeeps ==
  ASSUME SetupInv, NEW valid \in BOOLEAN, StartInit(valid), setup' = setup
  PROVE  SetupInv'
<1>1. ~initialized' /\ initialized' \in BOOLEAN
  BY DEF StartInit
<1>2. step' = 1
  BY DEF StartInit
<1>3. 3..(step' - 1) = {}
  BY <1>2
<1>4. {InitTransfers[k] : k \in 3..(step' - 1)} = {}
  BY <1>3
<1>5. setup' \subseteq Setup
  BY DEF SetupInv
<1> QED BY <1>1, <1>2, <1>4, <1>5, TransferFacts DEF SetupInv, SetupSoFar, InitializedIsSetUp

\* What leaves the set-up alone, and does not begin it, keeps the invariant.
LEMMA OthersKeep ==
  ASSUME SetupInv, UNCHANGED <<initialized, setup, step>>, pc' = "init" => pc = "init"
  PROVE  SetupInv'
  BY DEF SetupInv, SetupSoFar, InitializedIsSetUp

\* Every step of the commands, of the chip and of its surroundings keeps the
\* invariant.
LEMMA SetupStep == SetupInv /\ [Next]_vars => SetupInv'
<1> SUFFICES ASSUME SetupInv, [Next]_vars PROVE SetupInv'
  OBVIOUS
<1> USE DEF ctx, chip, world, locals, history
<1>1. CASE InitTransfer
  <2>1. ~initialized' /\ step' = step + 1 /\ step \in 1..8
    BY <1>1, TransferFacts DEF InitTransfer, SetupInv, SetupSoFar
  <2>2. setup' \subseteq Setup /\ {InitTransfers[k] : k \in 3..step} \subseteq setup'
    BY <1>1, EffectSetsUp DEF InitTransfer
  <2>3. step' - 1 = step /\ step' \in 1..9
    BY <2>1
  <2>4. initialized' \in BOOLEAN
    BY <1>1 DEF InitTransfer, SetupInv
  <2> QED BY <2>1, <2>2, <2>3, <2>4, TransferFacts DEF SetupInv, SetupSoFar, InitializedIsSetUp
<1>2. CASE InitTransferFails
  <2>1. ~initialized' /\ initialized' \in BOOLEAN
    BY <1>2 DEF InitTransferFails, SetupInv, SetupSoFar
  <2>2. setup' \subseteq Setup
    <3>1. CASE Effect(InitTransfers[step])
      BY <1>2, <3>1, EffectSetsUp DEF InitTransferFails
    <3>2. CASE UNCHANGED chip
      BY <3>2 DEF SetupInv
    <3> QED BY <1>2, <3>1, <3>2 DEF InitTransferFails
  <2>3. step' = 1 /\ pc' # "init"
    BY <1>2 DEF InitTransferFails, Initialised, StartRounds
  <2> QED BY <2>1, <2>2, <2>3, TransferFacts DEF SetupInv, SetupSoFar, InitializedIsSetUp
<1>3. CASE InitCheck
  <2>1. step = 9
    BY <1>3, TransferFacts DEF InitCheck, SetupInv
  <2>2. setup = Setup
    <3>1. step - 1 = 8
      BY <2>1
    <3> QED BY <1>3, <3>1, TransferFacts DEF InitCheck, SetupInv, SetupSoFar
  <2>3. step' = 1 /\ pc' # "init"
    BY <1>3 DEF InitCheck, Initialised, StartRounds
  <2>4. initialized' \in BOOLEAN /\ setup' = setup
    BY <1>3 DEF InitCheck
  <2> QED BY <2>2, <2>3, <2>4, TransferFacts DEF SetupInv, SetupSoFar, InitializedIsSetUp
<1>4. CASE InitCheckFails
  <2>1. step' = 1 /\ pc' # "init" /\ UNCHANGED <<initialized, setup>>
    BY <1>4 DEF InitCheckFails, Initialised, StartRounds
  <2> QED BY <2>1, TransferFacts DEF SetupInv, SetupSoFar, InitializedIsSetUp
<1>5. CASE Send \/ SendFails \/ Poll \/ PollFails \/ Verdict \/ Wait \/ WaitFails
  <2>1. UNCHANGED <<initialized, setup, step>>
    BY <1>5 DEF Send, SendFails, Poll, PollFails, Verdict, Wait, WaitFails
  <2>2. pc' # "init"
    BY <1>5 DEF Send, SendFails, Poll, PollFails, Verdict, Wait, WaitFails, Polling, Over, Again
  <2> QED BY <2>1, <2>2, OthersKeep
<1>6. CASE Commands
  <2>1. ASSUME NEW valid \in BOOLEAN, RfidInit(valid) PROVE SetupInv'
    BY <2>1, StartKeeps DEF RfidInit
  <2>2. ASSUME NEW valid \in BOOLEAN, RfidDetect(valid) PROVE SetupInv'
    <3>1. CASE initialized
      BY <2>2, <3>1, OthersKeep DEF RfidDetect, StartRounds
    <3>2. CASE ~initialized
      BY <2>2, <3>2, StartKeeps DEF RfidDetect
    <3> QED BY <3>1, <3>2
  <2>3. ASSUME NEW mode \in Modes, Led(mode) PROVE SetupInv'
    BY <2>3, OthersKeep DEF Led
  <2>4. ASSUME NEW level \in Levels, Verbose(level) PROVE SetupInv'
    BY <2>4, OthersKeep DEF Verbose
  <2>5. CASE Regdump
    BY <2>5, OthersKeep DEF Regdump
  <2> QED BY <1>6, <2>1, <2>2, <2>3, <2>4, <2>5 DEF Commands
<1>7. CASE Answer \/ Disturbance \/ TagMoves \/ PressKey
  BY <1>7, OthersKeep DEF Answer, Disturbance, TagMoves, PressKey
<1>8. CASE UNCHANGED vars
  BY <1>8, OthersKeep DEF vars
<1> QED BY <1>1, <1>2, <1>3, <1>4, <1>5, <1>6, <1>7, <1>8 DEF Next, Work, Fails

\* pmod_rfid_cmd_init_func: in every reachable state what the transfers have
\* set up so far, and everything when the chip counts as initialized.
THEOREM SetUpBeforeUse == Spec => []SetupSoFar
<1>1. SetupInv => SetupSoFar
  BY DEF SetupInv
<1> QED BY <1>1, SetupInit, SetupStep, PTL DEF Spec

-----------------------------------------------------------------------------
(* The types.  Truth values, numbers and sets apart. *)

Truths ==
  /\ initialized \in BOOLEAN /\ led_detection \in BOOLEAN /\ lit \in BOOLEAN
  /\ tag \in BOOLEAN /\ key \in BOOLEAN /\ error \in BOOLEAN

\* A poll is only begun when one is left.
Counters ==
  /\ verbose \in Nat /\ retry_count \in 0..2 /\ steady \in 0..2
  /\ pc = "poll" => retry_count >= 1

Names ==
  /\ irq \subseteq Flags /\ pending \subseteq {"TX", "SRX"} /\ irq_status \subseteq Flags
  /\ pc \in {"idle", "init", "send", "poll", "verdict", "wait"}
  /\ command \in {"rfid_init", "rfid_detect"} /\ verdict \in {"none", "tag", "no tag"}

\* What the step of a command, of the chip or of its surroundings does to the
\* truth values.
LEMMA TruthsStep == Truths /\ [Next]_vars => Truths'
<1> SUFFICES ASSUME Truths, [Next]_vars PROVE Truths'
  OBVIOUS
<1> USE DEF Truths, ctx, chip, world, locals, history
<1>1. CASE Work
  <2>1. CASE InitTransfer
    BY <2>1 DEF InitTransfer
  <2>2. CASE InitCheck
    BY <2>2 DEF InitCheck, Initialised, StartRounds
  <2>3. CASE Send
    BY <2>3 DEF Send
  <2>4. CASE Poll
    BY <2>4 DEF Poll
  <2>5. CASE Verdict
    <3>1. lit' \in BOOLEAN
      <4>1. CASE led_detection /\ "SRX" \in irq_status
        BY <2>5, <4>1 DEF Verdict
      <4>2. CASE led_detection /\ "SRX" \notin irq_status
        <5>1. lit' = ("SRX" \in irq_status)
          BY <2>5, <4>2 DEF Verdict
        <5>2. ("SRX" \in irq_status) = FALSE
          BY <4>2
        <5>3. lit' = FALSE
          BY <5>1, <5>2
        <5> QED BY <5>3
      <4>3. CASE ~led_detection
        BY <2>5, <4>3 DEF Verdict
      <4> QED BY <4>1, <4>2, <4>3
    <3>2. UNCHANGED <<initialized, led_detection, tag, key, error>>
      BY <2>5 DEF Verdict
    <3> QED BY <3>1, <3>2, Zenon
  <2>6. CASE Wait
    BY <2>6 DEF Wait, Over, Again
  <2> QED BY <1>1, <2>1, <2>2, <2>3, <2>4, <2>5, <2>6 DEF Work
<1>2. CASE Fails
  <2>1. CASE InitTransferFails
    BY <2>1 DEF InitTransferFails, Initialised, StartRounds
  <2>2. CASE InitCheckFails
    BY <2>2 DEF InitCheckFails, Initialised, StartRounds
  <2>3. CASE SendFails
    BY <2>3 DEF SendFails
  <2>4. CASE PollFails
    BY <2>4 DEF PollFails
  <2>5. CASE WaitFails
    BY <2>5 DEF WaitFails, Over
  <2> QED BY <1>2, <2>1, <2>2, <2>3, <2>4, <2>5 DEF Fails
<1>3. CASE Commands
  <2>1. ASSUME NEW valid \in BOOLEAN, RfidInit(valid) PROVE Truths'
    BY <2>1 DEF RfidInit, StartInit, StartRounds
  <2>2. ASSUME NEW valid \in BOOLEAN, RfidDetect(valid) PROVE Truths'
    BY <2>2 DEF RfidDetect, StartInit, StartRounds
  <2>3. ASSUME NEW mode \in Modes, Led(mode) PROVE Truths'
    BY <2>3 DEF Led
  <2>4. ASSUME NEW level \in Levels, Verbose(level) PROVE Truths'
    BY <2>4 DEF Verbose
  <2>5. CASE Regdump
    BY <2>5 DEF Regdump
  <2> QED BY <1>3, <2>1, <2>2, <2>3, <2>4, <2>5 DEF Commands
<1>4. CASE Answer \/ Disturbance \/ TagMoves \/ PressKey \/ UNCHANGED vars
  BY <1>4 DEF Answer, Disturbance, TagMoves, PressKey, vars
<1> QED BY <1>1, <1>2, <1>3, <1>4 DEF Next

\* To the numbers.
LEMMA CountersStep == Counters /\ [Next]_vars => Counters'
<1> SUFFICES ASSUME Counters, [Next]_vars PROVE Counters'
  OBVIOUS
<1> USE DEF Counters, ctx, chip, world, locals, history
<1>1. CASE InitTransfer \/ InitCheck
  <2>1. UNCHANGED <<verbose, retry_count, steady>> /\ pc' # "poll"
    BY <1>1 DEF InitTransfer, InitCheck, Initialised, StartRounds
  <2> QED BY <2>1
<1>2. CASE Send
  <2>1. UNCHANGED verbose /\ retry_count' = 2 /\ steady' \in {0, 1, 2}
    BY <1>2 DEF Send, NewRound
  <2> QED BY <2>1
<1>3. CASE Poll
  <2>1. retry_count \in 1..2 /\ retry_count' = retry_count - 1
    BY <1>3 DEF Poll
  <2>2. pc' = "poll" => retry_count' > 0
    BY <1>3 DEF Poll, Polling
  <2>3. UNCHANGED <<verbose, steady>>
    BY <1>3 DEF Poll
  <2> QED BY <2>1, <2>2, <2>3
<1>4. CASE Verdict
  <2>1. UNCHANGED <<verbose, retry_count>> /\ steady' \in {0, steady} /\ pc' = "wait"
    BY <1>4 DEF Verdict
  <2> QED BY <2>1
<1>5. CASE Wait \/ WaitFails
  <2>1. UNCHANGED verbose /\ retry_count' \in {0, retry_count} /\ steady' \in {0, steady} /\ pc' # "poll"
    BY <1>5 DEF Wait, WaitFails, Over, Again
  <2> QED BY <2>1
<1>6. CASE InitTransferFails \/ InitCheckFails \/ SendFails
  <2>1. UNCHANGED verbose /\ retry_count' \in {2, retry_count} /\ steady' = 0 /\ pc' # "poll"
    BY <1>6 DEF InitTransferFails, InitCheckFails, SendFails, Initialised, StartRounds, NewRound
  <2> QED BY <2>1
<1>7. CASE PollFails
  <2>1. UNCHANGED verbose /\ retry_count' = retry_count - 1 /\ pc = "poll" /\ steady' = 0 /\ pc' # "poll"
    BY <1>7 DEF PollFails
  <2> QED BY <2>1
<1>8. CASE Commands
  <2>1. ASSUME NEW valid \in BOOLEAN, RfidInit(valid) \/ RfidDetect(valid)
        PROVE  UNCHANGED <<verbose, retry_count, steady>> /\ pc' # "poll"
    BY <2>1 DEF RfidInit, RfidDetect, StartInit, StartRounds
  <2>2. ASSUME NEW mode \in Modes, Led(mode)
        PROVE  UNCHANGED <<verbose, retry_count, steady, pc>>
    BY <2>2 DEF Led
  <2>3. ASSUME NEW level \in Levels, Verbose(level)
        PROVE  verbose' \in Nat /\ UNCHANGED <<retry_count, steady, pc>>
    BY <2>3 DEF Verbose, strtol, LongMax
  <2>4. CASE Regdump
    BY <2>4 DEF Regdump
  <2> QED BY <1>8, <2>1, <2>2, <2>3, <2>4 DEF Commands
<1>9. CASE Answer \/ Disturbance \/ TagMoves \/ PressKey \/ UNCHANGED vars
  <2>1. UNCHANGED <<verbose, retry_count, pc>> /\ steady' \in {0, steady}
    BY <1>9 DEF Answer, Disturbance, TagMoves, PressKey, vars
  <2> QED BY <2>1
<1> QED BY <1>1, <1>2, <1>3, <1>4, <1>5, <1>6, <1>7, <1>8, <1>9 DEF Next, Work, Fails

\* And to the sets and names.
LEMMA NamesStep == Names /\ [Next]_vars => Names'
<1> SUFFICES ASSUME Names, [Next]_vars PROVE Names'
  OBVIOUS
<1> USE DEF Names, Flags, ctx, chip, world, locals, history
<1>1. CASE Work
  <2>1. CASE InitTransfer
    BY <2>1 DEF InitTransfer, Effect
  <2>2. CASE InitCheck
    BY <2>2 DEF InitCheck, Initialised, StartRounds
  <2>3. CASE Send
    BY <2>3 DEF Send, NewRound, Raised, Polling
  <2>4. CASE Poll
    BY <2>4 DEF Poll, Polling
  <2>5. CASE Verdict
    BY <2>5 DEF Verdict
  <2>6. CASE Wait
    BY <2>6 DEF Wait, Over, Again
  <2> QED BY <1>1, <2>1, <2>2, <2>3, <2>4, <2>5, <2>6 DEF Work
<1>2. CASE Fails
  <2>1. CASE InitTransferFails
    BY <2>1 DEF InitTransferFails, Initialised, StartRounds, Effect
  <2>2. CASE InitCheckFails
    BY <2>2 DEF InitCheckFails, Initialised, StartRounds
  <2>3. CASE SendFails
    BY <2>3 DEF SendFails, NewRound, Raised
  <2>4. CASE PollFails
    BY <2>4 DEF PollFails
  <2>5. CASE WaitFails
    BY <2>5 DEF WaitFails, Over
  <2> QED BY <1>2, <2>1, <2>2, <2>3, <2>4, <2>5 DEF Fails
<1>3. CASE Commands
  <2>1. ASSUME NEW valid \in BOOLEAN, RfidInit(valid) PROVE Names'
    BY <2>1 DEF RfidInit, StartInit, StartRounds
  <2>2. ASSUME NEW valid \in BOOLEAN, RfidDetect(valid) PROVE Names'
    BY <2>2 DEF RfidDetect, StartInit, StartRounds
  <2>3. ASSUME NEW mode \in Modes, Led(mode) PROVE Names'
    BY <2>3 DEF Led
  <2>4. ASSUME NEW level \in Levels, Verbose(level) PROVE Names'
    BY <2>4 DEF Verbose
  <2>5. CASE Regdump
    BY <2>5 DEF Regdump
  <2> QED BY <1>3, <2>1, <2>2, <2>3, <2>4, <2>5 DEF Commands
<1>4. CASE Answer \/ Disturbance \/ TagMoves \/ PressKey \/ UNCHANGED vars
  BY <1>4 DEF Answer, Disturbance, TagMoves, PressKey, vars
<1> QED BY <1>1, <1>2, <1>3, <1>4 DEF Next

-----------------------------------------------------------------------------
(* A tag that stays.  steady counts the undisturbed questions it was asked. *)

\* Where the answer to the questions is: on its way, latched by the chip, or
\* in the status that was read.  When the second question is sent the answer
\* to the first is latched already, so that the first poll finds it.
SteadyInv ==
  /\ steady # 0 => pc \in {"send", "poll", "verdict", "wait"}
  /\ steady = 1 =>
       "SRX" \in irq \cup (IF pc = "send" THEN {} ELSE pending)
                     \cup (IF pc = "verdict" THEN irq_status ELSE {})
  /\ steady = 2 =>
       /\ pc = "poll" => "SRX" \in irq
       /\ pc = "verdict" => "SRX" \in irq_status
       /\ pc \notin {"send", "wait"}

\* A step that leaves the question alone may only add to what is latched.
LEMMA SteadyKept ==
  ASSUME SteadyInv, UNCHANGED <<steady, pc, irq_status>>,
         irq \subseteq irq', irq \cup pending \subseteq irq' \cup pending'
  PROVE  SteadyInv'
  BY DEF SteadyInv

\* A step that disturbs it, or comes while there is none.
LEMMA SteadyReset ==
  ASSUME steady' = 0
  PROVE  SteadyInv'
  BY DEF SteadyInv

LEMMA SteadyStep == Counters /\ Names /\ SteadyInv /\ [Next]_vars => SteadyInv'
<1> SUFFICES ASSUME Counters, Names, SteadyInv, [Next]_vars PROVE SteadyInv'
  OBVIOUS
<1> USE DEF ctx, chip, world, locals, history
<1>1. CASE Send
  <2>1. pc = "send" /\ irq' = irq /\ pc' = "poll" /\ steady \in 0..2
    BY <1>1 DEF Send, NewRound, Polling, Counters
  <2>2. CASE tag /\ setup = Setup
    <3>1. "SRX" \in pending'
      BY <1>1, <2>2 DEF Send, Raised
    <3>2. steady' = IF steady = 0 THEN 1 ELSE 2
      BY <1>1, <2>2 DEF Send
    <3>3. steady # 0 => "SRX" \in irq
      BY <2>1 DEF SteadyInv
    <3> QED BY <2>1, <3>1, <3>2, <3>3 DEF SteadyInv
  <2>3. CASE ~(tag /\ setup = Setup)
    BY <1>1, <2>3, SteadyReset DEF Send
  <2> QED BY <2>2, <2>3
<1>2. CASE Poll
  <2>1. pc = "poll" /\ irq_status' = irq /\ UNCHANGED <<pending, steady>> /\ steady \in 0..2
    BY <1>2 DEF Poll, Counters
  <2>2. pc' \in {"poll", "verdict"} /\ ("SRX" \in irq => pc' = "verdict")
    BY <1>2 DEF Poll, Polling
  <2> QED BY <2>1, <2>2 DEF SteadyInv
<1>3. CASE Verdict
  <2>1. pc = "verdict" /\ pc' = "wait" /\ UNCHANGED <<irq, pending>> /\ steady \in 0..2
    BY <1>3 DEF Verdict, Counters
  <2>2. CASE "SRX" \in irq_status
    BY <1>3, <2>2, SteadyReset DEF Verdict
  <2>3. CASE "SRX" \notin irq_status
    <3>1. steady' = steady
      BY <1>3, <2>3 DEF Verdict
    <3> QED BY <2>1, <2>3, <3>1 DEF SteadyInv
  <2> QED BY <2>2, <2>3
<1>4. CASE Wait
  <2>1. CASE Over
    BY <2>1, SteadyReset DEF Over
  <2>2. CASE Again
    <3>1. pc = "wait" /\ pc' = "send" /\ pending = {} /\ UNCHANGED <<irq, pending, steady>>
      BY <1>4, <2>2 DEF Wait, Again
    <3> QED BY <3>1 DEF SteadyInv
  <2> QED BY <1>4, <2>1, <2>2 DEF Wait
<1>5. CASE Fails
  BY <1>5, SteadyReset DEF Fails, InitTransferFails, InitCheckFails, SendFails, PollFails, WaitFails, Over
<1>6. CASE InitTransfer \/ InitCheck
  <2>1. steady' = steady /\ pc = "init"
    BY <1>6 DEF InitTransfer, InitCheck
  <2> QED BY <2>1, SteadyReset DEF SteadyInv
<1>7. CASE Commands
  <2>1. steady' \in {0, steady} /\ pc = "idle"
    BY <1>7 DEF Commands, RfidInit, RfidDetect, Led, Verbose, Regdump
  <2> QED BY <2>1, SteadyReset DEF SteadyInv
<1>8. CASE Answer
  BY <1>8, SteadyKept DEF Answer
<1>9. CASE Disturbance \/ TagMoves
  BY <1>9, SteadyReset DEF Disturbance, TagMoves
<1>10. CASE PressKey \/ UNCHANGED vars
  BY <1>10, SteadyKept DEF PressKey, vars
<1> QED BY <1>1, <1>2, <1>3, <1>4, <1>5, <1>6, <1>7, <1>8, <1>9, <1>10 DEF Next, Work

-----------------------------------------------------------------------------
RfidInv == SetupInv /\ Truths /\ Counters /\ Names /\ SteadyInv

LEMMA RfidInvariant == Spec => []RfidInv
<1>1. Init => RfidInv
  <2> SUFFICES ASSUME Init PROVE RfidInv
    OBVIOUS
  <2>1. Truths
    BY DEF Init, Truths
  <2>2. Counters
    BY DEF Init, Counters
  <2>3. Names
    BY DEF Init, Names
  <2>4. SteadyInv
    BY DEF Init, SteadyInv
  <2> QED BY <2>1, <2>2, <2>3, <2>4, SetupInit DEF RfidInv
<1>2. RfidInv /\ [Next]_vars => RfidInv'
  BY SetupStep, TruthsStep, CountersStep, NamesStep, SteadyStep DEF RfidInv
<1> QED BY <1>1, <1>2, PTL DEF Spec

\* The variables of the RFID commands have their types: the polls are never
\* counted below zero.
THEOREM Types == Spec => []TypeOK
<1>1. RfidInv => TypeOK
  BY DEF RfidInv, SetupInv, Truths, Counters, Names, TypeOK
<1> QED BY <1>1, RfidInvariant, PTL

\* rfid_detect, for any length of the tick: an undisturbed search never says
\* "No tag" twice in a row of a tag that stays.
THEOREM FoundInTwoRounds == Spec => []SteadyTagFound
<1>1. RfidInv => SteadyTagFound
  BY DEF RfidInv, SteadyInv, SteadyTagFound
<1> QED BY <1>1, RfidInvariant, PTL

-----------------------------------------------------------------------------
(* The end of a command *)

\* Steps that a command has still to make at most, if a key ends its round.
Left ==
  CASE pc = "init" -> 15 - step
    [] pc = "send" -> 5
    [] pc = "poll" -> 2 + retry_count
    [] pc = "verdict" -> 2
    [] pc = "wait" -> 1
    [] OTHER -> 0

LEMMA RoundRunsDown ==
  ASSUME Counters, step \in 1..9, Len(InitTransfers) = 8,
         Work \/ Fails, key \/ pc # "wait"
  PROVE  Left' < Left
<1> USE DEF Left
<1>1. CASE InitTransfer
  BY <1>1 DEF InitTransfer
<1>2. CASE InitCheck \/ InitTransferFails \/ InitCheckFails
  <2>1. pc = "init" /\ pc' \in {"send", "idle"}
    BY <1>2 DEF InitCheck, InitTransferFails, InitCheckFails, Initialised, StartRounds
  <2> QED BY <2>1
<1>3. CASE Send \/ SendFails
  <2>1. pc = "send" /\ pc' \in {"poll", "verdict"} /\ retry_count' = 2
    BY <1>3 DEF Send, SendFails, NewRound, Polling
  <2> QED BY <2>1
<1>4. CASE Poll \/ PollFails
  <2>1. /\ pc = "poll" /\ pc' \in {"poll", "verdict"} /\ retry_count' = retry_count - 1
        /\ retry_count \in 1..2
    BY <1>4 DEF Poll, PollFails, Polling, Counters
  <2> QED BY <2>1
<1>5. CASE Verdict
  <2>1. pc = "verdict" /\ pc' = "wait"
    BY <1>5 DEF Verdict
  <2> QED BY <2>1
<1>6. CASE Wait \/ WaitFails
  <2>1. pc = "wait" /\ pc' = "idle"
    BY <1>6 DEF Wait, WaitFails, Over
  <2> QED BY <2>1
<1> QED BY <1>1, <1>2, <1>3, <1>4, <1>5, <1>6 DEF Work, Fails

\* A command is never more than fourteen of its own steps from the shell or
\* from the question whether a key was pressed, and a key that is found there
\* ends it: neither the chip, whatever it answers, nor a failing transfer, nor
\* the tag makes it longer (pmod_rfid_cmd_detect_func).
THEOREM SearchRunsDown ==
  Spec => [][/\ Left \in 0..14
             /\ (Work \/ Fails) /\ (key \/ pc # "wait") => Left' < Left
             /\ Answer \/ Disturbance \/ TagMoves \/ PressKey => Left' = Left]_vars
<1> DEFINE Down == /\ Left \in 0..14
                   /\ (Work \/ Fails) /\ (key \/ pc # "wait") => Left' < Left
                   /\ Answer \/ Disturbance \/ TagMoves \/ PressKey => Left' = Left
<1>1. ASSUME Counters, SetupInv, Next PROVE Down
  <2>1. step \in 1..9 /\ Len(InitTransfers) = 8
    <3>1. Len(InitTransfers) = 8
      BY TransferFacts
    <3>2. step \in 1..(Len(InitTransfers) + 1)
      BY <1>1 DEF SetupInv
    <3> QED BY <3>1, <3>2
  <2>2. Left \in 0..14
    <3>1. 15 - step \in 6..14 /\ 2 + retry_count \in 2..4
      BY <1>1, <2>1 DEF Counters
    <3> QED BY <3>1 DEF Left
  <2>3. ASSUME Answer \/ Disturbance \/ TagMoves \/ PressKey PROVE Left' = Left
    <3>1. pc' = pc /\ step' = step /\ retry_count' = retry_count
      BY <2>3 DEF Answer, Disturbance, TagMoves, PressKey, locals
    <3> QED BY <3>1 DEF Left
  <2> QED BY <1>1, <2>1, <2>2, <2>3, RoundRunsDown
<1>2. RfidInv /\ [Next]_vars => [Down]_vars
  BY <1>1 DEF RfidInv
<1> QED BY <1>2, RfidInvariant, PTL DEF Spec
=============================================================================
