---------------------------- MODULE DemoInitProofs ----------------------------
(***************************************************************************)
(* Init of the demo in every interleaving with the tasks it starts: the    *)
(* report of a missing card, and the wlan0 that create_wlandev makes.      *)
(***************************************************************************)
EXTENDS DemoInit, TLAPS

\* Where Init can be, its places spelt out.
LEMMA Places ==
  {Order[n] : n \in 1..7} = {"buses", "sdcard", "wait", "dhcp", "wpa", "led", "shell"}
<1>1. \A n \in 1..7 : n = 1 \/ n = 2 \/ n = 3 \/ n = 4 \/ n = 5 \/ n = 6 \/ n = 7
  OBVIOUS
<1>2. /\ Order[1] = "buses" /\ Order[2] = "sdcard" /\ Order[3] = "wait"
      /\ Order[4] = "dhcp" /\ Order[5] = "wpa" /\ Order[6] = "led"
      /\ Order[7] = "shell"
  BY DEF Order
<1> QED BY <1>1, <1>2

LEMMA DemoStarts == Init => StartInv
<1> SUFFICES ASSUME Init PROVE StartInv
  OBVIOUS
<1>1. TypeOK
  <2>1. pc \in {Order[n] : n \in 1..7}
    BY Places DEF Init
  <2>2. led1 \in 0..7 /\ led2 \in 0..7 /\ som \in 0..1 /\ state \in -1..7
    BY DEF Init
  <2>3. sd \in BOOLEAN /\ timedOut \in BOOLEAN /\ dhcp \in BOOLEAN /\ ftp \in BOOLEAN /\ owned \in BOOLEAN
    BY DEF Init
  <2>4. cb \in {"none", "done", "check", "create", "up"} /\ wlan \in {"absent", "down", "up"}
    BY DEF Init
  <2> QED BY <2>1, <2>2, <2>3, <2>4 DEF TypeOK
<1>2. SdReported /\ WlanInv
  BY DEF Init, SdReported, WlanInv, Red
<1> QED BY <1>1, <1>2 DEF StartInv

\* Init gives the first LED its colour when the wait for the card is over, and
\* leaves wlan0 to create_wlandev.
LEMMA InitTaskStep == ASSUME StartInv, InitTask PROVE StartInv'
<1> USE DEF StartInv, leds, net
<1>1. CASE RegisterBuses \/ StartServices \/ SdReady
  <2> USE <1>1 DEF RegisterBuses, StartServices, SdReady
  <2>1. TypeOK'
    BY Places DEF TypeOK, Stopped
  <2>2. SdReported' /\ WlanInv'
    BY DEF SdReported, WlanInv
  <2> QED BY <2>1, <2>2
<1>2. CASE SdTimeout
  <2> USE <1>2 DEF SdTimeout
  <2>1. TypeOK'
    BY Places DEF TypeOK, Stopped, Red
  <2>2. SdReported' /\ WlanInv'
    BY DEF SdReported, WlanInv
  <2> QED BY <2>1, <2>2
<1>3. CASE StartDhcp
  <2> USE <1>3 DEF StartDhcp
  <2>1. TypeOK'
    BY Places DEF TypeOK, Stopped, Blue
  <2>2. SdReported' /\ WlanInv'
    BY DEF SdReported, WlanInv
  <2> QED BY <2>1, <2>2
<1>4. CASE StartWpa
  <2> USE <1>4 DEF StartWpa
  <2>1. TypeOK'
    BY Places DEF TypeOK, Stopped
  <2>2. SdReported'
    BY DEF SdReported
  <2>3. owned => wlan = "up"
    BY DEF WlanInv
  <2>4. WlanInv'
    BY <2>3 DEF WlanInv
  <2> QED BY <2>1, <2>2, <2>4
<1>5. CASE StartLed \/ StartShell
  <2> USE <1>5 DEF StartLed, StartShell
  <2>1. TypeOK'
    BY Places DEF TypeOK, Stopped
  <2>2. SdReported' /\ WlanInv'
    BY DEF SdReported, WlanInv
  <2> QED BY <2>1, <2>2
<1> QED BY <1>1, <1>2, <1>3, <1>4, <1>5 DEF InitTask

\* A call of create_wlandev that found no wlan0 sets one up, its own or that of
\* another ifconfig, or it gives up its claim.
LEMMA WlanStep == ASSUME StartInv, WlanTask PROVE StartInv'
<1>1. /\ cb \in {"done", "check", "create", "up"} /\ cb' \in {"done", "check", "create", "up"}
      /\ wlan' \in {"absent", "down", "up"} /\ owned' \in BOOLEAN
      /\ UNCHANGED <<pc, sd, timedOut, led1, led2, som, state, dhcp, ftp>>
  BY DEF StartInv, TypeOK, WlanTask, CallCreate, Check, Create,
         CreateFails, Up, UpFails, Callback, Others, leds
<1>2. TypeOK' /\ SdReported'
  BY <1>1 DEF StartInv, TypeOK, SdReported
<1>3. WlanInv'
  <2>1. pc' \in {"buses", "sdcard", "wait", "dhcp", "wpa"} => FALSE
    BY <1>1 DEF StartInv, WlanInv
  <2>2. owned' => cb' \in {"create", "up"} \/ wlan' = "up"
    BY DEF StartInv, TypeOK, WlanInv, WlanTask, CallCreate, Check,
           Create, CreateFails, Up, UpFails, Callback, Others
  <2> QED BY <2>1, <2>2 DEF WlanInv
<1> QED BY <1>2, <1>3 DEF StartInv

\* The LED task, the card, the operator and a failed assertion.
LEMMA OtherStep ==
  ASSUME StartInv,
         \/ AssertFails \/ Mount \/ led_task
         \/ Ifconfig \/ StartFtp \/ Exit
  PROVE  StartInv'
<1> USE DEF StartInv, leds, net
<1>1. CASE AssertFails \/ Exit
  <2> USE <1>1 DEF AssertFails, Exit
  <2>1. TypeOK'
    BY Places DEF TypeOK, Stopped
  <2>2. SdReported' /\ WlanInv'
    BY DEF SdReported, WlanInv
  <2> QED BY <2>1, <2>2
<1>2. CASE Mount \/ StartFtp
  <2>1. UNCHANGED <<pc, timedOut, led1, led2, som, state, dhcp, cb, wlan, owned>>
    BY <1>2 DEF Mount, StartFtp
  <2>2. sd' \in BOOLEAN /\ ftp' \in BOOLEAN
    BY <1>2 DEF Mount, StartFtp, TypeOK
  <2>3. TypeOK'
    BY <2>1, <2>2 DEF TypeOK
  <2>4. SdReported' /\ WlanInv'
    BY <2>1 DEF SdReported, WlanInv
  <2> QED BY <2>3, <2>4
<1>3. CASE led_task
  <2>1. state \in 0..7 /\ UNCHANGED <<pc, sd, timedOut, dhcp, ftp, cb, wlan, owned>>
    BY <1>3 DEF led_task, TypeOK
  <2>2. led1' \in 0..7 /\ led2' \in 0..7 /\ som' \in 0..1 /\ state' \in 0..7
    BY <1>3, <2>1 DEF led_task
  <2>3. TypeOK'
    BY <2>1, <2>2 DEF TypeOK
  <2>4. SdReported' /\ WlanInv'
    BY <2>1, <2>2 DEF SdReported, WlanInv
  <2> QED BY <2>3, <2>4
<1>4. CASE Ifconfig
  <2>1. wlan' \in {"absent", "down", "up"} /\ owned' = (owned /\ (wlan = "absent" \/ wlan' = "up"))
        /\ UNCHANGED <<pc, sd, timedOut, led1, led2, som, state, dhcp, ftp, cb>>
    BY <1>4 DEF Ifconfig, Others
  <2>2. owned' \in BOOLEAN
    BY <2>1
  <2>3. TypeOK'
    BY <2>1, <2>2 DEF TypeOK
  <2>4. owned' => cb' \in {"create", "up"} \/ wlan' = "up"
    BY <2>1 DEF WlanInv
  <2>5. SdReported' /\ WlanInv'
    BY <2>1, <2>4 DEF SdReported, WlanInv
  <2> QED BY <2>3, <2>5
<1> QED BY <1>1, <1>2, <1>3, <1>4

LEMMA DemoStutter == ASSUME StartInv, UNCHANGED vars PROVE StartInv'
<1> USE DEF StartInv, vars, leds, net
<1>1. TypeOK'
  BY DEF TypeOK
<1>2. SdReported' /\ WlanInv'
  BY DEF SdReported, WlanInv
<1> QED BY <1>1, <1>2

\* The inductive invariant of the start-up: types, the report of the card and
\* how far the wlan0 of create_wlandev has come (demo/init.c, Init, led_task,
\* create_wlandev).
THEOREM DemoCorrect == Spec => []StartInv
<1>1. StartInv /\ [Next]_vars => StartInv'
  BY InitTaskStep, WlanStep, OtherStep, DemoStutter DEF Next
<1> QED BY DemoStarts, <1>1, PTL DEF Spec

\* A wlan0 that create_wlandev found missing is up when it returns, whoever has
\* created it in between, and stays up however often it is called again, until
\* somebody sets it down or destroys it; only an ifconfig up that fails or finds
\* none keeps it from there (demo/init.c:120-162).
THEOREM CreatedWlanIsUp == Spec => []WlanUp
<1>1. StartInv => WlanUp
  BY DEF StartInv, WlanInv, WlanUp
<1> QED BY <1>1, DemoCorrect, PTL

\* Steps that Init has still to make.
Left ==
  CASE pc = "buses" -> 7 [] pc = "sdcard" -> 6 [] pc = "wait" -> 5 [] pc = "dhcp" -> 4
    [] pc = "wpa" -> 3 [] pc = "led" -> 2 [] pc = "shell" -> 1 [] OTHER -> 0

\* Init is seven steps from its shell, with a card or without, and none of the
\* tasks it has started, nor wpa_supplicant, adds one or takes it back; only
\* a failed assertion ends it before (demo/init.c, Init).
THEOREM ShellRunsDown ==
  Spec => [][/\ Left \in 0..7
             /\ InitTask => Left' = Left - 1
             /\ ~(InitTask \/ AssertFails) => Left' = Left]_vars
<1> DEFINE Down == /\ Left \in 0..7
                   /\ InitTask => Left' = Left - 1
                   /\ ~(InitTask \/ AssertFails) => Left' = Left
<1>1. ASSUME StartInv, Next PROVE Down
  <2>1. Left \in 0..7
    BY DEF Left
  <2>2. ASSUME InitTask PROVE Left' = Left - 1
    BY <2>2
       DEF InitTask, RegisterBuses, StartServices, SdTimeout, SdReady, StartDhcp, StartWpa,
           StartLed, StartShell, Left
  <2>3. ASSUME ~(InitTask \/ AssertFails), ~Exit PROVE Left' = Left
    <3>1. pc' = pc
      BY <1>1, <2>3
         DEF Next, Mount, led_task, WlanTask, CallCreate, Check, Create, CreateFails, Up,
             UpFails, Others, Ifconfig, StartFtp
    <3> QED BY <3>1 DEF Left
  <2>4. ASSUME Exit PROVE Left' = Left
    BY <2>4 DEF Exit, Left
  <2> QED BY <2>1, <2>2, <2>3, <2>4
<1>2. StartInv /\ [Next]_vars => [Down]_vars
  BY <1>1
<1> QED BY <1>2, DemoCorrect, PTL DEF Spec
=============================================================================
