------------------------------ MODULE DemoInit ------------------------------
(***************************************************************************)
(* demo/init.c: the Init task brings the demo up while three others run:   *)
(* the service that mounts the SD card and the one that looks after        *)
(* wpa_supplicant (both of libraries), and the LED task.  Afterwards the   *)
(* operator has a shell.  A colour of an LED is the number of its bits     *)
(* red, green, blue.  Any interleaving is allowed; the priorities of the   *)
(* tasks would only exclude some.                                          *)
(***************************************************************************)
EXTENDS Integers

Red == 1
Blue == 4

VARIABLES pc,       \* where Init is
          sd,       \* the card is mounted
          timedOut, \* the wait for it ended without
          led1, led2, som,
          state,    \* of led_task; -1 before it runs
          dhcp, ftp,
          cb,       \* where create_wlandev is, "none" before the first call
          wlan,     \* wlan0
          owned     \* create_wlandev found no wlan0, and since then nobody has
                    \* set one down or destroyed it

leds == <<led1, led2, som>>
net == <<cb, wlan, owned>>
vars == <<pc, sd, timedOut, leds, state, dhcp, ftp, net>>

Stopped == {"halted", "exited"}
Order == <<"buses", "sdcard", "wait", "dhcp", "wpa", "led", "shell">>

Init ==
  /\ pc = "buses" /\ sd = FALSE /\ timedOut = FALSE
  /\ led1 = 0 /\ led2 = 0 /\ som = 0 /\ state = -1
  /\ dhcp = FALSE /\ ftp = FALSE
  /\ cb = "none" /\ wlan = "absent" /\ owned = FALSE

-----------------------------------------------------------------------------
(* Init *)

\* SPI, both I2C buses; then the EEPROM, whose contents are only shown.
RegisterBuses ==
  /\ pc = "buses" /\ pc' = "sdcard"
  /\ UNCHANGED <<sd, timedOut, leds, state, dhcp, ftp, net>>

AssertFails ==
  /\ pc \in {"buses", "led", "shell"} /\ pc' = "halted"
  /\ UNCHANGED <<sd, timedOut, leds, state, dhcp, ftp, net>>

\* The service is started, Init lowers its priority, libbsd comes up.
StartServices ==
  /\ pc = "sdcard" /\ pc' = "wait"
  /\ UNCHANGED <<sd, timedOut, leds, state, dhcp, ftp, net>>

\* Fault: the demo needs its card.
SdTimeout_WaitsOn ==
  /\ pc = "wait" /\ ~sd /\ timedOut' = TRUE
  /\ led1' = Red
  /\ UNCHANGED <<pc, sd, led2, som, state, dhcp, ftp, net>>

SdTimeout ==
  /\ pc = "wait" /\ ~sd /\ timedOut' = TRUE
  /\ led1' = Red /\ pc' = "dhcp"
  /\ UNCHANGED <<sd, led2, som, state, dhcp, ftp, net>>

SdReady ==
  /\ pc = "wait" /\ sd /\ pc' = "dhcp"
  /\ UNCHANGED <<sd, timedOut, leds, state, dhcp, ftp, net>>

StartDhcp ==
  /\ pc = "dhcp" /\ pc' = "wpa"
  /\ dhcp' = TRUE /\ led2' = Blue
  /\ UNCHANGED <<sd, timedOut, led1, som, state, ftp, net>>

\* With or without the card that has the configuration.
StartWpa ==
  /\ pc = "wpa" /\ pc' = "led"
  /\ cb' = "done"
  /\ UNCHANGED <<sd, timedOut, leds, state, dhcp, ftp, wlan, owned>>

StartLed ==
  /\ pc = "led" /\ pc' = "shell"
  /\ state' = 0
  /\ UNCHANGED <<sd, timedOut, leds, dhcp, ftp, net>>

\* rtems_shell_init waits for the end of the shell.
StartShell ==
  /\ pc = "shell" /\ pc' = "prompt"
  /\ UNCHANGED <<sd, timedOut, leds, state, dhcp, ftp, net>>

-----------------------------------------------------------------------------
(* The other tasks *)

Mount ==
  /\ pc \notin Stopped \cup {"buses", "sdcard"}
  /\ ~sd /\ sd' = TRUE
  /\ UNCHANGED <<pc, timedOut, leds, state, dhcp, ftp, net>>

\* Fault: the counter is not cut to the bits of the colours.
led_task_NoMask ==
  /\ pc \notin Stopped /\ state >= 0
  /\ led1' = state /\ led2' = state + 1
  /\ som' = (state + 1) % 2 /\ state' = (state + 1) % 8
  /\ UNCHANGED <<pc, sd, timedOut, dhcp, ftp, net>>

\* The second LED and the one of the module are one state ahead.
led_task ==
  /\ pc \notin Stopped /\ state >= 0
  /\ led1' = state /\ led2' = (state + 1) % 8
  /\ som' = (state + 1) % 2 /\ state' = (state + 1) % 8
  /\ UNCHANGED <<pc, sd, timedOut, dhcp, ftp, net>>

Callback(from) == pc \notin Stopped /\ cb = from
Others == <<pc, sd, timedOut, leds, state, dhcp, ftp>>

\* libgrisp calls create_wlandev, once or again.
CallCreate ==
  /\ Callback("done") /\ cb' = "check"
  /\ UNCHANGED <<Others, wlan, owned>>

\* An interface that exists is left as it is.
Check ==
  /\ Callback("check")
  /\ IF wlan = "absent" THEN cb' = "create" /\ owned' = TRUE ELSE cb' = "done" /\ UNCHANGED owned
  /\ UNCHANGED <<Others, wlan>>

\* Fault: a creation that fails ends the call.
Create_FailureReturns ==
  /\ Callback("create")
  /\ IF wlan = "absent" THEN wlan' = "down" /\ cb' = "up" ELSE cb' = "done" /\ UNCHANGED wlan
  /\ UNCHANGED <<Others, owned>>

\* wlan0 may have appeared since the check; then ifconfig fails, and the message
\* is all that comes of it.
Create ==
  /\ Callback("create") /\ cb' = "up"
  /\ wlan' = IF wlan = "absent" THEN "down" ELSE wlan
  /\ UNCHANGED <<Others, owned>>

CreateFails ==
  /\ Callback("create") /\ cb' = "up"
  /\ UNCHANGED <<Others, wlan, owned>>

\* A wlan0 that is missing cannot be set up.
Up ==
  /\ Callback("up") /\ cb' = "done"
  /\ wlan' = IF wlan = "absent" THEN "absent" ELSE "up"
  /\ owned' = (owned /\ wlan # "absent")
  /\ UNCHANGED Others

UpFails ==
  /\ Callback("up") /\ cb' = "done"
  /\ owned' = (owned /\ wlan = "up")
  /\ UNCHANGED <<Others, wlan>>

-----------------------------------------------------------------------------
(* The operator *)

\* ifconfig wlan0 create, destroy, up or down
Ifconfig ==
  /\ pc = "prompt"
  /\ wlan' \in {"absent", "down", "up"} \ {wlan}
  /\ owned' = (owned /\ (wlan = "absent" \/ wlan' = "up"))
  /\ UNCHANGED <<Others, cb>>

StartFtp ==
  /\ pc = "prompt"
  /\ ftp' \in {ftp, TRUE}
  /\ UNCHANGED <<pc, sd, timedOut, leds, state, dhcp, net>>

Exit ==
  /\ pc = "prompt" /\ pc' = "exited"
  /\ UNCHANGED <<sd, timedOut, leds, state, dhcp, ftp, net>>

-----------------------------------------------------------------------------
InitTask ==
  \/ RegisterBuses \/ StartServices \/ SdTimeout \/ SdReady
  \/ StartDhcp \/ StartWpa \/ StartLed \/ StartShell

WlanTask == CallCreate \/ Check \/ Create \/ CreateFails \/ Up \/ UpFails

Next ==
  \/ InitTask \/ AssertFails \/ Mount \/ led_task \/ WlanTask
  \/ Ifconfig \/ StartFtp \/ Exit

Spec == Init /\ [][Next]_vars

\* The waits of Init end, and no task it starts keeps the processor.
FairSpec == Spec /\ WF_vars(InitTask)

-----------------------------------------------------------------------------
TypeOK ==
  /\ pc \in {Order[n] : n \in 1..7} \cup {"prompt"} \cup Stopped
  /\ sd \in BOOLEAN /\ timedOut \in BOOLEAN
  /\ led1 \in 0..7 /\ led2 \in 0..7 /\ som \in 0..1 /\ state \in -1..7
  /\ dhcp \in BOOLEAN /\ ftp \in BOOLEAN
  /\ cb \in {"none", "done", "check", "create", "up"}
  /\ wlan \in {"absent", "down", "up"} /\ owned \in BOOLEAN

(* Until the LED task takes it over, the first LED says whether the card    *)
(* was there in time, whatever else comes up meanwhile.                     *)
SdReported == state = -1 => (led1 = Red <=> timedOut)

\* The wlan0 that a call of create_wlandev found missing, once it has returned.
WlanInv ==
  /\ pc \in {"buses", "sdcard", "wait", "dhcp", "wpa"} => cb = "none"
  /\ owned => cb \in {"create", "up"} \/ wlan = "up"

(* What the start-up keeps true at every step: the LED task is the only one *)
(* that takes the first LED from the card's report, and until wpa_supplicant *)
(* is started nobody calls create_wlandev.                                  *)
StartInv == TypeOK /\ SdReported /\ WlanInv

(* A wlan0 that create_wlandev found missing is up when it has returned,    *)
(* also when the creation failed because another ifconfig was first, and    *)
(* stays so; unless it could not be set up, or the operator set it down or  *)
(* destroyed it.                                                            *)
WlanUp == owned /\ cb = "done" => wlan = "up"

(* The demo reaches its shell without a card, without a network and with an *)
(* invalid EEPROM; only a failed assertion keeps it from there.             *)
ShellComes == <>(pc \in {"prompt"} \cup Stopped)
=============================================================================
