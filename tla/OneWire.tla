------------------------------ MODULE OneWire -------------------------------
(***************************************************************************)
(* demo/1wire.c: the command 1wiretemp reads the scratchpad of a MAX31820  *)
(* through a DS2482 on the I2C bus.  The DS2482 refuses a command of the   *)
(* 1-wire bus while it is busy with another, but lets its data register be *)
(* read at any time.  The code never asks whether it is busy; it sleeps.   *)
(* Byte k of the scratchpad is the number k, a line nobody drives is Ones. *)
(***************************************************************************)
EXTENDS Integers, Sequences, Clock

Ones == 0
Lost == -1       \* the sensor waits for a reset
AfterReset == -2 \* the sensor waits for a ROM command
Selected == -3   \* the sensor waits for a function command

VARIABLES busy,        \* the operation the DS2482 is at
          data,        \* its data register
          connected,   \* the sensor is there
          place,       \* what the sensor waits for, or bytes it has sent
          pc, k, ok, scratchpad,
          out,         \* what the command printed
          late,        \* bytes that were fetched while the DS2482 was busy
          stayed,      \* the sensor was connected since the call
          fault        \* a transfer of this call, or open, failed

master == <<busy, data>>
sensor == <<connected, place>>
locals == <<pc, k, ok, scratchpad, out>>
history == <<late, stayed, fault>>
vars == <<master, sensor, locals, history>>

\* The operations of the 1-wire bus, in the order of read_MAX31820.
Operation(n) == CASE n = 1 -> "reset" [] n = 2 -> "CC" [] n = 3 -> "BE" [] OTHER -> "read"
Size == 9

\* Fault: one byte beyond the end of the array.
Last_OneMore == 4 + Size

\* The operation that reads the last byte
Last == 3 + Size

Init ==
  /\ busy = "none" /\ data \in {Ones, 5}
  /\ connected \in BOOLEAN /\ place = Lost
  /\ pc = "idle" /\ k = 1 /\ ok = FALSE /\ scratchpad = <<>> /\ out = "none"
  /\ late = {} /\ stayed = FALSE /\ fault = FALSE

-----------------------------------------------------------------------------
(* The DS2482 and the sensor *)

Sending == place \in 0..(Size - 1)

Complete ==
  /\ busy # "none" /\ busy' = "none"
  /\ place' = IF ~connected THEN Lost ELSE
                CASE busy = "reset" -> AfterReset
                  [] busy = "CC" /\ place = AfterReset -> Selected
                  [] busy = "BE" /\ place = Selected -> 0
                  [] busy = "read" /\ Sending -> place + 1
                  [] OTHER -> Lost
  /\ data' = IF busy # "read" THEN data ELSE IF connected /\ Sending THEN place + 1 ELSE Ones
  /\ UNCHANGED <<connected, locals, history>>

Plug ==
  /\ connected' = ~connected /\ place' = Lost /\ stayed' = FALSE
  /\ UNCHANGED <<master, locals, late, fault>>

-----------------------------------------------------------------------------
(* read_MAX31820 *)

Fails == ok' = FALSE /\ pc' = "print" /\ fault' = TRUE

\* A bus that was opened leaves ok as it was on the stack.
Open ==
  /\ pc = "idle"
  /\ k' = 1 /\ scratchpad' = <<>> /\ out' = "none"
  /\ late' = {} /\ stayed' = connected
  /\ \/ ok' \in BOOLEAN /\ pc' = (IF ok' THEN "master" ELSE "print") /\ fault' = FALSE
     \/ Fails
  /\ UNCHANGED <<master, sensor>>

\* ds2482_master_reset ends what the DS2482 was at.
MasterReset ==
  /\ pc = "master"
  /\ busy' = "none" /\ place' = IF busy = "none" THEN place ELSE Lost
  /\ pc' = "config"
  /\ UNCHANGED <<data, connected, k, ok, scratchpad, out, history>>

MasterResetFails ==
  /\ pc = "master"
  /\ busy' \in {busy, "none"} /\ place' = IF busy' = busy THEN place ELSE Lost
  /\ Fails
  /\ UNCHANGED <<data, connected, k, scratchpad, out, late, stayed>>

\* ds2482_master_set_config, of a master that was just reset
SetConfig ==
  /\ pc = "config" /\ pc' = "issue"
  /\ UNCHANGED <<master, sensor, k, ok, scratchpad, out, history>>

SetConfigFails ==
  /\ pc = "config" /\ Fails
  /\ UNCHANGED <<master, sensor, k, scratchpad, out, late, stayed>>

\* The first transfer of 1wire_reset, write_byte and read_byte.
Issue ==
  /\ pc = "issue" /\ busy = "none"
  /\ busy' = Operation(k) /\ pc' = "sleep"
  /\ UNCHANGED <<data, sensor, k, ok, scratchpad, out, history>>

\* Fault: only the second transfer of read_byte is checked.
IssueRefused_Ignored ==
  /\ pc = "issue" /\ busy # "none"
  /\ IF Operation(k) = "read" THEN pc' = "sleep" /\ UNCHANGED ok ELSE pc' = "print" /\ ok' = FALSE
  /\ UNCHANGED <<master, sensor, k, scratchpad, out, history>>

\* The DS2482 does not acknowledge while it is busy.
IssueRefused ==
  /\ pc = "issue" /\ busy # "none"
  /\ ok' = FALSE /\ pc' = "print"
  /\ UNCHANGED <<master, sensor, k, scratchpad, out, history>>

IssueFails ==
  /\ pc = "issue"
  /\ busy' \in (IF busy = "none" THEN {"none", Operation(k)} ELSE {busy})
  /\ Fails
  /\ UNCHANGED <<data, sensor, k, scratchpad, out, late, stayed>>

\* A reset of the 1-wire bus takes longest, a little more than 1 ms.
Settled == Slept(10, 1) >= 2 => busy = "none"

\* Fault: the wait lasts until the master is ready, however long.
Wake_Polls ==
  /\ pc = "sleep" /\ busy = "none"
  /\ IF Operation(k) = "read" THEN pc' = "fetch" /\ UNCHANGED k ELSE pc' = "issue" /\ k' = k + 1
  /\ UNCHANGED <<master, sensor, ok, scratchpad, out, history>>

\* The status that is read after a reset is printed, never looked at.
Wake ==
  /\ pc = "sleep" /\ Settled
  /\ IF Operation(k) = "read" THEN pc' = "fetch" /\ UNCHANGED k ELSE pc' = "issue" /\ k' = k + 1
  /\ UNCHANGED <<master, sensor, ok, scratchpad, out, history>>

\* The second half of read_byte.
Fetch ==
  /\ pc = "fetch"
  /\ scratchpad' = Append(scratchpad, data)
  /\ late' = IF busy = "none" THEN late ELSE late \cup {Len(scratchpad')}
  /\ IF k = Last THEN pc' = "print" /\ UNCHANGED k ELSE pc' = "issue" /\ k' = k + 1
  /\ UNCHANGED <<master, sensor, ok, out, stayed, fault>>

\* Fault: the status of the second transfer is lost.
FetchFails_Unnoticed ==
  /\ pc = "fetch" /\ fault' = TRUE
  /\ scratchpad' = Append(scratchpad, Ones)
  /\ IF k = Last THEN pc' = "print" /\ UNCHANGED k ELSE pc' = "issue" /\ k' = k + 1
  /\ UNCHANGED <<master, sensor, ok, out, late, stayed>>

FetchFails ==
  /\ pc = "fetch" /\ Fails
  /\ UNCHANGED <<master, sensor, k, scratchpad, out, late, stayed>>

PrintResult ==
  /\ pc = "print"
  /\ out' = IF ok THEN "scratchpad" ELSE "wrong"
  /\ pc' = "idle"
  /\ UNCHANGED <<master, sensor, k, ok, scratchpad, history>>

-----------------------------------------------------------------------------
Work == MasterReset \/ SetConfig \/ Issue \/ IssueRefused \/ Wake \/ Fetch \/ PrintResult

TransferFails == MasterResetFails \/ SetConfigFails \/ IssueFails \/ FetchFails

Next == Open \/ Work \/ TransferFails \/ Complete \/ Plug

Spec == Init /\ [][Next]_vars

\* The command runs on; the DS2482 need not.
FairSpec == Spec /\ WF_vars(Work)

-----------------------------------------------------------------------------
TypeOK ==
  /\ busy \in {"none", "reset", "CC", "BE", "read"} /\ data \in Ones..Size
  /\ connected \in BOOLEAN /\ place \in Selected..Size
  /\ pc \in {"idle", "master", "config", "issue", "sleep", "fetch", "print"}
  /\ k \in 1..Last /\ ok \in BOOLEAN /\ out \in {"none", "scratchpad", "wrong"}
  /\ scratchpad \in Seq(Ones..Size) /\ Len(scratchpad) <= Size
  /\ late \subseteq 1..Size /\ stayed \in BOOLEAN /\ fault \in BOOLEAN

(* A byte that was not fetched too early is the one of its place, or the    *)
(* sensor has not sent it; it is never the byte of another place, whatever  *)
(* calls before this one were given up half-way.                            *)
InOrder ==
  \A i \in DOMAIN scratchpad : i \notin late => scratchpad[i] \in {i, Ones}

(* With a sensor that stays connected the only wrong bytes that are printed *)
(* are those that were fetched before they had arrived: one sleep that was  *)
(* too short spoils its byte and none of the others.                        *)
OnlyLateBytesWrong ==
  out = "scratchpad" /\ stayed => \A i \in 1..Size : i \notin late => scratchpad[i] = i

(* A scratchpad is printed whole, and only when no transfer has failed.     *)
ErrorsShown == out = "scratchpad" => ~fault /\ Len(scratchpad) = Size

(* 1wire.c:314, "returns the scratchpad of a max31820 connected via 1wire": *)
(* what is printed is the scratchpad of a sensor that stays connected.      *)
TrueScratchpad ==
  out = "scratchpad" /\ stayed => scratchpad = [i \in 1..Size |-> i]

(* The command ends even if the DS2482 stays busy for ever.                 *)
Returns == pc # "idle" ~> pc = "idle"
=============================================================================
