---------------------------- MODULE OneWireProofs ----------------------------
(* What 1wiretemp prints, for any length of the tick: the bytes are in      *)
(* their places, whole, and wrong only where they were fetched too early;   *)
(* and with a tick that makes the sleeps long enough they are all right.    *)
EXTENDS OneWire, SequenceTheorems, TLAPS

\* Operations that were issued since the reset of the master.
Issued == IF pc = "issue" THEN k - 1 ELSE k

\* Where a sensor is that has taken part in n operations.
After(n) == IF n = 1 THEN AfterReset ELSE IF n = 2 THEN Selected ELSE n - 3

\* A sensor that was away has lost its place; its line reads as Ones.
Places(n) == IF stayed THEN {After(n)} ELSE {After(n), Lost}
Values(i) == IF stayed THEN {i} ELSE {i, Ones}

OnBus == pc \in {"issue", "sleep", "fetch"}

\* The sensor is where the operations of this call have brought it, and the
\* data register holds what it has sent last.
BusInv ==
  /\ stayed => connected
  /\ pc = "config" => busy = "none"
  /\ OnBus =>
       IF busy = "none"
       THEN /\ Issued >= 1 => place \in Places(Issued)
            /\ Issued >= 4 => data \in Values(Issued - 3)
       ELSE /\ Issued >= 1 /\ busy = Operation(Issued)
            /\ Issued >= 2 => place \in Places(Issued - 1)

\* The bytes that were fetched, and those of them that were in time.
PadInv ==
  /\ pc \in {"master", "config"} => k = 1
  /\ pc = "fetch" => k >= 4
  /\ pc \in {"master", "config"} \/ OnBus =>
       Len(scratchpad) = IF k < 4 THEN 0 ELSE k - 4
  /\ \A i \in DOMAIN scratchpad : i \notin late => scratchpad[i] \in Values(i)

\* What is printed is whole, and no transfer has failed before it.
PrintInv ==
  /\ pc \in {"master", "config"} \/ OnBus => ok /\ ~fault
  /\ pc = "print" /\ ok => ~fault /\ Len(scratchpad) = Size
  /\ out = "scratchpad" => pc = "idle" /\ ~fault /\ Len(scratchpad) = Size

WireInv == TypeOK /\ BusInv /\ PadInv /\ PrintInv

\* Before the first call there is nothing to hold.
LEMMA WireInit == Init => WireInv
<1> SUFFICES ASSUME Init PROVE WireInv
  OBVIOUS
<1> USE DEF Init, Ones, Lost, Size, Last, Selected, AfterReset
<1>1. TypeOK
  <2>1. scratchpad \in Seq(Ones..Size) /\ Len(scratchpad) <= Size
    OBVIOUS
  <2>2. /\ busy \in {"none", "reset", "CC", "BE", "read"} /\ data \in Ones..Size
        /\ place \in Selected..Size /\ k \in 1..Last
    OBVIOUS
  <2>3. /\ connected \in BOOLEAN /\ ok \in BOOLEAN /\ stayed \in BOOLEAN /\ fault \in BOOLEAN
        /\ pc \in {"idle", "master", "config", "issue", "sleep", "fetch", "print"}
        /\ out \in {"none", "scratchpad", "wrong"} /\ late \subseteq 1..Size
    OBVIOUS
  <2> QED BY <2>1, <2>2, <2>3 DEF TypeOK
<1>2. BusInv
  BY DEF BusInv, OnBus
<1>3. PadInv
  BY DEF PadInv, OnBus
<1>4. PrintInv
  BY DEF PrintInv, OnBus
<1> QED BY <1>1, <1>2, <1>3, <1>4 DEF WireInv

\* The operations are four, and only the last is repeated.
LEMMA Operations ==
  /\ Operation(1) = "reset" /\ Operation(2) = "CC" /\ Operation(3) = "BE"
  /\ \A n \in 1..Last : n >= 4 <=> Operation(n) = "read"
  /\ \A n \in 1..Last : Operation(n) \in {"reset", "CC", "BE", "read"}
  BY DEF Operation, Last, Size

\* The types are kept by every step.
LEMMA TypeStep == ASSUME TypeOK, PadInv, [Next]_vars PROVE TypeOK'
<1> USE DEF master, sensor, locals, history, Ones, Lost, Size, Last, Selected, AfterReset, Fails
<1>1. CASE Open
  <2>1. scratchpad' \in Seq(Ones..Size) /\ Len(scratchpad') <= Size
    BY <1>1 DEF Open
  <2>2. /\ busy' \in {"none", "reset", "CC", "BE", "read"} /\ data' \in Ones..Size
        /\ place' \in Selected..Size /\ k' \in 1..Last
    BY <1>1 DEF Open, TypeOK
  <2>3. /\ connected' \in BOOLEAN /\ ok' \in BOOLEAN /\ stayed' \in BOOLEAN /\ fault' \in BOOLEAN
        /\ pc' \in {"idle", "master", "config", "issue", "sleep", "fetch", "print"}
        /\ out' \in {"none", "scratchpad", "wrong"} /\ late' \subseteq 1..Size
    BY <1>1 DEF Open, TypeOK
  <2> QED BY <2>1, <2>2, <2>3 DEF TypeOK
<1>2. CASE MasterReset \/ MasterResetFails
  <2>1. place' \in Selected..Size /\ busy' \in {"none", "reset", "CC", "BE", "read"}
    <3>1. CASE MasterReset
      BY <3>1 DEF MasterReset, TypeOK
    <3>2. CASE MasterResetFails
      BY <3>2 DEF MasterResetFails, TypeOK
    <3> QED BY <1>2, <3>1, <3>2
  <2>2. pc' \in {"config", "print"} /\ ok' \in BOOLEAN /\ fault' \in BOOLEAN
    BY <1>2 DEF MasterReset, MasterResetFails, TypeOK
  <2>3. UNCHANGED <<data, connected, k, scratchpad, out, late, stayed>>
    BY <1>2 DEF MasterReset, MasterResetFails
  <2> QED BY <2>1, <2>2, <2>3 DEF TypeOK
<1>3. CASE SetConfig \/ SetConfigFails \/ IssueRefused \/ FetchFails \/ Issue \/ IssueFails \/ PrintResult
  <2>1. busy' \in {"none", "reset", "CC", "BE", "read"}
    BY <1>3, Operations DEF SetConfig, SetConfigFails, IssueRefused, FetchFails, Issue, IssueFails, PrintResult, TypeOK
  <2>2. pc' \in {"idle", "issue", "sleep", "print"} /\ ok' \in BOOLEAN /\ fault' \in BOOLEAN /\ out' \in {"none", "scratchpad", "wrong"}
    BY <1>3 DEF SetConfig, SetConfigFails, IssueRefused, FetchFails, Issue, IssueFails, PrintResult, TypeOK
  <2>3. UNCHANGED <<data, place, connected, k, scratchpad, late, stayed>>
    BY <1>3 DEF SetConfig, SetConfigFails, IssueRefused, FetchFails, Issue, IssueFails, PrintResult
  <2> QED BY <2>1, <2>2, <2>3 DEF TypeOK
<1>8. CASE Plug
  <2>1. connected' \in BOOLEAN /\ stayed' \in BOOLEAN
    BY <1>8 DEF Plug
  <2>2. place' \in Selected..Size /\ UNCHANGED <<busy, data, pc, k, ok, scratchpad, out, late, fault>>
    BY <1>8 DEF Plug
  <2> QED BY <2>1, <2>2 DEF TypeOK
<1>4. CASE Wake
  BY <1>4, Operations DEF TypeOK, Wake
<1>5. CASE Fetch
  <2>1. k \in 4..Last /\ Len(scratchpad) = k - 4
    BY <1>5 DEF Fetch, TypeOK, PadInv, OnBus
  <2>2. scratchpad' \in Seq(Ones..Size) /\ Len(scratchpad') = k - 3
    BY <1>5, <2>1 DEF Fetch, TypeOK
  <2>3. Len(scratchpad') \in 1..Size
    BY <2>1, <2>2
  <2>4. late' \subseteq 1..Size
    BY <1>5, <2>3 DEF Fetch, TypeOK
  <2>5. k' \in 1..Last
    <3>1. IF k = Last THEN k' = k ELSE k' = k + 1
      BY <1>5 DEF Fetch
    <3> QED BY <2>1, <3>1 DEF Last, Size
  <2>6. pc' \in {"print", "issue"} /\ UNCHANGED <<busy, data, connected, place, ok, out, stayed, fault>>
    BY <1>5 DEF Fetch
  <2> QED BY <2>2, <2>3, <2>4, <2>5, <2>6 DEF TypeOK
<1>6. CASE Complete
  <2>1. UNCHANGED <<connected, pc, k, ok, scratchpad, out, late, stayed, fault>> /\ busy' = "none"
    BY <1>6 DEF Complete
  <2>2. place' \in Selected..Size /\ data' \in Ones..Size
    BY <1>6 DEF Complete, TypeOK, Sending
  <2> QED BY <2>1, <2>2 DEF TypeOK
<1>7. CASE UNCHANGED vars
  BY <1>7 DEF TypeOK, vars
<1> QED BY <1>1, <1>2, <1>3, <1>4, <1>5, <1>6, <1>7, <1>8 DEF Next, Work, TransferFails

\* When an operation ends the sensor has taken part in one more.
LEMMA CompleteKeepsBus ==
  ASSUME TypeOK, BusInv, Complete, OnBus
  PROVE  /\ place' \in Places(Issued)
         /\ Issued >= 4 => data' \in Values(Issued - 3)
<1> USE DEF Ones, Lost, Size, Last, Selected, AfterReset
<1> DEFINE n == Issued
<1>1. n \in 1..Last /\ busy = Operation(n)
  BY DEF BusInv, Complete, TypeOK, Issued, OnBus
<1>2. n >= 2 => place = After(n - 1) \/ (place = Lost /\ ~stayed)
  BY DEF BusInv, Complete, Places
<1>3. stayed => connected
  BY DEF BusInv
<1>4. CASE ~connected
  <2> HIDE DEF Lost, Ones, AfterReset, Selected
  <2>1. place' = Lost /\ (busy = "read" => data' = Ones)
    BY <1>4 DEF Complete
  <2>2. ~stayed
    BY <1>3, <1>4
  <2>3. n >= 4 => busy = "read"
    BY <1>1, Operations
  <2> QED BY <2>1, <2>2, <2>3 DEF Places, Values
<1>5. CASE connected /\ n = 1
  <2>1. place' = AfterReset
    BY <1>1, <1>5, Operations DEF Complete
  <2>2. After(1) = AfterReset
    BY DEF After
  <2> HIDE DEF AfterReset, Lost
  <2> QED BY <1>5, <2>1, <2>2 DEF Places
<1>6. CASE connected /\ n = 2
  <2>1. place' = IF place = AfterReset THEN Selected ELSE Lost
    BY <1>1, <1>6, Operations DEF Complete
  <2>2. After(1) = AfterReset /\ After(2) = Selected
    BY DEF After
  <2>3. place = AfterReset \/ ~stayed
    BY <1>2, <1>6, <2>2
  <2> HIDE DEF AfterReset, Selected, Lost
  <2> QED BY <1>6, <2>1, <2>2, <2>3 DEF Places
<1>7. CASE connected /\ n = 3
  <2>1. place' = IF place = Selected THEN 0 ELSE Lost
    BY <1>1, <1>7, Operations DEF Complete
  <2>2. After(2) = Selected /\ After(3) = 0
    BY DEF After
  <2>3. place = Selected \/ ~stayed
    BY <1>2, <1>7, <2>2
  <2> HIDE DEF AfterReset, Selected, Lost
  <2> QED BY <1>7, <2>1, <2>2, <2>3 DEF Places
<1>8. CASE connected /\ n >= 4
  <2>1. busy = "read"
    BY <1>1, <1>8, Operations
  <2>2. place' = (IF Sending THEN place + 1 ELSE Lost)
    BY <1>8, <2>1 DEF Complete
  <2>3. data' = (IF Sending THEN place + 1 ELSE Ones)
    BY <1>8, <2>1 DEF Complete
  <2>4. After(n) = n - 3 /\ After(n - 1) = n - 4
    BY <1>1, <1>8 DEF After
  <2>5. CASE place = After(n - 1)
    <3>1. Sending /\ place + 1 = n - 3
      BY <1>1, <1>8, <2>4, <2>5 DEF Sending
    <3>2. place' = n - 3 /\ data' = n - 3
      BY <2>2, <2>3, <3>1
    <3> HIDE DEF n
    <3> QED BY <2>4, <3>2 DEF Places, Values, n
  <2>6. CASE place = Lost /\ ~stayed
    <3>1. place' = Lost /\ data' = Ones
      BY <2>2, <2>3, <2>6 DEF Sending
    <3> QED BY <2>6, <3>1 DEF Places, Values
  <2>7. place = After(n - 1) \/ (place = Lost /\ ~stayed)
    BY <1>1, <1>2, <1>8
  <2> QED BY <2>5, <2>6, <2>7
<1>9. n = 1 \/ n = 2 \/ n = 3 \/ n >= 4
  BY <1>1
<1> QED BY <1>4, <1>5, <1>6, <1>7, <1>8, <1>9

\* Every step leaves the sensor where the operations have brought it.
LEMMA BusStep == ASSUME TypeOK, BusInv, PadInv, [Next]_vars PROVE BusInv'
<1> USE DEF master, sensor, locals, history, Fails
<1>1. CASE Open
  BY <1>1 DEF BusInv, Open, OnBus
<1>2. CASE MasterReset
  BY <1>2 DEF BusInv, MasterReset, OnBus
<1>3. CASE MasterResetFails \/ SetConfigFails \/ IssueRefused \/ IssueFails \/ FetchFails \/ PrintResult
  <2>1. pc' \in {"print", "idle"} /\ UNCHANGED <<stayed, connected>>
    BY <1>3 DEF MasterResetFails, SetConfigFails, IssueRefused, IssueFails, FetchFails, PrintResult
  <2> QED BY <2>1 DEF BusInv, OnBus
<1>4. CASE SetConfig
  <2>1. busy' = "none" /\ pc' = "issue" /\ k' = 1 /\ UNCHANGED <<stayed, connected>>
    BY <1>4 DEF SetConfig, BusInv, PadInv
  <2>2. Issued' = 0
    BY <2>1 DEF Issued
  <2> QED BY <2>1, <2>2 DEF BusInv, OnBus
<1>5. CASE Issue
  <2>1. /\ pc = "issue" /\ busy = "none" /\ pc' = "sleep" /\ busy' = Operation(k)
        /\ UNCHANGED <<stayed, connected, place, data, k>>
    BY <1>5 DEF Issue
  <2>2. Issued = k - 1 /\ Issued' = k /\ k \in 1..Last
    BY <2>1 DEF Issued, TypeOK
  <2>3. busy' # "none" /\ Issued' >= 1 /\ Issued' - 1 = Issued
    BY <2>1, <2>2, Operations
  <2>4. (Issued >= 2 => place \in Places(Issued - 1))'
    BY <2>1, <2>2, <2>3 DEF BusInv, OnBus, Places, After
  <2> QED BY <2>1, <2>2, <2>3, <2>4 DEF BusInv, Operation
<1>6. CASE Wake \/ Fetch
  <2>1. UNCHANGED <<stayed, connected, busy, place, data>> /\ OnBus
    BY <1>6 DEF Wake, Fetch, OnBus
  <2>2. OnBus' => Issued' = Issued
    BY <1>6 DEF Wake, Fetch, OnBus, Issued, TypeOK
  <2>3. pc' # "config"
    BY <1>6 DEF Wake, Fetch
  <2> QED BY <2>1, <2>2, <2>3 DEF BusInv, Places, After, Values, Operation
<1>7. CASE Complete
  <2>1. UNCHANGED <<pc, k, stayed, connected>> /\ busy' = "none"
    BY <1>7 DEF Complete
  <2>2. OnBus' = OnBus /\ Issued' = Issued
    BY <2>1 DEF OnBus, Issued
  <2>3. OnBus => place' \in Places(Issued) /\ (Issued >= 4 => data' \in Values(Issued - 3))
    BY <1>7, CompleteKeepsBus
  <2> QED BY <2>1, <2>2, <2>3 DEF BusInv, Places, After, Values
<1>8. CASE Plug
  <2>1. UNCHANGED <<pc, k, busy, data>> /\ ~stayed' /\ place' = Lost
    BY <1>8 DEF Plug
  <2>2. OnBus' = OnBus /\ Issued' = Issued
    BY <2>1 DEF OnBus, Issued
  <2> QED BY <2>1, <2>2 DEF BusInv, Places, Values, Operation
<1>9. CASE UNCHANGED vars
  <2>1. OnBus' = OnBus /\ Issued' = Issued /\ UNCHANGED <<pc, busy, data, place, stayed, connected>>
    BY <1>9 DEF vars, OnBus, Issued
  <2> QED BY <2>1 DEF BusInv, Places, After, Values, Operation
<1> QED BY <1>1, <1>2, <1>3, <1>4, <1>5, <1>6, <1>7, <1>8, <1>9 DEF Next, Work, TransferFails

\* A byte that is fetched goes to its place, and is right if it is in time.
LEMMA FetchKeepsPad == ASSUME TypeOK, BusInv, PadInv, Fetch PROVE PadInv'
<1> USE DEF sensor
<1>1. /\ pc = "fetch" /\ k \in 4..Last /\ Len(scratchpad) = k - 4
      /\ scratchpad \in Seq(Ones..Size) /\ data \in Ones..Size
  BY DEF Fetch, TypeOK, PadInv, OnBus, Last
<1>2. scratchpad' = Append(scratchpad, data) /\ UNCHANGED stayed
  BY DEF Fetch
<1>3. /\ Len(scratchpad') = k - 3 /\ scratchpad'[k - 3] = data
      /\ \A i \in 1..(k - 4) : scratchpad'[i] = scratchpad[i]
  BY <1>1, <1>2 DEF Last, Size
<1>4. DOMAIN scratchpad' = 1..(k - 3) /\ DOMAIN scratchpad = 1..(k - 4)
  BY <1>1, <1>2 DEF Last, Size
<1>5. late' = IF busy = "none" THEN late ELSE late \cup {k - 3}
  BY <1>3 DEF Fetch
<1>6. ASSUME NEW i \in 1..(k - 3), i \notin late' PROVE scratchpad'[i] \in Values(i)'
  <2>1. CASE i = k - 3
    <3>1. busy = "none"
      BY <1>5, <1>6, <2>1
    <3>2. Issued = k
      BY <1>1 DEF Issued
    <3>3. data \in Values(k - 3)
      BY <1>1, <3>1, <3>2 DEF BusInv, OnBus
    <3> QED BY <1>2, <1>3, <2>1, <3>3 DEF Values
  <2>2. CASE i \in 1..(k - 4)
    <3>1. i \notin late
      BY <1>5, <1>6
    <3>2. scratchpad[i] \in Values(i)
      BY <1>4, <2>2, <3>1 DEF PadInv
    <3> QED BY <1>2, <1>3, <2>2, <3>2 DEF Values
  <2> QED BY <1>1, <2>1, <2>2 DEF Last, Size
<1>7. pc' = "print" \/ (pc' = "issue" /\ k' = k + 1)
  BY DEF Fetch
<1>8. pc' = "issue" => Len(scratchpad') = IF k' < 4 THEN 0 ELSE k' - 4
  BY <1>1, <1>3, <1>7
<1> QED BY <1>4, <1>6, <1>7, <1>8 DEF PadInv, OnBus

\* What leaves the scratchpad alone.
LEMMA PadKept ==
  ASSUME PadInv, UNCHANGED <<scratchpad, late>>, stayed' => stayed
  PROVE  \A i \in DOMAIN scratchpad' : i \notin late' => scratchpad'[i] \in Values(i)'
  BY DEF PadInv, Values

\* Every step keeps the bytes whole and in order.
LEMMA PadStep == ASSUME TypeOK, BusInv, PadInv, [Next]_vars PROVE PadInv'
<1> USE DEF master, sensor, locals, history, Fails
<1>1. CASE Open
  <2>1. scratchpad' = <<>> /\ k' = 1 /\ pc' \in {"master", "print"}
    BY <1>1 DEF Open
  <2>2. Len(scratchpad') = 0 /\ DOMAIN scratchpad' = {}
    BY <2>1
  <2> QED BY <2>1, <2>2 DEF PadInv
<1>2. CASE MasterReset \/ SetConfig \/ Issue
  <2>1. UNCHANGED <<scratchpad, late, stayed, k>>
    BY <1>2 DEF MasterReset, SetConfig, Issue
  <2>2. \/ pc = "master" /\ pc' = "config"
        \/ pc = "config" /\ pc' = "issue"
        \/ pc = "issue" /\ pc' = "sleep"
    BY <1>2 DEF MasterReset, SetConfig, Issue
  <2>3. \A i \in DOMAIN scratchpad' : i \notin late' => scratchpad'[i] \in Values(i)'
    BY <2>1, PadKept
  <2> QED BY <2>1, <2>2, <2>3 DEF PadInv, OnBus
<1>3. CASE MasterResetFails \/ SetConfigFails \/ IssueRefused \/ IssueFails \/ FetchFails \/ PrintResult
  <2>1. pc' \in {"print", "idle"} /\ UNCHANGED <<scratchpad, late, stayed>>
    BY <1>3 DEF MasterResetFails, SetConfigFails, IssueRefused, IssueFails, FetchFails, PrintResult
  <2>2. \A i \in DOMAIN scratchpad' : i \notin late' => scratchpad'[i] \in Values(i)'
    BY <2>1, PadKept
  <2> QED BY <2>1, <2>2 DEF PadInv, OnBus
<1>4. CASE Wake
  <2>1. UNCHANGED <<scratchpad, late, stayed>> /\ pc = "sleep" /\ k \in 1..Last
    BY <1>4 DEF Wake, TypeOK
  <2>2. \A i \in DOMAIN scratchpad' : i \notin late' => scratchpad'[i] \in Values(i)'
    BY <2>1, PadKept
  <2>3. \/ k >= 4 /\ pc' = "fetch" /\ k' = k
        \/ k < 4 /\ pc' = "issue" /\ k' = k + 1
    BY <1>4, <2>1, Operations DEF Wake, Last, Size
  <2>4. Len(scratchpad) = IF k < 4 THEN 0 ELSE k - 4
    BY <2>1 DEF PadInv, OnBus
  <2>5. Len(scratchpad') = IF k' < 4 THEN 0 ELSE k' - 4
    BY <2>1, <2>3, <2>4 DEF Last, Size
  <2> QED BY <2>2, <2>3, <2>5 DEF PadInv
<1>5. CASE Fetch
  BY <1>5, FetchKeepsPad
<1>6. CASE Complete \/ Plug \/ UNCHANGED vars
  <2>1. UNCHANGED <<scratchpad, late, k, pc>> /\ (stayed' => stayed)
    BY <1>6 DEF Complete, Plug, vars
  <2>2. \A i \in DOMAIN scratchpad' : i \notin late' => scratchpad'[i] \in Values(i)'
    BY <2>1, PadKept
  <2> QED BY <2>1, <2>2 DEF PadInv, OnBus
<1> QED BY <1>1, <1>2, <1>3, <1>4, <1>5, <1>6 DEF Next, Work, TransferFails

\* A call that fails ends without printing, whatever it has fetched.
LEMMA PrintStep == ASSUME TypeOK, PadInv, PrintInv, [Next]_vars PROVE PrintInv'
<1> USE DEF master, sensor, locals, history
<1>1. CASE Open
  <2>1. out' = "none"
    BY <1>1 DEF Open
  <2>2. \/ ok' /\ pc' = "master" /\ ~fault'
        \/ ~ok' /\ pc' = "print"
    BY <1>1 DEF Open, Fails
  <2> QED BY <2>1, <2>2 DEF PrintInv, OnBus
<1>2. CASE MasterReset \/ SetConfig \/ Issue \/ Wake
  <2>1. UNCHANGED <<ok, fault, out, scratchpad>>
    BY <1>2 DEF MasterReset, SetConfig, Issue, Wake
  <2>2. pc \in {"master", "config", "issue", "sleep"} /\ pc' \in {"config", "issue", "sleep", "fetch"}
    BY <1>2 DEF MasterReset, SetConfig, Issue, Wake
  <2> QED BY <2>1, <2>2 DEF PrintInv, OnBus
<1>3. CASE MasterResetFails \/ SetConfigFails \/ IssueRefused \/ IssueFails \/ FetchFails
  <2>1. pc \in {"master", "config", "issue", "fetch"} /\ pc' = "print" /\ ~ok' /\ UNCHANGED out
    BY <1>3 DEF MasterResetFails, SetConfigFails, IssueRefused, IssueFails, FetchFails, Fails
  <2> QED BY <2>1 DEF PrintInv, OnBus
<1>4. CASE Fetch
  <2>1. UNCHANGED <<ok, fault, out>> /\ pc = "fetch"
    BY <1>4 DEF Fetch
  <2>2. ok /\ ~fault /\ out # "scratchpad"
    BY <2>1 DEF PrintInv, OnBus
  <2>3. \/ pc' = "print" /\ k = Last
        \/ pc' = "issue"
    BY <1>4 DEF Fetch
  <2>4. pc' = "print" => Len(scratchpad') = Size
    <3>1. Len(scratchpad) = k - 4 /\ k \in 4..Last
      BY <2>1 DEF PadInv, OnBus, TypeOK, Last, Size
    <3>2. Len(scratchpad') = k - 3
      BY <1>4, <3>1 DEF Fetch, TypeOK
    <3> QED BY <2>3, <3>2 DEF Last, Size
  <2> QED BY <2>1, <2>2, <2>3, <2>4 DEF PrintInv, OnBus
<1>5. CASE PrintResult
  <2>1. pc = "print" /\ pc' = "idle" /\ UNCHANGED <<ok, fault, scratchpad>>
    BY <1>5 DEF PrintResult
  <2>2. out' = "scratchpad" => ok
    BY <1>5 DEF PrintResult
  <2> QED BY <2>1, <2>2 DEF PrintInv, OnBus
<1>6. CASE Complete \/ Plug \/ UNCHANGED vars
  <2>1. UNCHANGED <<ok, fault, out, scratchpad, pc>>
    BY <1>6 DEF Complete, Plug, vars
  <2>2. OnBus' = OnBus /\ (Len(scratchpad') = Size) = (Len(scratchpad) = Size)
    BY <2>1 DEF OnBus
  <2> QED BY <2>1, <2>2, Zenon DEF PrintInv
<1> QED BY <1>1, <1>2, <1>3, <1>4, <1>5, <1>6 DEF Next, Work, TransferFails

\* The four parts hold one another up.
LEMMA WireStep == WireInv /\ [Next]_vars => WireInv'
  BY TypeStep, BusStep, PadStep, PrintStep DEF WireInv

\* The invariant holds in every reachable state, for any length of the tick.
LEMMA WireInvariant == Spec => []WireInv
  BY WireInit, WireStep, PTL DEF Spec

\* The variables of read_MAX31820, of the DS2482 and of the sensor have their
\* types; the scratchpad is never written beyond its nine bytes.
THEOREM Types == Spec => []TypeOK
<1>1. WireInv => TypeOK
  BY DEF WireInv
<1> QED BY <1>1, WireInvariant, PTL

\* read_MAX31820: a byte that was not fetched too early is the one of its
\* place or the reading of an idle line, never the byte of another place.
THEOREM BytesInOrder == Spec => []InOrder
<1>1. WireInv => InOrder
  BY DEF WireInv, PadInv, InOrder, Values
<1> QED BY <1>1, WireInvariant, PTL

\* read_MAX31820: with a sensor that stays connected a sleep that was too
\* short spoils its byte and none of the others.
THEOREM LateBytesOnly == Spec => []OnlyLateBytesWrong
<1>1. WireInv => OnlyLateBytesWrong
  BY DEF WireInv, TypeOK, PadInv, PrintInv, OnlyLateBytesWrong, Values, Size
<1> QED BY <1>1, WireInvariant, PTL

\* 1wiretemp: what is printed is whole, and only when no transfer has failed.
THEOREM FailuresShown == Spec => []ErrorsShown
<1>1. WireInv => ErrorsShown
  BY DEF WireInv, PrintInv, ErrorsShown
<1> QED BY <1>1, WireInvariant, PTL

\* What holds besides if one sleep outlasts a reset of the bus: nothing is
\* fetched while the DS2482 is busy.
InTime == late = {} /\ (pc = "fetch" => busy = "none")

LEMMA InTimeStep ==
  ASSUME Slept(10, 1) >= 2, InTime, [Next]_vars
  PROVE  InTime'
<1> USE DEF master, sensor, locals, history, Fails
<1>1. CASE Wake
  BY <1>1 DEF InTime, Wake, Settled
<1>2. CASE Fetch
  BY <1>2 DEF InTime, Fetch
<1>3. CASE Complete \/ Plug \/ UNCHANGED vars
  <2>1. UNCHANGED <<late, pc>> /\ (busy = "none" => busy' = "none")
    BY <1>3 DEF Complete, Plug, vars
  <2> QED BY <2>1 DEF InTime
<1>4. CASE Open
  BY <1>4 DEF InTime, Open
<1>5. CASE MasterReset \/ SetConfig \/ Issue \/ IssueRefused \/ PrintResult \/ TransferFails
  <2>1. pc' # "fetch" /\ UNCHANGED late
    BY <1>5 DEF MasterReset, SetConfig, Issue, IssueRefused, PrintResult, TransferFails,
               MasterResetFails, SetConfigFails, IssueFails, FetchFails
  <2> QED BY <2>1 DEF InTime
<1> QED BY <1>1, <1>2, <1>3, <1>4, <1>5 DEF Next, Work

\* 1wire.c:314, for a tick that is short enough: if the one sleep between the
\* two transfers of read_byte lasts longer than a reset of the bus, what is
\* printed is the scratchpad of a sensor that stays connected.  The demo's
\* tick of 10 ms is not (the run one_wire_busy).
THEOREM ShortTickSuffices == ASSUME Slept(10, 1) >= 2 PROVE Spec => []TrueScratchpad
<1>1. Init => InTime
  BY DEF Init, InTime
<1>2. InTime /\ [Next]_vars => InTime'
  BY InTimeStep
<1>3. WireInv /\ InTime => TrueScratchpad
  <2> SUFFICES ASSUME WireInv, InTime, out = "scratchpad", stayed PROVE scratchpad = [i \in 1..Size |-> i]
    BY DEF TrueScratchpad
  <2>1. scratchpad \in Seq(Ones..Size) /\ Len(scratchpad) = Size
    BY DEF WireInv, TypeOK, PrintInv
  <2>2. \A i \in 1..Size : scratchpad[i] = i
    BY <2>1 DEF WireInv, PadInv, InTime, Values, Size
  <2> QED BY <2>1, <2>2 DEF Size
<1> QED BY <1>1, <1>2, <1>3, WireInvariant, PTL DEF Spec

\* Steps that the command has still to make at most: three for each of the
\* operations of the bus, and those before and after them.
Left ==
  CASE pc = "master" -> 3 * Last + 3
    [] pc = "config" -> 3 * Last + 2
    [] pc = "issue" -> 3 * (Last - k) + 4
    [] pc = "sleep" -> 3 * (Last - k) + 3
    [] pc = "fetch" -> 3 * (Last - k) + 2
    [] pc = "print" -> 1
    [] OTHER -> 0

LEMMA WorkRunsDown == ASSUME TypeOK, Work \/ TransferFails PROVE Left' < Left
<1>1. k \in 1..12
  BY DEF TypeOK, Last, Size
<1> USE DEF Left, Last, Size
<1>2. CASE MasterReset \/ SetConfig
  <2>1. k' = k /\ <<pc, pc'>> \in {<<"master", "config">>, <<"config", "issue">>}
    BY <1>2 DEF MasterReset, SetConfig
  <2> QED BY <1>1, <2>1
<1>3. CASE Issue
  <2>1. k' = k /\ pc = "issue" /\ pc' = "sleep"
    BY <1>3 DEF Issue
  <2> QED BY <1>1, <2>1
<1>4. CASE Wake
  <2>1. pc = "sleep" /\ (pc' = "fetch" => k' = k) /\ (pc' # "fetch" => k' = k + 1 /\ pc' = "issue")
    BY <1>4 DEF Wake
  <2> QED BY <1>1, <2>1
<1>5. CASE Fetch
  <2>1. pc = "fetch" /\ (pc' # "print" => k' = k + 1 /\ pc' = "issue")
    BY <1>5 DEF Fetch
  <2> QED BY <1>1, <2>1
<1>6. CASE PrintResult
  <2>1. pc = "print" /\ pc' = "idle"
    BY <1>6 DEF PrintResult
  <2> QED BY <2>1
<1>7. CASE IssueRefused \/ TransferFails
  <2>1. pc \in {"master", "config", "issue", "fetch"} /\ pc' = "print"
    BY <1>7
       DEF IssueRefused, TransferFails, MasterResetFails, SetConfigFails, IssueFails,
           FetchFails, Fails
  <2> QED BY <1>1, <2>1
<1> QED BY <1>2, <1>3, <1>4, <1>5, <1>6, <1>7 DEF Work

\* A call of 1wiretemp ends after at most 39 steps of its own, whichever
\* transfers fail: it repeats nothing, and neither the DS2482 nor a sensor that
\* comes and goes gives it more to do (1wire.c, read_MAX31820).
THEOREM CallRunsDown ==
  Spec => [][/\ Left \in 0..39
             /\ Work \/ TransferFails => Left' < Left
             /\ Complete \/ Plug => Left' = Left]_vars
<1> DEFINE Down == /\ Left \in 0..39
                   /\ Work \/ TransferFails => Left' < Left
                   /\ Complete \/ Plug => Left' = Left
<1>1. ASSUME TypeOK, Next PROVE Down
  <2>1. Left \in 0..39
    <3>1. k \in 1..12 /\ Last = 12
      BY <1>1 DEF TypeOK, Last, Size
    <3> QED BY <3>1 DEF Left
  <2>2. ASSUME Complete \/ Plug PROVE Left' = Left
    <3>1. pc' = pc /\ k' = k
      BY <2>2 DEF Complete, Plug, locals
    <3> QED BY <3>1 DEF Left
  <2> QED BY <1>1, <2>1, <2>2, WorkRunsDown
<1>2. WireInv /\ [Next]_vars => [Down]_vars
  BY <1>1 DEF WireInv
<1> QED BY <1>2, WireInvariant, PTL DEF Spec
=============================================================================
