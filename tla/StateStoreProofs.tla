-------------------------- MODULE StateStoreProofs -------------------------
(***************************************************************************)
(* For any number of copies from two up and any set of values: the         *)
(* inductive invariant of the state storage, that it never forgets, and    *)
(* that it implements AtomicState.                                         *)
(***************************************************************************)
EXTENDS StateStore, TLAPS

\* The copies 1 and 2 decide every load of a storage interrupted at most once.
LEMMA FirstValid ==
  ASSUME NEW f, f[1] \in Value
  PROVE  LoadFrom(f) = f[1]
<1> DEFINE P(c) == f[c] \in Value /\ \A d \in 1..(c - 1) : f[d] \notin Value
<1>1. 1 \in Copies
  BY StoreAssumption DEF Copies
<1>2. P(1)
  OBVIOUS
<1>3. \A c \in Copies : P(c) => c = 1
  <2> SUFFICES ASSUME NEW c \in Copies, P(c), c # 1 PROVE FALSE
    OBVIOUS
  <2>1. 1 \in 1..(c - 1)
    BY StoreAssumption DEF Copies
  <2> QED
    BY <2>1
<1>4. (CHOOSE c \in Copies : P(c)) = 1
  <2> HIDE DEF P
  <2> QED
    BY <1>1, <1>2, <1>3
<1> QED
  BY <1>1, <1>4 DEF LoadFrom

\* The second copy is used when only the first is torn.
LEMMA SecondValid ==
  ASSUME NEW f, f[1] \notin Value, f[2] \in Value
  PROVE  LoadFrom(f) = f[2]
<1> DEFINE P(c) == f[c] \in Value /\ \A d \in 1..(c - 1) : f[d] \notin Value
<1>1. 2 \in Copies
  BY StoreAssumption DEF Copies
<1>2. P(2)
  <2>1. \A d \in 1..(2 - 1) : d = 1
    OBVIOUS
  <2> QED
    BY <2>1
<1>3. \A c \in Copies : P(c) => c = 2
  <2> SUFFICES ASSUME NEW c \in Copies, P(c), c # 2 PROVE FALSE
    OBVIOUS
  <2>1. c # 1
    OBVIOUS
  <2>2. 2 \in 1..(c - 1)
    BY <2>1, StoreAssumption DEF Copies
  <2> QED
    BY <2>2
<1>4. (CHOOSE c \in Copies : P(c)) = 2
  <2> HIDE DEF P
  <2> QED
    BY <1>1, <1>2, <1>3
<1> QED
  BY <1>1, <1>4 DEF LoadFrom

\* A blank EEPROM means the defaults of the dtsi.
LEMMA NoneValid ==
  ASSUME NEW f, \A c \in Copies : f[c] \notin Value
  PROVE  LoadFrom(f) = Default
BY DEF LoadFrom

-----------------------------------------------------------------------------
\* The copy a writer is at is the one Writing speaks of.
LEMMA CurrentIsFirst ==
  ASSUME StoreTypeOK, NEW c \in Copies, IsCurrent(c),
         NEW m \in todo, todo = m..NCopies \/ todo = {m}
  PROVE  c = m
<1>1. m \in Nat /\ c \in Nat /\ m <= NCopies
  BY StoreAssumption DEF StoreTypeOK, Copies
<1>2. c <= m
  BY DEF IsCurrent
<1>3. m <= c
  BY <1>1, StoreAssumption DEF IsCurrent
<1> QED
  BY <1>1, <1>2, <1>3

\* barebox starting on whatever the last interruption left.
LEMMA LoadInv ==
  ASSUME StoreInv, Load
  PROVE  StoreInv'
<1> USE StoreAssumption
<1>0. /\ StoreTypeOK /\ Split /\ ram = Lost /\ ram' = Stored /\ copies' = copies
      /\ Copies' = Copies /\ 1 \in Copies /\ 2 \in Copies /\ NCopies \in Copies
  BY DEF StoreInv, Load, Copies
<1>1. PICK k \in Copies, new \in Value, old \in Value \cup {Torn} :
        /\ \A c \in Copies : c < k => copies[c] = new
        /\ copies[k] \in {Torn, old}
        /\ \A c \in Copies : c > k => copies[c] = old
  BY <1>0 DEF Split
<1>2. SUFFICES /\ Stored \in Value /\ todo' \subseteq Copies
               /\ todo' # {} => Writing'
               /\ todo' = {} => \A c, d \in Copies : copies[c] = copies[d]
  BY <1>0 DEF StoreInv, StoreTypeOK, Idle
<1>3. CASE k # 1
  <2>1. copies[1] = new
    BY <1>1, <1>3, <1>0 DEF Copies
  <2>2. Stored = new
    BY <2>1, FirstValid DEF Stored
  <2>3. todo' = {c \in Copies : copies[c] # new}
    BY <2>1, <2>2, <1>0 DEF Load, SomeValid
  <2>4. CASE old = new
    <3>1. CASE copies[k] = Torn
      <4>1. todo' = {k}
        BY <2>3, <2>4, <3>1, <1>1 DEF Copies
      <4>2. \A c \in Copies \ {k} : copies[c] = new
        BY <2>4, <1>1 DEF Copies
      <4>3. Writing'
        BY <4>1, <4>2, <3>1, <1>0, <1>1, <2>2, <2>4 DEF Writing
      <4> QED
        BY <4>1, <4>3, <2>2
    <3>2. CASE copies[k] # Torn
      <4>1. \A c \in Copies : copies[c] = new
        BY <2>4, <3>2, <1>1 DEF Copies
      <4>2. todo' = {}
        BY <2>3, <4>1
      <4> QED
        BY <4>1, <4>2, <2>2
    <3> QED
      BY <3>1, <3>2
  <2>5. CASE old # new
    <3>1. \A c \in Copies : copies[c] # new <=> c >= k
      BY <1>1, <2>5 DEF Copies
    <3>2. todo' = k..NCopies
      BY <2>3, <3>1 DEF Copies
    <3>3. /\ \A c \in Copies \ todo' : copies[c] = new
          /\ k \in todo'
          /\ \A c \in todo' \ {k} : copies[c] = old
      BY <3>2, <1>1 DEF Copies
    <3>4. Writing'
      BY <3>2, <3>3, <2>2, <1>0, <1>1 DEF Writing
    <3> QED
      BY <3>2, <3>4, <2>2 DEF Copies
  <2> QED
    BY <2>4, <2>5
<1>4. CASE k = 1
  <2>1. copies[1] \in {Torn, old} /\ \A c \in Copies : c # 1 => copies[c] = old
    BY <1>1, <1>4 DEF Copies
  <2>2. CASE old = Torn
    <3>1. \A c \in Copies : copies[c] = Torn /\ copies[c] \notin Value
      BY <2>1, <2>2
    <3>2. Stored = Default /\ todo' = {}
      BY <3>1, NoneValid, <1>0 DEF Load, SomeValid, Stored
    <3> QED
      BY <3>1, <3>2
  <2>3. CASE old # Torn /\ copies[1] = old
    <3>1. Stored = old
      BY <2>3, FirstValid DEF Stored
    <3>2. \A c \in Copies : copies[c] = old
      BY <2>1, <2>3
    <3>3. todo' = {}
      BY <3>1, <3>2, <1>0 DEF Load, SomeValid
    <3> QED
      BY <3>1, <3>2, <3>3, <2>3
  <2>4. CASE old # Torn /\ copies[1] = Torn
    <3>1. copies[2] = old /\ copies[1] \notin Value
      BY <2>1, <2>4, <1>0
    <3>2. Stored = old
      BY <3>1, <2>4, SecondValid DEF Stored
    <3>3. todo' = {1}
      BY <3>1, <3>2, <2>1, <2>4, <1>0 DEF Load, SomeValid
    <3>4. Writing'
      BY <3>2, <3>3, <2>1, <2>4, <1>0 DEF Writing
    <3> QED
      BY <3>2, <3>3, <3>4, <2>4, <1>0
  <2> QED
    BY <2>1, <2>2, <2>3, <2>4
<1> QED
  BY <1>3, <1>4

\* A save starts from equal copies.
LEMMA SaveInv ==
  ASSUME StoreInv, Save
  PROVE  StoreInv'
<1> USE StoreAssumption
<1>1. /\ StoreTypeOK /\ Idle /\ Copies' = Copies /\ copies' = copies /\ ram' = ram
      /\ todo' = Copies /\ 1 \in Copies /\ Copies = 1..NCopies
      /\ \A c, d \in Copies : copies[c] = copies[d]
  BY DEF StoreInv, Save, Copies
<1>2. copies[1] \in Value \cup {Torn}
  BY <1>1 DEF StoreTypeOK
<1>3. Writing'
  BY <1>1, <1>2 DEF Writing
<1>4. todo' # {}
  BY <1>1
<1> QED
  BY <1>1, <1>3, <1>4 DEF StoreInv, StoreTypeOK, Idle

\* Only the copy at the front of todo is torn.
LEMMA BeginWriteInv ==
  ASSUME StoreInv, BeginWrite
  PROVE  StoreInv'
<1>1. PICK c \in Copies : /\ IsCurrent(c) /\ copies[c] # Torn
                          /\ copies' = [copies EXCEPT ![c] = Torn]
                          /\ UNCHANGED <<ram, todo>>
  BY DEF BeginWrite
<1>2. StoreTypeOK /\ Writing /\ todo # {} /\ ram # Lost /\ c \in todo
  BY <1>1 DEF StoreInv, IsCurrent
<1>3. PICK m \in todo, old \in Value \cup {Torn} :
        /\ todo = m..NCopies \/ (todo = {m} /\ copies[m] = Torn)
        /\ \A d \in Copies \ todo : copies[d] = ram
        /\ copies[m] \in {Torn, old}
        /\ \A d \in todo \ {m} : copies[d] = old
  BY <1>2 DEF Writing
<1>4. c = m
  BY <1>1, <1>2, <1>3, CurrentIsFirst
<1>5. StoreTypeOK'
  BY <1>1, <1>2 DEF StoreTypeOK, Copies
<1>6. /\ copies'[m] = Torn
      /\ \A d \in Copies \ {m} : copies'[d] = copies[d]
      /\ todo \subseteq Copies /\ Copies' = Copies
  BY <1>1, <1>2, <1>4 DEF StoreTypeOK, Copies
<1>7. Writing'
  BY <1>1, <1>3, <1>6 DEF Writing
<1> QED
  BY <1>1, <1>2, <1>5, <1>7 DEF StoreInv, Idle

\* A completed copy holds the working copy and leaves todo.
LEMMA EndWriteInv ==
  ASSUME StoreInv, EndWrite
  PROVE  StoreInv'
<1> USE StoreAssumption
<1>1. PICK c \in Copies : /\ IsCurrent(c) /\ copies[c] = Torn
                          /\ copies' = [copies EXCEPT ![c] = ram]
                          /\ todo' = todo \ {c}
                          /\ ram' = ram
  BY DEF EndWrite
<1>2. StoreTypeOK /\ Writing /\ todo # {} /\ ram \in Value /\ ram # Lost /\ c \in todo
  BY <1>1 DEF StoreInv, StoreTypeOK, IsCurrent
<1>3. PICK m \in todo, old \in Value \cup {Torn} :
        /\ todo = m..NCopies \/ (todo = {m} /\ copies[m] = Torn)
        /\ \A d \in Copies \ todo : copies[d] = ram
        /\ copies[m] \in {Torn, old}
        /\ \A d \in todo \ {m} : copies[d] = old
  BY <1>2 DEF Writing
<1>4. c = m
  BY <1>1, <1>2, <1>3, CurrentIsFirst
<1>5. StoreTypeOK'
  BY <1>1, <1>2 DEF StoreTypeOK, Copies
<1>6. /\ copies'[m] = ram
      /\ \A d \in Copies \ {m} : copies'[d] = copies[d]
      /\ todo \subseteq Copies /\ Copies' = Copies /\ todo' = todo \ {m}
  BY <1>1, <1>2, <1>4 DEF StoreTypeOK, Copies
<1>7. \A d \in Copies \ todo' : copies'[d] = ram'
  BY <1>1, <1>3, <1>6
<1>8. CASE todo' = {}
  BY <1>1, <1>2, <1>5, <1>6, <1>7, <1>8 DEF StoreInv, Idle
<1>9. CASE todo' # {}
  <2>1. todo = m..NCopies
    BY <1>3, <1>6, <1>9
  <2>2. m + 1 \in todo' /\ todo' = (m + 1)..NCopies
    BY <2>1, <1>3, <1>6, <1>9 DEF Copies
  <2>3. \A d \in todo' : copies'[d] = old
    BY <1>3, <1>6
  <2>4. Writing'
    BY <2>2, <2>3, <1>7, <1>6 DEF Writing
  <2> QED
    BY <2>4, <1>1, <1>2, <1>5, <1>9 DEF StoreInv, Idle
<1> QED
  BY <1>8, <1>9

\* An interruption leaves new copies, one torn one and old copies.
LEMMA ResetInv ==
  ASSUME StoreInv, Reset
  PROVE  StoreInv'
<1> USE StoreAssumption
<1>1. /\ StoreTypeOK /\ Copies' = Copies /\ copies' = copies /\ ram' = Lost /\ todo' = {}
      /\ 1 \in Copies /\ NCopies \in Copies
  BY DEF StoreInv, Reset, Copies
<1>2. Split
  <2>1. CASE ram = Lost
    BY <2>1 DEF StoreInv
  <2>2. CASE Idle
    <3>1. /\ \A c \in Copies : copies[c] = copies[1]
          /\ copies[1] \in Value \cup {Torn}
      BY <2>2, <1>1 DEF StoreInv, StoreTypeOK
    <3>2. \A c \in Copies : ~(c < 1)
      BY DEF Copies
    <3> QED
      BY <3>1, <3>2, <1>1 DEF Split
  <2>3. CASE ram # Lost /\ todo # {}
    <3>1. PICK m \in todo, old \in Value \cup {Torn} :
            /\ todo = m..NCopies \/ (todo = {m} /\ copies[m] = Torn)
            /\ \A d \in Copies \ todo : copies[d] = ram
            /\ copies[m] \in {Torn, old}
            /\ \A d \in todo \ {m} : copies[d] = old
      BY <2>3 DEF StoreInv, Writing
    <3>2. m \in Copies /\ ram \in Value
      BY <1>1, <2>3 DEF StoreTypeOK
    <3>3. \A c \in Copies : c < m => c \notin todo
      BY <3>1, <3>2 DEF Copies
    <3>4. CASE todo = m..NCopies
      <4>1. \A c \in Copies : c > m => c \in todo \ {m}
        BY <3>4 DEF Copies
      <4> QED
        BY <3>1, <3>2, <3>3, <4>1 DEF Split
    <3>5. CASE todo = {m} /\ copies[m] = Torn
      <4>1. \A c \in Copies : c < m \/ c > m => c \in Copies \ todo
        BY <3>5 DEF Copies
      <4> QED
        BY <3>1, <3>2, <3>5, <4>1 DEF Split
    <3> QED
      BY <3>1, <3>4, <3>5
  <2> QED
    BY <2>1, <2>2, <2>3 DEF Idle
<1>3. Split'
  BY <1>1, <1>2 DEF Split
<1> QED
  BY <1>1, <1>3 DEF StoreInv, StoreTypeOK, Idle

-----------------------------------------------------------------------------
\* A board leaves the factory blank or with equal copies.
LEMMA StoreInitInv == StoreInit => StoreInv
<1> SUFFICES ASSUME StoreInit PROVE StoreInv
  OBVIOUS
<1>1. PICK v \in Value \cup {Torn} : copies = [c \in Copies |-> v]
  BY DEF StoreInit
<1>2. StoreTypeOK /\ ram = Lost /\ todo = {}
  BY <1>1 DEF StoreInit, StoreTypeOK
<1>3. 1 \in Copies /\ Default \in Value /\ \A c \in Copies : ~(c < 1)
  BY StoreAssumption DEF Copies
<1>4. Split
  BY <1>1, <1>3 DEF Split
<1> QED
  BY <1>2, <1>4 DEF StoreInv, Idle

\* Every step keeps the invariant.
LEMMA StoreNextInv == StoreInv /\ [StoreNext]_storeVars => StoreInv'
<1> SUFFICES ASSUME StoreInv, [StoreNext]_storeVars PROVE StoreInv'
  OBVIOUS
<1>1. CASE Load
  BY <1>1, LoadInv
<1>2. CASE Save
  BY <1>2, SaveInv
<1>3. CASE BeginWrite
  BY <1>3, BeginWriteInv
<1>4. CASE EndWrite
  BY <1>4, EndWriteInv
<1>5. CASE Reset
  BY <1>5, ResetInv
<1>6. CASE \E v \in Value : Set(v)
  <2>1. /\ Idle /\ ram' \in Value /\ copies' = copies /\ todo' = todo
        /\ Copies' = Copies /\ todo = {} /\ ram' # Lost
    BY <1>6, StoreAssumption DEF Set, Idle, Copies
  <2> QED
    BY <2>1 DEF StoreInv, StoreTypeOK, Idle
<1>7. CASE UNCHANGED storeVars
  <2>1. copies' = copies /\ ram' = ram /\ todo' = todo /\ Copies' = Copies
    BY <1>7 DEF storeVars, Copies
  <2>2. StoreTypeOK' /\ Idle' = Idle
    BY <2>1 DEF StoreInv, StoreTypeOK, Idle
  <2>3. Split' = Split
    BY <2>1 DEF Split
  <2>4. Writing' = Writing
    BY <2>1 DEF Writing
  <2> QED BY <2>1, <2>2, <2>3, <2>4 DEF StoreInv
<1> QED
  BY <1>1, <1>2, <1>3, <1>4, <1>5, <1>6, <1>7 DEF StoreNext

\* The state storage keeps its inductive invariant: types, what an
\* interruption can leave, what a writer has left to do, equal copies at rest.
THEOREM StoreCorrect == StoreSpec => []StoreInv
<1>1. StoreInit => StoreInv
  BY StoreInitInv
<1>2. StoreInv /\ [StoreNext]_storeVars => StoreInv'
  BY StoreNextInv
<1> QED
  BY <1>1, <1>2, PTL DEF StoreSpec

\* All copies agree whenever nothing is being written.
THEOREM StoreRedundant == StoreSpec => []Redundant
<1>1. StoreInv => Redundant
  BY DEF StoreInv, Redundant
<1> QED
  BY <1>1, StoreCorrect, PTL

-----------------------------------------------------------------------------
(* The cell of AtomicState is what a load would return.                    *)
LEMMA StoredAtRest ==
  ASSUME StoreInv, Idle
  PROVE  Stored = IF copies[1] \in Value THEN copies[1] ELSE Default
<1>1. \A c \in Copies : copies[c] = copies[1]
  BY StoreAssumption DEF StoreInv, Copies
<1> QED
  BY <1>1, FirstValid, NoneValid DEF Stored

\* A load always returns a state block.
LEMMA StoredInValue ==
  ASSUME StoreInv
  PROVE  Stored \in Value
<1> USE StoreAssumption
<1>0. StoreTypeOK /\ 1 \in Copies /\ 2 \in Copies
  BY DEF StoreInv, Copies
<1>1. CASE Idle
  BY <1>1, StoredAtRest
<1>2. CASE ram = Lost
  <2>1. PICK k \in Copies, new \in Value, old \in Value \cup {Torn} :
          /\ \A c \in Copies : c < k => copies[c] = new
          /\ copies[k] \in {Torn, old}
          /\ \A c \in Copies : c > k => copies[c] = old
    BY <1>2 DEF StoreInv, Split
  <2>2. CASE copies[1] \in Value
    BY <2>2, FirstValid DEF Stored
  <2>3. CASE copies[1] \notin Value
    <3>1. k = 1
      BY <2>1, <2>3, <1>0 DEF Copies
    <3>2. \A c \in Copies : c # 1 => copies[c] = old
      BY <3>1, <2>1 DEF Copies
    <3>3. CASE old \in Value
      BY <3>2, <3>3, <2>3, <1>0, SecondValid DEF Stored
    <3>4. CASE old \notin Value
      <4>1. \A c \in Copies : copies[c] \notin Value
        BY <3>2, <3>4, <2>3
      <4> QED
        BY <4>1, NoneValid DEF Stored
    <3> QED
      BY <3>3, <3>4
  <2> QED
    BY <2>2, <2>3
<1>3. CASE ram # Lost /\ todo # {}
  <2>1. PICK m \in todo, old \in Value \cup {Torn} :
          /\ todo = m..NCopies \/ (todo = {m} /\ copies[m] = Torn)
          /\ \A d \in Copies \ todo : copies[d] = ram
          /\ copies[m] \in {Torn, old}
          /\ \A d \in todo \ {m} : copies[d] = old
    BY <1>3 DEF StoreInv, Writing
  <2>2. ram \in Value /\ m \in Copies
    BY <1>0, <1>3 DEF StoreTypeOK
  <2>3. CASE copies[1] \in Value
    BY <2>3, FirstValid DEF Stored
  <2>4. CASE copies[1] \notin Value
    <3>1. m = 1
      BY <2>1, <2>2, <2>4, <1>0 DEF Copies
    <3>2. CASE todo = {m}
      BY <3>1, <3>2, <2>1, <2>2, <2>4, <1>0, SecondValid DEF Stored
    <3>3. CASE todo = m..NCopies
      <4>1. \A c \in Copies : c # 1 => copies[c] = old
        BY <3>1, <3>3, <2>1 DEF Copies
      <4>2. CASE old \in Value
        BY <4>1, <4>2, <2>4, <1>0, SecondValid DEF Stored
      <4>3. CASE old \notin Value
        <5>1. \A c \in Copies : copies[c] \notin Value
          BY <4>1, <4>3, <2>4
        <5> QED
          BY <5>1, NoneValid DEF Stored
      <4> QED
        BY <4>2, <4>3
    <3> QED
      BY <2>1, <3>2, <3>3
  <2> QED
    BY <2>3, <2>4
<1> QED
  BY <1>1, <1>2, <1>3 DEF Idle

\* Tearing a copy leaves the stored value, or makes the new one the first.
LEMMA BeginWriteStored ==
  ASSUME StoreInv, BeginWrite
  PROVE  /\ Stored' \in {Stored, ram}
         /\ ram' = ram /\ todo' = todo /\ todo # {}
         /\ SomeValid'
<1> USE StoreAssumption
<1>1. PICK c \in Copies : /\ IsCurrent(c) /\ copies[c] # Torn
                          /\ copies' = [copies EXCEPT ![c] = Torn]
                          /\ UNCHANGED <<ram, todo>>
  BY DEF BeginWrite
<1>2. /\ StoreTypeOK /\ Writing /\ todo # {} /\ ram \in Value /\ c \in todo
      /\ 1 \in Copies /\ 2 \in Copies /\ Copies' = Copies
  BY <1>1 DEF StoreInv, StoreTypeOK, IsCurrent, Copies
<1>3. PICK m \in todo, old \in Value \cup {Torn} :
        /\ todo = m..NCopies \/ (todo = {m} /\ copies[m] = Torn)
        /\ \A d \in Copies \ todo : copies[d] = ram
        /\ copies[m] \in {Torn, old}
        /\ \A d \in todo \ {m} : copies[d] = old
  BY <1>2 DEF Writing
<1>4. c = m /\ m \in Copies
  BY <1>1, <1>2, <1>3, CurrentIsFirst
<1>5. /\ todo = m..NCopies
      /\ copies[m] = old /\ old \in Value
      /\ copies'[m] = Torn
      /\ \A d \in Copies \ {m} : copies'[d] = copies[d]
  BY <1>1, <1>2, <1>3, <1>4 DEF StoreTypeOK
<1>6. CASE m = 1
  <2>1. copies'[1] \notin Value /\ copies'[2] = copies[2]
    BY <1>2, <1>5, <1>6
  <2>2. copies[2] = old
    BY <1>3, <1>5, <1>6, <1>2 DEF Copies
  <2>3. Stored = old
    BY <1>5, <1>6, FirstValid DEF Stored
  <2>4. LoadFrom(copies') = old
    BY <2>1, <2>2, <1>5, SecondValid
  <2>5. Stored' = old
    BY <2>4, <1>2 DEF Stored, LoadFrom
  <2>6. SomeValid'
    BY <2>1, <2>2, <1>5, <1>2 DEF SomeValid
  <2> QED
    BY <2>3, <2>5, <2>6, <1>1, <1>2
<1>7. CASE m # 1
  <2>1. copies[1] = ram /\ copies'[1] = ram
    BY <1>2, <1>3, <1>4, <1>5, <1>7 DEF Copies
  <2>2. LoadFrom(copies') = ram
    BY <2>1, <1>2, FirstValid
  <2>3. Stored' = ram
    BY <2>2, <1>2 DEF Stored, LoadFrom
  <2>4. SomeValid'
    BY <2>1, <1>2 DEF SomeValid
  <2> QED
    BY <2>3, <2>4, <1>1, <1>2
<1> QED
  BY <1>6, <1>7

\* Completing a copy stores the working copy; the last one changes nothing.
LEMMA EndWriteStored ==
  ASSUME StoreInv, EndWrite
  PROVE  /\ Stored' = ram /\ ram' = ram /\ todo # {}
         /\ todo' = {} => Stored = ram
         /\ SomeValid'
<1> USE StoreAssumption
<1>1. PICK c \in Copies : /\ IsCurrent(c) /\ copies[c] = Torn
                          /\ copies' = [copies EXCEPT ![c] = ram]
                          /\ todo' = todo \ {c}
                          /\ ram' = ram
  BY DEF EndWrite
<1>2. /\ StoreTypeOK /\ Writing /\ todo # {} /\ ram \in Value /\ c \in todo
      /\ 1 \in Copies /\ 2 \in Copies /\ Copies' = Copies
  BY <1>1 DEF StoreInv, StoreTypeOK, IsCurrent, Copies
<1>3. PICK m \in todo, old \in Value \cup {Torn} :
        /\ todo = m..NCopies \/ (todo = {m} /\ copies[m] = Torn)
        /\ \A d \in Copies \ todo : copies[d] = ram
        /\ copies[m] \in {Torn, old}
        /\ \A d \in todo \ {m} : copies[d] = old
  BY <1>2 DEF Writing
<1>4. c = m /\ m \in Copies
  BY <1>1, <1>2, <1>3, CurrentIsFirst
<1>5. copies'[1] = ram
  <2>1. CASE m = 1
    BY <2>1, <1>1, <1>2, <1>4 DEF StoreTypeOK
  <2>2. CASE m # 1
    BY <2>2, <1>1, <1>2, <1>3, <1>4 DEF StoreTypeOK, Copies
  <2> QED
    BY <2>1, <2>2
<1>6. LoadFrom(copies') = ram
  BY <1>5, <1>2, FirstValid
<1>7. Stored' = ram
  BY <1>6, <1>2 DEF Stored, LoadFrom
<1>8. SomeValid'
  BY <1>5, <1>2 DEF SomeValid
<1>9. ASSUME todo' = {} PROVE Stored = ram
  <2>1. todo = {m}
    BY <1>1, <1>3, <1>4, <1>9
  <2>2. CASE m = 1
    <3>1. copies[1] \notin Value /\ copies[2] = ram
      BY <2>1, <2>2, <1>1, <1>2, <1>3, <1>4
    <3> QED
      BY <3>1, <1>2, SecondValid DEF Stored
  <2>3. CASE m # 1
    <3>1. copies[1] = ram
      BY <2>1, <2>3, <1>2, <1>3
    <3> QED
      BY <3>1, <1>2, FirstValid DEF Stored
  <2> QED
    BY <2>2, <2>3
<1> QED
  BY <1>1, <1>2, <1>7, <1>8, <1>9

\* Every step is one of AtomicState or none, and keeps a valid copy.
LEMMA StoreStep ==
  ASSUME StoreInv, [StoreNext]_storeVars
  PROVE  /\ [Atomic!Next]_(Atomic!vars)
         /\ SomeValid => SomeValid'
<1> USE DEF Atomic!vars, Atomic!Next, Atomic!Load, Atomic!Set, Atomic!BeginSave,
            Atomic!Commit, Atomic!EndSave, Atomic!PowerLoss
<1>1. ASSUME copies' = copies PROVE Stored' = Stored /\ (SomeValid => SomeValid')
  BY <1>1 DEF Stored, LoadFrom, Copies, SomeValid
<1>2. CASE Load
  <2>1. copies' = copies /\ ram = Lost /\ ram' = Stored /\ (todo' # {}) \in BOOLEAN
    BY <1>2 DEF Load
  <2> QED
    BY <2>1, <1>1
<1>3. CASE Save
  <2>1. copies' = copies /\ ram' = ram /\ ram # Lost /\ ~(todo # {}) /\ todo' = Copies
    BY <1>3 DEF Save, Idle
  <2>2. 1 \in Copies
    BY StoreAssumption DEF Copies
  <2>3. (todo' # {}) = TRUE
    BY <2>1, <2>2
  <2> QED
    BY <2>1, <2>3, <1>1
<1>4. CASE BeginWrite
  <2>1. (todo' # {}) = (todo # {})
    BY <1>4, BeginWriteStored
  <2> QED
    BY <1>4, <2>1, BeginWriteStored
<1>5. CASE EndWrite
  <2>1. CASE todo' = {}
    <3>1. (todo' # {}) = FALSE
      BY <2>1
    <3> QED
      BY <1>5, <2>1, <3>1, EndWriteStored
  <2>2. CASE todo' # {}
    <3>1. (todo' # {}) = (todo # {})
      BY <1>5, <2>2, EndWriteStored
    <3> QED
      BY <1>5, <3>1, EndWriteStored
  <2> QED
    BY <2>1, <2>2
<1>6. CASE Reset
  <2>1. copies' = copies /\ ram' = Lost /\ (todo' # {}) = FALSE
    BY <1>6 DEF Reset
  <2> QED
    BY <2>1, <1>1
<1>7. CASE \E v \in Value : Set(v)
  <2>1. /\ copies' = copies /\ ram # Lost /\ ~(todo # {}) /\ ram' \in Value
        /\ (todo' # {}) = (todo # {})
    BY <1>7 DEF Set, Idle
  <2> QED
    BY <2>1, <1>1
<1>8. CASE UNCHANGED storeVars
  <2>1. copies' = copies /\ ram' = ram /\ (todo' # {}) = (todo # {})
    BY <1>8 DEF storeVars
  <2> QED
    BY <2>1, <1>1
<1> QED
  BY <1>2, <1>3, <1>4, <1>5, <1>6, <1>7, <1>8 DEF StoreNext

(* The three copies, written and repaired in this order, give the scripts   *)
(* the atomic cell they are written for.                                    *)
THEOREM StoreIsAtomic == StoreSpec => AtomicSpec
<1>1. StoreInit => Atomic!Init
  <2> SUFFICES ASSUME StoreInit PROVE Atomic!Init
    OBVIOUS
  <2>1. StoreInv
    BY StoreInitInv
  <2>2. ram = Lost /\ (todo # {}) = FALSE
    BY DEF StoreInit
  <2> QED
    BY <2>1, <2>2, StoredInValue DEF Atomic!Init
<1>2. StoreInv /\ [StoreNext]_storeVars => [Atomic!Next]_(Atomic!vars)
  BY StoreStep
<1> QED
  BY <1>1, <1>2, StoreCorrect, PTL DEF StoreSpec, AtomicSpec, Atomic!Spec

\* However many saves are interrupted, the EEPROM keeps a valid copy.
THEOREM StoreNeverForgets == StoreSpec => NeverForgets
<1>1. StoreInv /\ [StoreNext]_storeVars => [SomeValid => SomeValid']_storeVars
  BY StoreStep
<1> QED
  BY <1>1, StoreCorrect, PTL DEF StoreSpec, NeverForgets
=============================================================================
