---------------------------- MODULE PatternProofs ----------------------------
(* What pattern-fill writes and what pattern-check says of it, for any width *)
(* of size_t that is a multiple of 4, any card and any arguments.            *)
EXTENDS PatternTest, SequenceTheorems, TLAPS

USE PatternAssumption

-----------------------------------------------------------------------------
(* The operators *)

LEMMA MinOfProperty ==
  ASSUME NEW x \in Int, NEW y \in Int
  PROVE  /\ MinOf(x, y) \in Int /\ MinOf(x, y) <= x /\ MinOf(x, y) <= y
         /\ MinOf(x, y) = x \/ MinOf(x, y) = y
  BY DEF MinOf

\* Words of size_t: a remainder is one, and a small number is its own.
LEMMA ModProperty ==
  ASSUME NEW x \in Int
  PROVE  x % W \in 0..(W - 1) /\ (x \in 0..(W - 1) => x % W = x)
  OBVIOUS

\* A multiple of 4 is still one when size_t has wrapped around.
LEMMA ModKeepsWords ==
  ASSUME NEW x \in Nat, x % 4 = 0
  PROVE  (x % W) % 4 = 0
<1>1. PICK w \in Nat : W = 4 * w
  <2>1. W = 4 * (W \div 4) /\ W \div 4 \in Nat
    OBVIOUS
  <2> QED BY <2>1
<1>2. PICK q \in Nat : x = W * q + (x % W)
  <2>1. x = W * (x \div W) + (x % W) /\ x \div W \in Nat
    OBVIOUS
  <2> QED BY <2>1
<1>3. W * q = 4 * (w * q) /\ w * q \in Nat
  BY <1>1
<1> DEFINE m == x % W
           p == w * q
<1>4. x = 4 * p + m /\ p \in Nat /\ m \in Int
  BY <1>2, <1>3
<1> HIDE DEF m, p
<1>5. m % 4 = 0
  BY <1>4
<1> QED BY <1>5 DEF m

\* fill_block writes to every byte of a block the pattern of its address, as
\* long as the block does not wrap around.
LEMMA FillBlockBytes ==
  ASSUME NEW n \in 0..(W - 1), NEW start \in 0..(W - 1), start + n <= W, NEW j \in 0..(n - 1)
  PROVE  fill_block(n, start)[j] = Byte(start + j)
<1> DEFINE offset == start % 4
           value_h == start - offset
           head == IF offset # 0 THEN MinOf(4 - offset, n) ELSE 0
           next == IF offset # 0 THEN value_h + 4 ELSE value_h
<1>1. offset \in 0..3 /\ value_h \in Nat /\ value_h % 4 = 0 /\ start = value_h + offset
  OBVIOUS
<1>2. fill_block(n, start)[j] =
        IF j < head THEN <<value_h, offset + j>>
        ELSE <<(next + 4 * ((j - head) \div 4)) % W, (j - head) % 4>>
  BY DEF fill_block
<1>3. CASE j < head
  <2>1. offset + j \in 0..3
    BY <1>1, <1>3 DEF MinOf
  <2> HIDE DEF offset, value_h, head
  <2>2. (start + j) % 4 = offset + j
    BY <1>1, <2>1
  <2>3. (start + j) - ((start + j) % 4) = value_h
    BY <1>1, <2>1, <2>2
  <2> QED BY <1>2, <1>3, <2>2, <2>3 DEF Byte
<1>4. CASE ~(j < head)
  <2> DEFINE q == j - head
  <2>1. q \in Nat /\ start + j = next + q /\ next \in Nat /\ next % 4 = 0
    BY <1>1, <1>4 DEF MinOf
  <2> HIDE DEF q, next, head, offset, value_h
  <2>2. q = 4 * (q \div 4) + (q % 4) /\ q % 4 \in 0..3 /\ q \div 4 \in Nat
    BY <2>1
  <2>3. (start + j) % 4 = q % 4 /\ (start + j) - ((start + j) % 4) = next + 4 * (q \div 4)
    BY <2>1, <2>2
  <2>4. (next + 4 * (q \div 4)) % W = next + 4 * (q \div 4)
    BY <2>1, <2>2, ModProperty
  <2> QED BY <1>2, <1>4, <2>3, <2>4 DEF Byte, q
<1> QED BY <1>3, <1>4

\* Whatever it writes are bytes of the pattern.
LEMMA FillBlockTypes ==
  ASSUME NEW n \in 0..(W - 1), NEW start \in 0..(W - 1), NEW j \in 0..(n - 1)
  PROVE  \E x \in 0..(W - 1) : fill_block(n, start)[j] = Byte(x)
<1> DEFINE offset == start % 4
           value_h == start - offset
           head == IF offset # 0 THEN MinOf(4 - offset, n) ELSE 0
           next == IF offset # 0 THEN value_h + 4 ELSE value_h
<1>1. offset \in 0..3 /\ value_h \in Nat /\ value_h % 4 = 0 /\ start = value_h + offset
  OBVIOUS
<1>2. fill_block(n, start)[j] =
        IF j < head THEN <<value_h, offset + j>>
        ELSE <<(next + 4 * ((j - head) \div 4)) % W, (j - head) % 4>>
  BY DEF fill_block
<1>3. \A v \in 0..(W - 1), r \in 0..3 : v % 4 = 0 =>
        v + r \in 0..(W - 1) /\ Byte(v + r) = <<v, r>>
  <2> SUFFICES ASSUME NEW v \in 0..(W - 1), NEW r \in 0..3, v % 4 = 0
               PROVE  v + r \in 0..(W - 1) /\ Byte(v + r) = <<v, r>>
    OBVIOUS
  <2>1. (v + r) % 4 = r
    OBVIOUS
  <2>2. v + r < W
    OBVIOUS
  <2> QED BY <2>1, <2>2 DEF Byte
<1>4. CASE j < head
  <2>1. offset + j \in 0..3 /\ value_h \in 0..(W - 1)
    BY <1>1, <1>4 DEF MinOf
  <2> HIDE DEF offset, value_h, head
  <2> QED BY <1>1, <1>2, <1>3, <1>4, <2>1
<1>5. CASE ~(j < head)
  <2> DEFINE q == j - head
             v == next + 4 * (q \div 4)
  <2>1. q \in Nat /\ next \in Nat /\ next % 4 = 0
    BY <1>1, <1>5 DEF MinOf
  <2>2. q \div 4 \in Nat /\ q % 4 \in 0..3
    BY <2>1
  <2>3. v \in Nat /\ v % 4 = 0
    BY <2>1, <2>2
  <2> HIDE DEF v
  <2>4. v % W \in 0..(W - 1) /\ (v % W) % 4 = 0
    BY <2>3, ModProperty, ModKeepsWords
  <2> QED BY <1>2, <1>3, <1>5, <2>2, <2>4 DEF v
<1> QED BY <1>4, <1>5

-----------------------------------------------------------------------------
(* The types *)

\* A block fits into size_t, and what was transferred whole is on the card.
LEMMA LengthFacts ==
  ASSUME TypeOK
  PROVE  /\ Length \in 0..(W - 1) /\ Length <= block_size
         /\ Limit \in 0..(W - 1)
         /\ Transferred = Length => pos + Length \in 0..Cap
<1>1. /\ size \in 0..(W - 1) /\ block_size \in 0..(W - 1) /\ start_value \in 0..(W - 1)
      /\ current \in 0..(W - 1) /\ pos \in 0..Cap
  BY DEF TypeOK
<1>2. (size - current) % W \in 0..(W - 1) /\ (start_value + size) % W \in 0..(W - 1)
  BY <1>1, ModProperty
<1>3. Length \in 0..(W - 1) /\ Length <= block_size
  BY <1>1, <1>2 DEF Length, MinOf
<1>4. Transferred = Length => pos + Length \in 0..Cap
  BY <1>1, <1>3 DEF Transferred, MinOf
<1> QED BY <1>2, <1>3, <1>4 DEF Limit

\* Some of a block on the card.
LEMMA CardWritten ==
  ASSUME TypeOK, NEW n \in 0..Length,
         card' = [k \in DOMAIN card |->
                    IF k \in pos..(pos + n - 1)
                    THEN fill_block(Length, current)[k - pos] ELSE card[k]]
  PROVE  card' \in [0..(Cap - 1) -> Bytes]
<1>1. DOMAIN card = 0..(Cap - 1) /\ (\A k \in 0..(Cap - 1) : card[k] \in Bytes)
      /\ current \in 0..(W - 1) /\ pos \in 0..Cap
  BY DEF TypeOK
<1>2. ASSUME NEW k \in 0..(Cap - 1), k \in pos..(pos + n - 1)
      PROVE  fill_block(Length, current)[k - pos] \in Bytes
  <2>1. k - pos \in 0..(Length - 1)
    BY <1>1, <1>2, LengthFacts
  <2>2. PICK x \in 0..(W - 1) : fill_block(Length, current)[k - pos] = Byte(x)
    BY <1>1, <2>1, LengthFacts, FillBlockTypes
  <2> QED BY <2>2 DEF Bytes
<1> QED BY <1>1, <1>2

LEMMA TypeInit == Init => TypeOK
<1> SUFFICES ASSUME Init PROVE TypeOK
  OBVIOUS
<1>1. card \in [0..(Cap - 1) -> Bytes]
  BY DEF Init, Bytes
<1>2. out \in Seq({"ERR", "OK"} \X (0..(W - 1)))
  BY DEF Init
<1>3. 0 \in 0..(W - 1) /\ 0 \in 0..Cap
  OBVIOUS
<1> QED BY <1>1, <1>2, <1>3 DEF Init, TypeOK

\* A command that returns forgets its arguments.
LEMMA ReturnTypes ==
  ASSUME TypeOK, Return, card' \in [0..(Cap - 1) -> Bytes],
         filled' = None \/ filled' \in [size : 0..(W - 1), block_size : 0..(W - 1),
                                        start_value : 0..(W - 1)]
  PROVE  TypeOK'
<1>1. out' \in Seq({"ERR", "OK"} \X (0..(W - 1)))
  BY DEF Return
<1>2. 0 \in 0..(W - 1) /\ 0 \in 0..Cap
  OBVIOUS
<1> QED BY <1>1, <1>2 DEF Return, TypeOK

\* A turn of a loop goes on behind the block.
LEMMA TurnTypes ==
  ASSUME TypeOK, Transferred = Length, pos' = pos + Length, current' = (current + block_size) % W
  PROVE  pos' \in 0..Cap /\ current' \in 0..(W - 1)
<1>1. current + block_size \in Int
  BY DEF TypeOK
<1>2. (current + block_size) % W \in 0..(W - 1)
  BY <1>1, ModProperty
<1> QED BY <1>2, LengthFacts

\* A line more.
LEMMA LineTypes ==
  ASSUME TypeOK, NEW kind \in {"ERR", "OK"}
  PROVE  Append(out, <<kind, current>>) \in Seq({"ERR", "OK"} \X (0..(W - 1)))
<1>1. <<kind, current>> \in {"ERR", "OK"} \X (0..(W - 1))
  BY DEF TypeOK
<1> QED BY <1>1, AppendProperties DEF TypeOK

LEMMA TypeStep == TypeOK /\ [Next]_vars => TypeOK'
<1> SUFFICES ASSUME TypeOK, [Next]_vars PROVE TypeOK'
  OBVIOUS
<1> USE DEF argVars, loopVars, reportVars
<1>0. 0 \in 0..(W - 1) /\ 0 \in 0..Cap
  OBVIOUS
<1>1. CASE FillBlock
  <2>1. card' \in [0..(Cap - 1) -> Bytes]
    BY <1>1, CardWritten, LengthFacts DEF FillBlock
  <2>2. pos' \in 0..Cap /\ current' \in 0..(W - 1)
    BY <1>1, TurnTypes DEF FillBlock
  <2>3. UNCHANGED <<pc, argVars, reportVars, filled>>
    BY <1>1 DEF FillBlock
  <2> QED BY <2>1, <2>2, <2>3 DEF TypeOK
<1>2. CASE FillFails
  <2>1. PICK n \in 0..Transferred :
          /\ n < Length
          /\ card' = [k \in DOMAIN card |->
                        IF k \in pos..(pos + n - 1)
                        THEN fill_block(Length, current)[k - pos] ELSE card[k]]
    BY <1>2 DEF FillFails
  <2>2. n \in 0..Length
    BY <2>1, LengthFacts DEF TypeOK, Transferred, MinOf
  <2>3. card' \in [0..(Cap - 1) -> Bytes]
    BY <2>1, <2>2, CardWritten
  <2> QED BY <1>2, <2>3, ReturnTypes DEF FillFails, TypeOK
<1>3. CASE FillDone
  <2>1. filled' \in [size : 0..(W - 1), block_size : 0..(W - 1), start_value : 0..(W - 1)]
    BY <1>3 DEF FillDone, TypeOK
  <2> QED BY <1>3, <2>1, ReturnTypes DEF FillDone, TypeOK
<1>4. CASE CheckShort
  <2>1. out' \in Seq({"ERR", "OK"} \X (0..(W - 1)))
    BY <1>4, LineTypes DEF CheckShort, TypeOK
  <2>2. last_was_error' \in BOOLEAN
    BY <1>4 DEF CheckShort, Differs
  <2>3. pos' \in 0..Cap /\ current' \in 0..(W - 1)
    BY <1>4, TurnTypes DEF CheckShort
  <2>4. UNCHANGED <<card, pc, argVars, errors, filled>>
    BY <1>4 DEF CheckShort
  <2> QED BY <2>1, <2>2, <2>3, <2>4 DEF TypeOK
<1>5. CASE CheckBlock
  <2>1. out' \in Seq({"ERR", "OK"} \X (0..(W - 1))) /\ errors' \in Nat
    <3>1. CASE Differs
      <4>1. errors' = errors + 1 /\ out' = Append(out, <<"ERR", current>>)
        BY <1>5, <3>1 DEF CheckBlock
      <4>2. out' \in Seq({"ERR", "OK"} \X (0..(W - 1)))
        BY <4>1, LineTypes
      <4> QED BY <4>1, <4>2 DEF TypeOK
    <3>2. CASE ~Differs
      BY <1>5, <3>2 DEF CheckBlock, TypeOK
    <3> QED BY <3>1, <3>2
  <2>2. pos' \in 0..Cap /\ current' \in 0..(W - 1)
    BY <1>5, TurnTypes DEF CheckBlock
  <2>3. UNCHANGED <<card, pc, argVars, last_was_error, filled>>
    BY <1>5 DEF CheckBlock
  <2> QED BY <2>1, <2>2, <2>3 DEF TypeOK
<1>6. CASE CheckTooMany \/ CheckFails \/ CheckDone
  <2>1. Return /\ UNCHANGED <<card, filled>>
    BY <1>6 DEF CheckTooMany, CheckFails, CheckDone
  <2> QED BY <2>1, ReturnTypes DEF TypeOK
<1>7. ASSUME NEW command \in {"fill", "check"}, NEW s \in Sizes, NEW b \in BlockSizes,
             NEW st \in Starts, NEW m \in Nat, Call(command, s, b, st, m)
      PROVE  TypeOK'
  <2>1. card' \in [0..(Cap - 1) -> Bytes]
    BY <1>7 DEF Call, TypeOK, Bytes
  <2>2. out' \in Seq({"ERR", "OK"} \X (0..(W - 1)))
    BY <1>7 DEF Call
  <2>3. s \in 0..(W - 1) /\ b \in 0..(W - 1) /\ st \in 0..(W - 1)
    OBVIOUS
  <2>4. filled' = None \/ filled' = filled
    BY <1>7 DEF Call
  <2> QED BY <1>0, <1>7, <2>1, <2>2, <2>3, <2>4 DEF Call, TypeOK
<1>8. ASSUME NEW K, GoesBad(K) PROVE TypeOK'
  <2>1. card' \in [0..(Cap - 1) -> Bytes]
    BY <1>8 DEF GoesBad, TypeOK, Bytes
  <2> QED BY <1>8, <2>1 DEF GoesBad, TypeOK
<1>9. CASE UNCHANGED vars
  BY <1>9 DEF vars, TypeOK
<1> QED BY <1>1, <1>2, <1>3, <1>4, <1>5, <1>6, <1>7, <1>8, <1>9 DEF Next, Loop

-----------------------------------------------------------------------------
(* The fill *)

\* A fill that is at it has not run to its end, and one from 0 is at the
\* address of the byte it will write next.
AtAddress ==
  /\ pc = "fill" => filled = None
  /\ pc # "idle" /\ start_value = 0 /\ InRange(size, block_size) =>
       pos = MinOf(current, size)

\* A loop from 0 over a range that does not wrap around.
LEMMA FromZero ==
  ASSUME TypeOK, AtAddress, pc # "idle", start_value = 0, InRange(size, block_size)
  PROVE  /\ Limit = size
         /\ current < Limit =>
              /\ pos = current
              /\ Length = MinOf(block_size, size - current)
              /\ pos + Length <= size /\ Length <= block_size
              /\ (current + block_size) % W = current + block_size
              /\ pos + Length = MinOf(current + block_size, size)
<1>1. /\ size \in 0..(W - 1) /\ block_size \in 0..(W - 1) /\ current \in 0..(W - 1)
      /\ size + block_size <= W
  BY DEF TypeOK, InRange
<1>2. Limit = size
  BY <1>1, ModProperty DEF Limit
<1>3. ASSUME current < size
      PROVE  /\ pos = current
             /\ Length = MinOf(block_size, size - current)
             /\ (current + block_size) % W = current + block_size
  <2>1. size - current \in 0..(W - 1) /\ current + block_size \in 0..(W - 1)
    BY <1>1, <1>3
  <2>2. (size - current) % W = size - current /\ (current + block_size) % W = current + block_size
    <3>1. size - current \in Int /\ current + block_size \in Int
      BY <2>1
    <3> QED BY <2>1, <3>1, ModProperty
  <2> QED BY <1>1, <1>3, <2>2 DEF AtAddress, MinOf, Length
<1>4. ASSUME current < size
      PROVE  /\ pos + Length <= size /\ Length <= block_size
             /\ pos + Length = MinOf(current + block_size, size)
  BY <1>1, <1>3, <1>4 DEF MinOf
<1> QED BY <1>2, <1>3, <1>4

\* The block written is the pattern of the addresses it is written to.
LEMMA BlockAtAddress ==
  ASSUME TypeOK, AtAddress, pc # "idle", start_value = 0, InRange(size, block_size),
         current < Limit, NEW k \in pos..(pos + Length - 1)
  PROVE  fill_block(Length, current)[k - pos] = Byte(k)
<1>1. pos = current /\ pos + Length <= size /\ size <= W - 1 /\ size \in Nat
  BY FromZero DEF TypeOK
<1>2. Length \in 0..(W - 1) /\ current \in 0..(W - 1)
  BY LengthFacts DEF TypeOK
<1> DEFINE j == k - pos
<1>3. j \in 0..(Length - 1) /\ current + j = k /\ current + Length <= W
  BY <1>1, <1>2
<1> HIDE DEF j
<1>4. fill_block(Length, current)[j] = Byte(current + j)
  BY <1>2, <1>3, FillBlockBytes
<1> QED BY <1>3, <1>4 DEF j

LEMMA AddressStep == TypeOK /\ AtAddress /\ [Next]_vars => AtAddress'
<1> SUFFICES ASSUME TypeOK, AtAddress, [Next]_vars PROVE AtAddress'
  OBVIOUS
<1> USE DEF argVars, loopVars, reportVars
<1>1. CASE FillBlock \/ CheckShort \/ CheckBlock
  <2>1. /\ pc # "idle" /\ current < Limit /\ Transferred = Length
        /\ pos' = pos + Length /\ current' = (current + block_size) % W
        /\ UNCHANGED <<pc, size, block_size, start_value, filled>>
    BY <1>1 DEF FillBlock, CheckShort, CheckBlock
  <2>2. start_value = 0 /\ InRange(size, block_size) =>
          pos' = MinOf(current', size)
    BY <2>1, FromZero
  <2> QED BY <2>1, <2>2 DEF AtAddress, InRange, MinOf
<1>2. CASE FillFails \/ FillDone \/ CheckTooMany \/ CheckFails \/ CheckDone
  <2>1. pc' = "idle"
    BY <1>2 DEF FillFails, FillDone, CheckTooMany, CheckFails, CheckDone, Return
  <2> QED BY <2>1 DEF AtAddress
<1>3. ASSUME NEW command \in {"fill", "check"}, NEW s \in Sizes, NEW b \in BlockSizes,
             NEW st \in Starts, NEW m \in Nat, Call(command, s, b, st, m)
      PROVE  AtAddress'
  <2>1. pc' = "fill" => filled' = None
    BY <1>3 DEF Call
  <2>2. start_value' = 0 => pos' = MinOf(current', size')
    BY <1>3 DEF Call, MinOf
  <2> QED BY <2>1, <2>2 DEF AtAddress
<1>4. ASSUME NEW K, GoesBad(K) PROVE AtAddress'
  BY <1>4 DEF GoesBad, AtAddress
<1>5. CASE UNCHANGED vars
  BY <1>5 DEF vars, AtAddress, InRange, MinOf
<1> QED BY <1>1, <1>2, <1>3, <1>4, <1>5 DEF Next, Loop

\* A block more of the pattern, and nothing of what was there is lost.
LEMMA FillBlockKeeps ==
  ASSUME TypeOK, AtAddress, FillRight, FillBlock, start_value = 0, InRange(size, block_size),
         NEW k \in 0..(pos' - 1)
  PROVE  card'[k] = Byte(k)
<1>1. /\ pc = "fill" /\ current < Limit /\ Transferred = Length /\ pos' = pos + Length
      /\ card' = [i \in DOMAIN card |->
                    IF i \in pos..(pos + Length - 1)
                    THEN fill_block(Length, current)[i - pos] ELSE card[i]]
  BY DEF FillBlock
<1>2. DOMAIN card = 0..(Cap - 1) /\ pos \in 0..Cap /\ pos + Length \in 0..Cap /\ Length \in Nat
  BY <1>1, LengthFacts DEF TypeOK
<1>3. k \in DOMAIN card
  BY <1>1, <1>2
<1>4. CASE k \in pos..(pos + Length - 1)
  <2>1. card'[k] = fill_block(Length, current)[k - pos]
    BY <1>1, <1>3, <1>4
  <2> QED BY <1>1, <1>4, <2>1, BlockAtAddress
<1>5. CASE k \in 0..(pos - 1)
  <2>1. k \notin pos..(pos + Length - 1)
    BY <1>2, <1>5
  <2>2. card'[k] = card[k]
    BY <1>1, <1>3, <2>1
  <2> QED BY <1>1, <1>5, <2>2 DEF FillRight
<1> QED BY <1>1, <1>2, <1>4, <1>5

LEMMA FillRightStep == TypeOK /\ AtAddress /\ FillRight /\ [Next]_vars => FillRight'
<1> SUFFICES ASSUME TypeOK, AtAddress, FillRight, [Next]_vars PROVE FillRight'
  OBVIOUS
<1> USE DEF argVars, loopVars, reportVars
<1>1. CASE FillBlock
  <2>1. pc' = "fill" /\ filled' = None /\ UNCHANGED <<size, block_size, start_value>>
    BY <1>1 DEF FillBlock, AtAddress
  <2>2. start_value' = 0 /\ InRange(size', block_size') => \A k \in 0..(pos' - 1) : card'[k] = Byte(k)
    BY <1>1, <2>1, FillBlockKeeps
  <2> QED BY <2>1, <2>2 DEF FillRight
<1>2. CASE FillFails
  <2>1. pc' = "idle" /\ filled' = None
    BY <1>2 DEF FillFails, Return, AtAddress
  <2> QED BY <2>1 DEF FillRight
<1>3. CASE FillDone
  <2>1. /\ pc = "fill" /\ pc' = "idle" /\ current >= Limit /\ card' = card
        /\ filled'.size = size /\ filled'.block_size = block_size
        /\ filled'.start_value = start_value
    BY <1>3 DEF FillDone, Return
  <2>2. ASSUME start_value = 0, InRange(size, block_size)
        PROVE  size <= Cap /\ \A k \in 0..(size - 1) : card[k] \in {Byte(k), Bad}
    <3>1. pos = size
      BY <2>1, <2>2, FromZero DEF AtAddress, MinOf, TypeOK
    <3>2. \A k \in 0..(pos - 1) : card[k] = Byte(k)
      BY <2>1, <2>2 DEF FillRight
    <3> QED BY <3>1, <3>2 DEF TypeOK
  <2> QED BY <2>1, <2>2 DEF FillRight
<1>4. CASE CheckShort \/ CheckBlock \/ CheckTooMany \/ CheckFails \/ CheckDone
  <2>1. pc' # "fill" /\ UNCHANGED <<card, filled>>
    BY <1>4 DEF CheckShort, CheckBlock, CheckTooMany, CheckFails, CheckDone, Return
  <2> QED BY <2>1 DEF FillRight
<1>5. ASSUME NEW command \in {"fill", "check"}, NEW s \in Sizes, NEW b \in BlockSizes,
             NEW st \in Starts, NEW m \in Nat, Call(command, s, b, st, m)
      PROVE  FillRight'
  <2>1. CASE command = "fill"
    <3>1. filled' = None /\ pos' = 0
      BY <1>5, <2>1 DEF Call
    <3> QED BY <3>1 DEF FillRight
  <2>2. CASE command = "check"
    <3>1. pc' = "check" /\ UNCHANGED <<card, filled>>
      BY <1>5, <2>2 DEF Call
    <3> QED BY <3>1 DEF FillRight
  <2> QED BY <2>1, <2>2
<1>6. ASSUME NEW K, GoesBad(K) PROVE FillRight'
  <2>1. pc' = "idle" /\ filled' = filled /\ DOMAIN card = 0..(Cap - 1)
    BY <1>6 DEF GoesBad, TypeOK
  <2>2. \A k \in 0..(Cap - 1) : card'[k] \in {card[k], Bad}
    BY <1>6, <2>1 DEF GoesBad
  <2>3. ASSUME filled # None, filled.start_value = 0, InRange(filled.size, filled.block_size)
        PROVE  filled.size <= Cap /\ \A k \in 0..(filled.size - 1) : card'[k] \in {Byte(k), Bad}
    <3>1. filled.size <= Cap /\ filled.size \in Nat
      BY <2>3 DEF FillRight, TypeOK
    <3>2. \A k \in 0..(filled.size - 1) : card[k] \in {Byte(k), Bad}
      BY <2>3 DEF FillRight
    <3> QED BY <2>2, <3>1, <3>2
  <2> QED BY <2>1, <2>3 DEF FillRight
<1>7. CASE UNCHANGED vars
  BY <1>7 DEF vars, FillRight, InRange
<1> QED BY <1>1, <1>2, <1>3, <1>4, <1>5, <1>6, <1>7 DEF Next, Loop

LEMMA FillInvariant == Spec => [](TypeOK /\ AtAddress /\ FillRight)
<1>1. Init => AtAddress /\ FillRight
  BY DEF Init, AtAddress, FillRight
<1> QED BY <1>1, TypeInit, TypeStep, AddressStep, FillRightStep, PTL DEF Spec

\* The variables of the two commands have their types: no address, length or
\* position leaves its range, whatever the arguments.
THEOREM Types == Spec => []TypeOK
  BY FillInvariant, PTL

\* pattern-fill from 0 writes to every byte up to size the pattern of its own
\* address, for every block size, size of the card and width of size_t.
THEOREM FillIsRight == Spec => []FillRight
  BY FillInvariant, PTL

\* A fill from 0 that does not wrap around leaves what is beyond its size.
KeepsRest ==
  pc = "fill" /\ start_value = 0 /\ InRange(size, block_size) =>
    \A k \in DOMAIN card : card'[k] # card[k] => k < size

\* pattern-fill from 0 changes no byte beyond size, whatever the block size and
\* wherever a transfer fails.  From a start_value above size the last block is
\* not cut at all (sd-card-test.c:195): a fill of 6 bytes in blocks of 4 from
\* the address 8 writes 8.
THEOREM FillKeepsRest == Spec => [][KeepsRest]_vars
<1>1. ASSUME TypeOK, AtAddress, [Next]_vars PROVE [KeepsRest]_vars
  <2> SUFFICES ASSUME Next, pc = "fill", start_value = 0, InRange(size, block_size),
                      NEW k \in DOMAIN card, card'[k] # card[k]
               PROVE  k < size
    BY <1>1 DEF KeepsRest
  <2>1. current < Limit => pos + Length <= size
    BY <1>1, FromZero
  <2>2. /\ pos \in Nat /\ Length \in Nat /\ size \in Nat /\ k \in Int
        /\ Transferred = Length \/ Transferred = Cap - pos
    <3>1. pos \in Nat /\ Length \in Nat /\ size \in Nat /\ DOMAIN card = 0..(Cap - 1)
      BY <1>1, LengthFacts DEF TypeOK
    <3> QED BY <3>1 DEF Transferred, MinOf
  <2>3. CASE FillBlock
    <3>1. current < Limit /\ k \in pos..(pos + Length - 1)
      BY <2>3 DEF FillBlock
    <3> QED BY <2>1, <2>2, <3>1
  <2>4. CASE FillFails
    <3>1. PICK n \in 0..Transferred :
            /\ n < Length
            /\ card' = [x \in DOMAIN card |->
                 IF x \in pos..(pos + n - 1)
                 THEN fill_block(Length, current)[x - pos] ELSE card[x]]
      BY <2>4 DEF FillFails
    <3>2. current < Limit /\ k \in pos..(pos + n - 1)
      BY <2>4, <3>1 DEF FillFails
    <3> QED BY <2>1, <2>2, <3>1, <3>2
  <2>5. CASE FillDone \/ CheckShort \/ CheckBlock \/ CheckTooMany \/ CheckDone \/ CheckFails
    BY <2>5 DEF FillDone, CheckShort, CheckBlock, CheckTooMany, CheckDone, CheckFails
  <2>6. ~(\E command \in {"fill", "check"} : \E s, b, st, m : Call(command, s, b, st, m))
    BY DEF Call
  <2>7. ~(\E K : GoesBad(K))
    BY DEF GoesBad
  <2> QED BY <2>3, <2>4, <2>5, <2>6, <2>7 DEF Next, Loop
<1> QED BY <1>1, FillInvariant, PTL DEF Spec

-----------------------------------------------------------------------------
(* The check with a number of errors *)

ReportInv ==
  /\ pc = "check" /\ ~Short => errors = Len(out) /\ errors < max_errors
  /\ Detects

\* A bad byte is not what the check expects there.
LEMMA BadDiffers ==
  ASSUME TypeOK, AtAddress, pc = "check", start_value = 0, InRange(size, block_size),
         current < Limit, NEW k \in pos..(pos + Length - 1), card[k] = Bad
  PROVE  Differs
<1>1. fill_block(Length, current)[k - pos] = Byte(k)
  BY BlockAtAddress
<1>2. k \in 0..(W - 1)
  <2>1. pos + Length <= size /\ size <= W - 1 /\ pos \in Nat /\ Length \in Nat /\ size \in Nat
    BY FromZero, LengthFacts DEF TypeOK
  <2> QED BY <2>1
<1>3. Bad # Byte(k)
  BY <1>2, BadAssumption
<1> QED BY <1>1, <1>3 DEF Differs

LEMMA CheckBlockReports == ASSUME TypeOK, AtAddress, ReportInv, CheckBlock PROVE ReportInv'
<1> USE DEF argVars, loopVars, reportVars
<1>1. /\ pc = "check" /\ ~Short /\ current < Limit /\ Transferred = Length
      /\ pos' = pos + Length
      /\ UNCHANGED <<card, pc, size, block_size, start_value, max_errors, filled>>
  BY DEF CheckBlock
<1>2. errors = Len(out) /\ errors < max_errors
  BY <1>1 DEF ReportInv
<1>3. errors' = Len(out') /\ errors' < max_errors
  BY <1>2 DEF CheckBlock, TypeOK
<1>4. ASSUME SameAsFilled, start_value = 0, InRange(size, block_size),
             NEW k \in BadBytes, k < pos'
      PROVE  \E i \in DOMAIN out' : k \in out'[i][2]..(out'[i][2] + block_size - 1)
  <2>1. CASE k < pos
    <3>1. PICK i \in DOMAIN out : k \in out[i][2]..(out[i][2] + block_size - 1)
      BY <1>1, <1>4, <2>1 DEF ReportInv, Detects, Checked
    <3>2. i \in DOMAIN out' /\ out'[i] = out[i]
      <4>1. out' = out \/ out' = Append(out, <<"ERR", current>>)
        BY DEF CheckBlock
      <4>2. out \in Seq({"ERR", "OK"} \X (0..(W - 1)))
        BY DEF TypeOK
      <4>3. i \in 1..Len(out) /\ Len(out) \in Nat
        BY <3>1, <4>2
      <4>4. CASE out' = Append(out, <<"ERR", current>>)
        <5> HIDE DEF CheckBlock
        <5> QED BY <4>2, <4>3, <4>4
      <4> QED BY <3>1, <4>1, <4>4
    <3> QED BY <3>1, <3>2
  <2>2. CASE k \in pos..(pos + Length - 1)
    <3>1. Differs
      BY <1>1, <1>4, <2>2, BadDiffers DEF BadBytes
    <3>2. out' = Append(out, <<"ERR", current>>)
      BY <3>1 DEF CheckBlock
    <3>3. Len(out) + 1 \in DOMAIN out' /\ out'[Len(out) + 1] = <<"ERR", current>>
      BY <3>2 DEF TypeOK
    <3>4. k \in current..(current + block_size - 1)
      <4>1. pos = current
        BY <1>1, <1>4, FromZero
      <4>2. /\ Length \in Nat /\ block_size \in Nat /\ current \in Nat
            /\ Length <= block_size
        BY LengthFacts DEF TypeOK
      <4> HIDE DEF CheckBlock
      <4> QED BY <2>2, <4>1, <4>2
    <3> QED BY <3>3, <3>4
  <2>3. k \in Int /\ 0 <= k
    BY DEF BadBytes, TypeOK
  <2> QED BY <1>1, <1>4, <2>1, <2>2, <2>3, LengthFacts DEF TypeOK
<1>5. SameAsFilled' => SameAsFilled
  BY <1>1 DEF SameAsFilled, InRange
<1>6. BadBytes' = BadBytes
  BY <1>1 DEF BadBytes
<1>7. Detects'
  BY <1>1, <1>2, <1>3, <1>4, <1>5, <1>6 DEF Detects, Checked, Short, InRange
<1>8. UNCHANGED max_errors
  BY <1>1
<1>9. (pc = "check" /\ ~Short => errors = Len(out) /\ errors < max_errors)'
  BY <1>3, <1>8
<1> QED BY <1>7, <1>9 DEF ReportInv

LEMMA ReportStep == TypeOK /\ AtAddress /\ ReportInv /\ [Next]_vars => ReportInv'
<1> SUFFICES ASSUME TypeOK, AtAddress, ReportInv, [Next]_vars PROVE ReportInv'
  OBVIOUS
<1> USE DEF argVars, loopVars, reportVars
<1>1. CASE CheckBlock
  BY <1>1, CheckBlockReports
<1>2. CASE CheckShort
  <2>1. pc' = "check" => Short'
    BY <1>2 DEF CheckShort, Short
  <2>2. Detects'
    BY <2>1 DEF Detects
  <2>3. (pc = "check" /\ ~Short => errors = Len(out) /\ errors < max_errors)'
    BY <2>1
  <2> QED BY <2>2, <2>3 DEF ReportInv
<1>3. CASE FillBlock \/ FillFails \/ FillDone \/ CheckTooMany \/ CheckFails \/ CheckDone
  <2>1. pc' # "check"
    BY <1>3 DEF FillBlock, FillFails, FillDone, CheckTooMany, CheckFails, CheckDone, Return
  <2>2. Detects'
    BY <2>1 DEF Detects
  <2>3. (pc = "check" /\ ~Short => errors = Len(out) /\ errors < max_errors)'
    BY <2>1
  <2> QED BY <2>2, <2>3 DEF ReportInv
<1>4. ASSUME NEW command \in {"fill", "check"}, NEW s \in Sizes, NEW b \in BlockSizes,
             NEW st \in Starts, NEW m \in Nat, Call(command, s, b, st, m)
      PROVE  ReportInv'
  <2>1. errors' = 0 /\ out' = <<>> /\ max_errors' = m /\ pos' = 0
    BY <1>4 DEF Call
  <2>2. Len(out') = 0
    BY <2>1
  <2>3. command = "check" => card' = card
    BY <1>4 DEF Call
  <2>4. pc' = "check" => Checked' = {}
    <3>1. \A k \in DOMAIN card : ~(k < 0)
      BY DEF TypeOK
    <3> QED BY <1>4, <2>1, <2>3, <3>1 DEF Checked, BadBytes, Call
  <2> QED BY <2>1, <2>2, <2>4 DEF ReportInv, Detects, Short
<1>5. ASSUME NEW K, GoesBad(K) PROVE ReportInv'
  BY <1>5 DEF GoesBad, ReportInv, Detects
<1>6. CASE UNCHANGED vars
  <2>1. UNCHANGED <<card, pc, size, block_size, start_value, max_errors, pos, errors, out, filled>>
    BY <1>6 DEF vars
  <2> QED BY <2>1 DEF ReportInv, Detects, Short, SameAsFilled, InRange, Checked, BadBytes
<1> QED BY <1>1, <1>2, <1>3, <1>4, <1>5, <1>6 DEF Next, Loop

\* pattern-check with a number of errors: a bad byte in the part of the card
\* that was checked is in a block that was printed, and fewer errors than were
\* asked for are printed before the last.
THEOREM BadBytesFound == Spec => []Detects
<1>1. Init => ReportInv
  BY DEF Init, ReportInv, Detects
<1>2. ReportInv => Detects
  BY DEF ReportInv
<1> QED BY <1>1, <1>2, FillInvariant, ReportStep, PTL DEF Spec

-----------------------------------------------------------------------------
(* The check of a card that keeps its bytes.  With the arguments of the fill *)
(* the addresses may wrap around and the blocks overlap in what they hold;   *)
(* the check is right because it takes the steps the fill has taken.  Those  *)
(* steps are the set S of the addresses and positions of its blocks.         *)

Args == [size |-> size, block_size |-> block_size, start_value |-> start_value]

\* The length of the block at address c, and the end, for the arguments a.
LengthOf(a, c) == MinOf(a.block_size, (a.size - c) % W)
LimitOf(a) == (a.start_value + a.size) % W
Following(a, c, p) == <<(c + a.block_size) % W, p + LengthOf(a, c)>>

Steps == (0..(W - 1)) \X (0..Cap)

\* The block of address c is on the card at p, but for bytes that went bad.
Written(a, c, p) ==
  \A k \in DOMAIN card : k \in p..(p + LengthOf(a, c) - 1) =>
    card[k] \in {fill_block(LengthOf(a, c), c)[k - p], Bad}

\* The steps of the fill that runs: all but the one it is at are done.
Filling(S) ==
  /\ S \subseteq Steps /\ <<start_value, 0>> \in S /\ <<current, pos>> \in S
  /\ \A c \in 0..(W - 1), p \in 0..Cap :
       <<c, p>> \in S /\ <<c, p>> # <<current, pos>> =>
         /\ p + LengthOf(Args, c) <= pos
         /\ Written(Args, c, p) /\ Following(Args, c, p) \in S

\* The steps of the fill that has run to its end.
Filled(S) ==
  /\ S \subseteq Steps /\ <<filled.start_value, 0>> \in S
  /\ \A c \in 0..(W - 1), p \in 0..Cap :
       <<c, p>> \in S /\ c < LimitOf(filled) =>
         Written(filled, c, p) /\ Following(filled, c, p) \in S

TraceInv ==
  /\ pc = "fill" => \E S \in SUBSET Steps : Filling(S)
  /\ filled # None =>
       \E S \in SUBSET Steps :
         Filled(S) /\ (pc = "check" /\ filled = Args => <<current, pos>> \in S)

AlarmInv == pc = "check" /\ SameAsFilled /\ BadBytes = {} => out = <<>> /\ ~last_was_error

\* One step more.
LEMMA FillingStep ==
  ASSUME TypeOK, FillBlock, NEW S \in SUBSET Steps, Filling(S),
         NEW T, T = S \cup {<<current', pos'>>}
  PROVE  Filling(T)'
<1> USE DEF argVars, loopVars, reportVars
<1>1. /\ pos' = pos + Length /\ current' = (current + block_size) % W
      /\ card' = [k \in DOMAIN card |->
                    IF k \in pos..(pos + Length - 1)
                    THEN fill_block(Length, current)[k - pos] ELSE card[k]]
      /\ Transferred = Length
      /\ UNCHANGED <<size, block_size, start_value>>
  BY DEF FillBlock
<1>2. pos' \in 0..Cap /\ current' \in 0..(W - 1) /\ Length \in Nat
  BY <1>1, TurnTypes, LengthFacts
<1>3. LengthOf(Args, current) = Length /\ Args' = Args
  BY <1>1 DEF LengthOf, Args, Length
<1>4. T \subseteq Steps /\ <<start_value', 0>> \in T /\ <<current', pos'>> \in T
  BY <1>1, <1>2 DEF Filling, Steps
<1>5. ASSUME NEW c \in 0..(W - 1), NEW p \in 0..Cap, <<c, p>> \in T, <<c, p>> # <<current', pos'>>
      PROVE  /\ p + LengthOf(Args, c) <= pos'
             /\ Written(Args, c, p)' /\ Following(Args, c, p) \in T
  <2>1. <<c, p>> \in S
    BY <1>5
  <2>2. CASE <<c, p>> = <<current, pos>>
    <3>1. c = current /\ p = pos
      BY <2>2
    <3>2. \A k \in DOMAIN card : k \in pos..(pos + Length - 1) =>
            card'[k] = fill_block(Length, current)[k - pos]
      BY <1>1
    <3>3. DOMAIN card' = DOMAIN card
      BY <1>1
    <3>4. Written(Args, c, p)'
      BY <1>3, <3>1, <3>2, <3>3 DEF Written
    <3>5. Following(Args, c, p) = <<current', pos'>>
      BY <1>1, <1>3, <3>1 DEF Following, Args
    <3>6. p + LengthOf(Args, c) <= pos'
      BY <1>1, <1>2, <1>3, <3>1
    <3> QED BY <3>4, <3>5, <3>6
  <2>3. CASE <<c, p>> # <<current, pos>>
    <3>1. p + LengthOf(Args, c) <= pos /\ Written(Args, c, p) /\ Following(Args, c, p) \in S
      BY <2>1, <2>3 DEF Filling
    <3>2. LengthOf(Args, c) \in Int /\ pos \in Nat
      <4>1. block_size \in Int /\ (size - c) % W \in Int
        BY DEF TypeOK
      <4> QED BY <4>1 DEF LengthOf, Args, MinOf, TypeOK
    <3>3. \A k \in DOMAIN card : k \in p..(p + LengthOf(Args, c) - 1) => card'[k] = card[k]
      BY <1>1, <1>2, <3>1, <3>2
    <3>4. DOMAIN card' = DOMAIN card
      BY <1>1
    <3>5. Written(Args, c, p)'
      BY <1>3, <3>1, <3>3, <3>4 DEF Written, LengthOf
    <3>6. p + LengthOf(Args, c) <= pos'
      BY <1>1, <1>2, <3>1, <3>2
    <3> QED BY <3>1, <3>5, <3>6
  <2> QED BY <2>2, <2>3
<1> QED BY <1>3, <1>4, <1>5 DEF Filling, Following, LengthOf

\* The last of them is at the end, and so a check may take them too.
LEMMA FillingDone ==
  ASSUME TypeOK, FillDone, NEW S \in SUBSET Steps, Filling(S)
  PROVE  Filled(S)'
<1>1. filled' = Args /\ card' = card /\ current >= Limit
  BY DEF FillDone, Args
<1>2. LimitOf(Args) = Limit /\ Args.start_value = start_value
  BY DEF LimitOf, Args, Limit
<1>3. ASSUME NEW c \in 0..(W - 1), NEW p \in 0..Cap, <<c, p>> \in S, c < Limit
      PROVE  Written(Args, c, p) /\ Following(Args, c, p) \in S
  <2>1. Limit \in Int
    BY LengthFacts
  <2>2. <<c, p>> # <<current, pos>>
    BY <1>1, <1>3, <2>1 DEF TypeOK
  <2> QED BY <1>3, <2>2 DEF Filling
<1>4. S \subseteq Steps /\ <<start_value, 0>> \in S
  BY DEF Filling
<1> HIDE DEF Args
<1> QED BY <1>1, <1>2, <1>3, <1>4 DEF Filled, Written, Following, LengthOf, LimitOf

\* A card that changes nowhere but where it goes bad.
LEMMA FilledKept ==
  ASSUME UNCHANGED filled, DOMAIN card' = DOMAIN card,
         \A k \in DOMAIN card : card'[k] \in {card[k], Bad},
         NEW S \in SUBSET Steps, Filled(S)
  PROVE  Filled(S)'
<1>1. \A c \in 0..(W - 1), p \in 0..Cap : Written(filled, c, p) => Written(filled, c, p)'
  BY DEF Written, LengthOf
<1> QED BY <1>1 DEF Filled, Following, LengthOf, LimitOf

\* A turn of the check takes a step of the fill.
LEMMA CheckTakesStep ==
  ASSUME TypeOK, TraceInv, pc = "check", current < Limit, Transferred = Length,
         filled = Args, filled # None,
         NEW S \in SUBSET Steps, Filled(S), <<current, pos>> \in S
  PROVE  /\ Written(Args, current, pos)
         /\ <<(current + block_size) % W, pos + Length>> \in S
<1>1. LimitOf(Args) = Limit /\ LengthOf(Args, current) = Length
      /\ Following(Args, current, pos) = <<(current + block_size) % W, pos + Length>>
  BY DEF LimitOf, Limit, LengthOf, Length, Following, Args
<1>2. current \in 0..(W - 1) /\ pos \in 0..Cap
  BY DEF TypeOK
<1> HIDE DEF Args
<1> QED BY <1>1, <1>2 DEF Filled

\* Of the loops only the turns of the check leave it where it was.
LEMMA TraceStep == TypeOK /\ AtAddress /\ TraceInv /\ [Next]_vars => TraceInv'
<1> SUFFICES ASSUME TypeOK, AtAddress, TraceInv, [Next]_vars PROVE TraceInv'
  OBVIOUS
<1> USE DEF argVars, loopVars, reportVars
<1>1. CASE FillBlock
  <2>1. PICK S \in SUBSET Steps : Filling(S)
    BY <1>1 DEF TraceInv, FillBlock
  <2>2. \E T : T = S \cup {<<current', pos'>>}
    OBVIOUS
  <2>3. PICK T : T = S \cup {<<current', pos'>>}
    BY <2>2
  <2>4. Filling(T)'
    BY <1>1, <2>1, <2>3, FillingStep
  <2>5. T \in SUBSET Steps
    BY <2>4 DEF Filling
  <2>6. filled' = None
    BY <1>1 DEF FillBlock, AtAddress
  <2> QED BY <2>4, <2>5, <2>6 DEF TraceInv
<1>2. CASE FillFails
  <2>1. pc' = "idle" /\ filled' = None
    BY <1>2 DEF FillFails, Return, AtAddress
  <2> QED BY <2>1 DEF TraceInv
<1>3. CASE FillDone
  <2>1. PICK S \in SUBSET Steps : Filling(S)
    BY <1>3 DEF TraceInv, FillDone
  <2>2. Filled(S)'
    BY <1>3, <2>1, FillingDone
  <2>3. pc' = "idle"
    BY <1>3 DEF FillDone, Return
  <2> QED BY <2>2, <2>3 DEF TraceInv
<1>4. CASE CheckShort \/ CheckBlock
  <2>1. /\ pc = "check" /\ pc' = "check" /\ current < Limit /\ Transferred = Length
        /\ current' = (current + block_size) % W /\ pos' = pos + Length
        /\ UNCHANGED <<card, filled, size, block_size, start_value>>
    BY <1>4 DEF CheckShort, CheckBlock
  <2>2. Args' = Args
    BY <2>1 DEF Args
  <2>3. ASSUME filled # None
        PROVE  (\E S \in SUBSET Steps :
                  Filled(S) /\ (pc = "check" /\ filled = Args => <<current, pos>> \in S))'
    <3>1. PICK S \in SUBSET Steps :
            Filled(S) /\ (pc = "check" /\ filled = Args => <<current, pos>> \in S)
      BY <2>3 DEF TraceInv
    <3>2. Filled(S)'
      BY <2>1, <3>1, FilledKept
    <3>3. filled' = Args' => <<current', pos'>> \in S
      BY <2>1, <2>2, <2>3, <3>1, CheckTakesStep
    <3> QED BY <3>2, <3>3
  <2> QED BY <2>1, <2>3 DEF TraceInv
<1>5. CASE CheckTooMany \/ CheckFails \/ CheckDone
  <2>1. pc' = "idle" /\ UNCHANGED <<card, filled>>
    BY <1>5 DEF CheckTooMany, CheckFails, CheckDone, Return
  <2> QED BY <2>1, FilledKept DEF TraceInv
<1>6. ASSUME NEW command \in {"fill", "check"}, NEW s \in Sizes, NEW b \in BlockSizes,
             NEW st \in Starts, NEW m \in Nat, Call(command, s, b, st, m)
      PROVE  TraceInv'
  <2>1. pc' = command /\ current' = st /\ pos' = 0 /\ start_value' = st
    BY <1>6 DEF Call
  <2>2. CASE command = "fill"
    <3>1. filled' = None
      BY <1>6, <2>2 DEF Call
    <3>2. {<<st, 0>>} \in SUBSET Steps
      BY DEF Steps
    <3>3. Filling({<<st, 0>>})'
      BY <2>1, <3>2 DEF Filling
    <3> QED BY <3>1, <3>2, <3>3 DEF TraceInv
  <2>3. CASE command = "check"
    <3>1. UNCHANGED <<card, filled>>
      BY <1>6, <2>3 DEF Call
    <3>2. ASSUME filled # None, NEW S \in SUBSET Steps, Filled(S)
          PROVE  Filled(S)' /\ (filled' = Args' => <<current', pos'>> \in S)
      <4>1. Filled(S)'
        BY <3>1, <3>2, FilledKept
      <4>2. filled' = Args' => filled'.start_value = st
        BY <2>1 DEF Args
      <4> QED BY <2>1, <4>1, <4>2 DEF Filled
    <3> QED BY <2>1, <2>3, <3>1, <3>2 DEF TraceInv
  <2> QED BY <2>2, <2>3
<1>7. ASSUME NEW K, GoesBad(K) PROVE TraceInv'
  <2>1. /\ pc' = "idle" /\ UNCHANGED filled /\ DOMAIN card' = DOMAIN card
        /\ \A k \in DOMAIN card : card'[k] \in {card[k], Bad}
    BY <1>7 DEF GoesBad
  <2> QED BY <2>1, FilledKept DEF TraceInv
<1>8. CASE UNCHANGED vars
  <2>1. UNCHANGED <<card, pc, size, block_size, start_value, current, pos, filled>>
    BY <1>8 DEF vars
  <2> QED BY <2>1 DEF TraceInv, Filling, Filled, Written, Following, LengthOf, LimitOf, Args
<1> QED BY <1>1, <1>2, <1>3, <1>4, <1>5, <1>6, <1>7, <1>8 DEF Next, Loop

\* Nothing differs when every byte was kept.
LEMMA NothingDiffers ==
  ASSUME TypeOK, AtAddress, FillRight, TraceInv, pc = "check", SameAsFilled, BadBytes = {},
         current < Limit, Transferred = Length
  PROVE  ~Differs
<1>1. pos + Length \in 0..Cap /\ Length \in Nat /\ pos \in Nat /\ DOMAIN card = 0..(Cap - 1)
  BY LengthFacts DEF TypeOK
<1>2. SUFFICES ASSUME NEW k \in pos..(pos + Length - 1)
               PROVE  card[k] = fill_block(Length, current)[k - pos]
  BY DEF Differs
<1>3. k \in DOMAIN card /\ card[k] # Bad
  BY <1>1, <1>2 DEF BadBytes
<1>4. CASE filled = Args
  <2>1. PICK S \in SUBSET Steps : Filled(S) /\ <<current, pos>> \in S
    BY <1>4 DEF TraceInv, SameAsFilled
  <2>2. Written(Args, current, pos)
    BY <1>4, <2>1, CheckTakesStep DEF SameAsFilled
  <2>3. LengthOf(Args, current) = Length
    BY DEF LengthOf, Length, Args
  <2> QED BY <1>2, <1>3, <2>2, <2>3 DEF Written
<1>5. CASE filled # Args
  <2>1. /\ filled # None /\ start_value = 0 /\ filled.start_value = 0 /\ size <= filled.size
        /\ InRange(size, block_size) /\ InRange(filled.size, filled.block_size)
    BY <1>5 DEF SameAsFilled, Args
  <2>2. pos + Length <= size /\ fill_block(Length, current)[k - pos] = Byte(k)
    BY <2>1, <1>2, FromZero, BlockAtAddress
  <2>3. k \in 0..(filled.size - 1)
    BY <1>1, <1>2, <2>1, <2>2 DEF TypeOK
  <2>4. card[k] \in {Byte(k), Bad}
    BY <2>1, <2>3 DEF FillRight
  <2> QED BY <1>3, <2>2, <2>4
<1> QED BY <1>4, <1>5

LEMMA AlarmStep ==
  TypeOK /\ AtAddress /\ FillRight /\ TraceInv /\ AlarmInv /\ [Next]_vars => AlarmInv'
<1> SUFFICES ASSUME TypeOK, AtAddress, FillRight, TraceInv, AlarmInv, [Next]_vars PROVE AlarmInv'
  OBVIOUS
<1> USE DEF argVars, loopVars, reportVars
<1>1. CASE CheckShort \/ CheckBlock
  <2>1. /\ pc = "check" /\ current < Limit /\ Transferred = Length
        /\ UNCHANGED <<card, filled, size, block_size, start_value>>
    BY <1>1 DEF CheckShort, CheckBlock
  <2>2. (SameAsFilled' => SameAsFilled) /\ BadBytes' = BadBytes
    BY <2>1 DEF SameAsFilled, InRange, BadBytes
  <2>3. ASSUME SameAsFilled, BadBytes = {} PROVE out' = <<>> /\ ~last_was_error'
    <3>1. ~Differs /\ out = <<>> /\ ~last_was_error
      BY <2>1, <2>3, NothingDiffers DEF AlarmInv
    <3>2. CASE CheckShort
      <4>1. Differs \in BOOLEAN /\ last_was_error \in BOOLEAN
        BY DEF Differs, TypeOK
      <4>2. Differs = last_was_error
        BY <3>1, <4>1
      <4> QED BY <3>1, <3>2, <4>2 DEF CheckShort
    <3>3. CASE CheckBlock
      BY <3>1, <3>3 DEF CheckBlock
    <3> QED BY <1>1, <3>2, <3>3
  <2> QED BY <2>2, <2>3 DEF AlarmInv
<1>2. CASE FillBlock \/ FillFails \/ FillDone \/ CheckTooMany \/ CheckFails \/ CheckDone
  <2>1. pc' # "check"
    BY <1>2 DEF FillBlock, FillFails, FillDone, CheckTooMany, CheckFails, CheckDone, Return
  <2> QED BY <2>1 DEF AlarmInv
<1>3. ASSUME NEW command \in {"fill", "check"}, NEW s \in Sizes, NEW b \in BlockSizes,
             NEW st \in Starts, NEW m \in Nat, Call(command, s, b, st, m)
      PROVE  AlarmInv'
  BY <1>3 DEF Call, AlarmInv
<1>4. ASSUME NEW K, GoesBad(K) PROVE AlarmInv'
  BY <1>4 DEF GoesBad, AlarmInv
<1>5. CASE UNCHANGED vars
  BY <1>5 DEF vars, AlarmInv, SameAsFilled, InRange, BadBytes
<1> QED BY <1>1, <1>2, <1>3, <1>4, <1>5 DEF Next, Loop

\* pattern-check reports nothing on a card that keeps its bytes: with the
\* arguments of the fill, even where the addresses wrap around, and from 0
\* with any other block size that does not.
THEOREM NoBlockAccused == Spec => []NoFalseAlarm
<1>1. Init => TraceInv /\ AlarmInv
  BY DEF Init, TraceInv, AlarmInv
<1>2. AlarmInv => NoFalseAlarm
  BY DEF AlarmInv, NoFalseAlarm
<1> QED BY <1>1, <1>2, FillInvariant, TraceStep, AlarmStep, PTL DEF Spec

-----------------------------------------------------------------------------
(* The short output: after every block the last line tells how it was, and   *)
(* the lines of later blocks have later addresses.                           *)

Lines(s, c) == {i \in DOMAIN s : s[i][2] <= c}
SaysErr(s, c) == \E i \in Lines(s, c) : s[i][1] = "ERR" /\ \A j \in Lines(s, c) : j <= i
Wrong(c) == \E b \in BadBytes : b \in c..MinOf(c + block_size - 1, size - 1)
LastLine(s) == s # <<>> /\ s[Len(s)][1] = "ERR"
Report == Seq({"ERR", "OK"} \X (0..(W - 1)))

ShortFromZero ==
  pc = "check" /\ Short /\ SameAsFilled /\ start_value = 0 /\ InRange(size, block_size)

MapInv ==
  ShortFromZero =>
    /\ \E n \in Nat : current = n * block_size
    /\ block_size # 0 =>
         /\ last_was_error <=> LastLine(out)
         /\ \A i \in DOMAIN out : out[i][2] < current
         /\ \A c \in Nat : c < current /\ (\E m \in Nat : c = m * block_size) =>
              (Wrong(c) <=> SaysErr(out, c))

\* Blocks that begin in the same block are the same.
LEMMA SameBlock ==
  ASSUME NEW b \in Nat \ {0}, NEW m \in Nat, NEW n \in Nat, n * b <= m * b, m * b < n * b + b
  PROVE  m = n
<1>1. CASE m > n
  <2>1. PICK d \in Nat : m = n + 1 + d
    <3>1. m - n - 1 \in Nat
      BY <1>1
    <3> QED BY <3>1
  <2>2. m * b = n * b + b + d * b /\ d * b >= 0
    BY <2>1
  <2> QED BY <2>2
<1>2. CASE m < n
  <2>1. PICK d \in Nat : n = m + 1 + d
    <3>1. n - m - 1 \in Nat
      BY <1>2
    <3> QED BY <3>1
  <2>2. n * b = m * b + b + d * b /\ d * b >= 0
    BY <2>1
  <2> QED BY <2>2
<1> QED BY <1>1, <1>2

\* When all lines are of blocks up to c the last one decides.
LEMMA LastDecides ==
  ASSUME NEW s \in Report, NEW c \in Nat, \A i \in DOMAIN s : s[i][2] <= c
  PROVE  SaysErr(s, c) <=> LastLine(s)
<1>1. Lines(s, c) = 1..Len(s) /\ Len(s) \in Nat
  BY DEF Lines, Report
<1>2. (s # <<>>) <=> Len(s) > 0
  BY EmptySeq DEF Report
<1>3. ASSUME LastLine(s) PROVE SaysErr(s, c)
  <2>1. Len(s) \in Lines(s, c) /\ s[Len(s)][1] = "ERR"
    BY <1>1, <1>2, <1>3 DEF LastLine
  <2>2. \A j \in Lines(s, c) : j <= Len(s)
    BY <1>1
  <2> QED BY <2>1, <2>2 DEF SaysErr
<1>4. ASSUME SaysErr(s, c) PROVE LastLine(s)
  <2>1. PICK i \in Lines(s, c) : s[i][1] = "ERR" /\ \A j \in Lines(s, c) : j <= i
    BY <1>4 DEF SaysErr
  <2>2. i \in 1..Len(s) /\ Len(s) \in Lines(s, c) /\ Len(s) > 0
    BY <1>1
  <2>3. Len(s) <= i
    BY <2>1, <2>2
  <2>4. i = Len(s)
    BY <1>1, <2>2, <2>3
  <2> QED BY <1>2, <2>1, <2>2, <2>4 DEF LastLine
<1> QED BY <1>3, <1>4

\* A line of a later block says nothing of an earlier one.
LEMMA EarlierLines ==
  ASSUME NEW s \in Report, NEW kind \in {"ERR", "OK"}, NEW d \in 0..(W - 1), NEW c \in Nat, c < d
  PROVE  SaysErr(Append(s, <<kind, d>>), c) <=> SaysErr(s, c)
<1> DEFINE t == Append(s, <<kind, d>>)
<1>1. /\ DOMAIN s = 1..Len(s) /\ DOMAIN t = 1..(Len(s) + 1) /\ Len(s) \in Nat
      /\ t[Len(s) + 1] = <<kind, d>>
      /\ \A i \in 1..Len(s) : t[i] = s[i]
  BY DEF Report
<1> HIDE DEF t
<1>2. Lines(t, c) = Lines(s, c) /\ Lines(s, c) \subseteq 1..Len(s)
  BY <1>1 DEF Lines
<1>3. SaysErr(t, c) <=> SaysErr(s, c)
  BY <1>1, <1>2 DEF SaysErr
<1> QED BY <1>3 DEF t

\* The block differs exactly when a byte of it went bad.
LEMMA DiffersIfWrong ==
  ASSUME TypeOK, AtAddress, FillRight, ShortFromZero, current < Limit, Transferred = Length
  PROVE  Differs <=> Wrong(current)
<1>1. /\ pos = current /\ Length = MinOf(block_size, size - current) /\ pos + Length <= size
      /\ pos + Length \in 0..Cap /\ Length \in Nat
  BY FromZero, LengthFacts DEF ShortFromZero
<1>2. /\ current \in Nat /\ size \in Nat /\ size <= W - 1 /\ block_size \in Nat
      /\ DOMAIN card = 0..(Cap - 1)
  BY DEF TypeOK
<1>3. pos + Length - 1 = MinOf(current + block_size - 1, size - 1)
  BY <1>1, <1>2 DEF MinOf
<1>4. \A k \in pos..(pos + Length - 1) : fill_block(Length, current)[k - pos] = Byte(k)
  BY BlockAtAddress DEF ShortFromZero
<1>5. /\ filled # None /\ filled.start_value = 0 /\ InRange(filled.size, filled.block_size)
      /\ size <= filled.size
  BY <1>2 DEF ShortFromZero, SameAsFilled, InRange
<1>6. filled.size \in Nat
  BY <1>5 DEF TypeOK
<1>7. \A k \in pos..(pos + Length - 1) :
        k \in DOMAIN card /\ card[k] \in {Byte(k), Bad} /\ Byte(k) # Bad
  <2> SUFFICES ASSUME NEW k \in pos..(pos + Length - 1)
               PROVE  k \in DOMAIN card /\ card[k] \in {Byte(k), Bad} /\ Byte(k) # Bad
    OBVIOUS
  <2>1. k \in DOMAIN card /\ k \in 0..(filled.size - 1) /\ k \in 0..(W - 1)
    <3>1. pos \in Nat /\ Length \in Nat /\ size \in Nat /\ Cap \in Nat /\ W \in Nat
      BY <1>1, <1>2, PatternAssumption
    <3>2. pos + Length <= Cap /\ pos + Length <= size /\ size <= W - 1 /\ size <= filled.size
      BY <1>1, <1>2, <1>5, <3>1
    <3>3. k \in Nat /\ k < pos + Length
      BY <3>1
    <3>4. k \in 0..(Cap - 1) /\ k \in 0..(filled.size - 1) /\ k \in 0..(W - 1)
      BY <1>6, <3>1, <3>2, <3>3
    <3> QED BY <1>2, <3>4
  <2>2. card[k] \in {Byte(k), Bad}
    BY <1>5, <2>1 DEF FillRight
  <2> QED BY <2>1, <2>2, BadAssumption
<1>8. Differs <=> \E k \in pos..(pos + Length - 1) : card[k] = Bad
  BY <1>4, <1>7 DEF Differs
<1> QED BY <1>1, <1>3, <1>7, <1>8 DEF Wrong, BadBytes

\* The last line tells how the block was.
LEMMA LastLineTells ==
  ASSUME TypeOK, CheckShort, last_was_error <=> LastLine(out)
  PROVE  /\ last_was_error' <=> LastLine(out')
         /\ last_was_error' <=> Differs
         /\ \E kind \in {"ERR", "OK"} : out' = out \/ out' = Append(out, <<kind, current>>)
<1>1. last_was_error' = Differs /\ Differs \in BOOLEAN /\ last_was_error \in BOOLEAN
  BY DEF CheckShort, Differs, TypeOK
<1>2. CASE Differs <=> last_was_error
  <2>1. Differs = last_was_error
    BY <1>1, <1>2
  <2>2. out' = out
    BY <2>1 DEF CheckShort
  <2>3. LastLine(out') <=> LastLine(out)
    BY <2>2 DEF LastLine
  <2> QED BY <1>1, <1>2, <2>2, <2>3
<1>3. CASE ~(Differs <=> last_was_error)
  <2>1. Differs # last_was_error
    BY <1>3
  <2>2. out' = Append(out, <<IF Differs THEN "ERR" ELSE "OK", current>>)
    BY <2>1 DEF CheckShort
  <2> DEFINE kind == IF Differs THEN "ERR" ELSE "OK"
  <2>3. kind \in {"ERR", "OK"} /\ (kind = "ERR" <=> Differs)
    OBVIOUS
  <2> HIDE DEF kind
  <2>4. out' = Append(out, <<kind, current>>)
    BY <2>2 DEF kind
  <2>5. Len(out') = Len(out) + 1 /\ out'[Len(out')] = <<kind, current>> /\ out' # <<>>
    BY <2>4 DEF TypeOK
  <2>6. LastLine(out') <=> kind = "ERR"
    BY <2>5 DEF LastLine
  <2> QED BY <1>1, <2>3, <2>4, <2>6
<1> QED BY <1>2, <1>3

LEMMA CheckShortMaps ==
  ASSUME TypeOK, AtAddress, FillRight, MapInv, CheckShort
  PROVE  MapInv'
<1> USE DEF argVars, loopVars, reportVars
<1>1. /\ pc = "check" /\ Short /\ current < Limit /\ Transferred = Length
      /\ current' = (current + block_size) % W
      /\ UNCHANGED <<card, pc, size, block_size, start_value, max_errors, filled>>
  BY DEF CheckShort
<1>2. ShortFromZero' => ShortFromZero
  BY <1>1 DEF ShortFromZero, SameAsFilled, InRange, Short
<1>3. SUFFICES ASSUME ShortFromZero
               PROVE  /\ \E n \in Nat : current' = n * block_size
                      /\ block_size # 0 =>
                           /\ last_was_error' <=> LastLine(out')
                           /\ \A i \in DOMAIN out' : out'[i][2] < current'
                           /\ \A c \in Nat :
                                c < current' /\ (\E m \in Nat : c = m * block_size) =>
                                  (Wrong(c)' <=> SaysErr(out', c))
  BY <1>1, <1>2 DEF MapInv
<1>4. current' = current + block_size /\ current \in 0..(W - 1) /\ block_size \in Nat
  BY <1>1, <1>3, FromZero DEF ShortFromZero, TypeOK
<1>5. PICK n \in Nat : current = n * block_size
  BY <1>3 DEF MapInv
<1>6. \E i \in Nat : current' = i * block_size
  <2>1. current' = (n + 1) * block_size
    BY <1>4, <1>5
  <2> QED BY <2>1
<1>7. ASSUME block_size # 0
      PROVE  /\ last_was_error' <=> LastLine(out')
             /\ \A i \in DOMAIN out' : out'[i][2] < current'
             /\ \A c \in Nat : c < current' /\ (\E m \in Nat : c = m * block_size) =>
                  (Wrong(c)' <=> SaysErr(out', c))
  <2>1. /\ last_was_error <=> LastLine(out)
        /\ \A i \in DOMAIN out : out[i][2] < current
        /\ \A c \in Nat : c < current /\ (\E m \in Nat : c = m * block_size) =>
             (Wrong(c) <=> SaysErr(out, c))
    BY <1>3, <1>7 DEF MapInv
  <2>2. PICK kind \in {"ERR", "OK"} : out' = out \/ out' = Append(out, <<kind, current>>)
    BY <2>1, LastLineTells
  <2>3. (last_was_error' <=> LastLine(out')) /\ (LastLine(out') <=> Wrong(current))
    BY <1>1, <1>3, <2>1, LastLineTells, DiffersIfWrong
  <2>4. out \in Report /\ out' \in Report
    BY <2>2, LineTypes DEF TypeOK, Report
  <2>5. \A i \in DOMAIN out' : out'[i][2] <= current
    <3>1. CASE out' = out
      BY <1>4, <2>1, <2>4, <3>1 DEF Report
    <3>2. CASE out' = Append(out, <<kind, current>>)
      <4>1. /\ DOMAIN out = 1..Len(out) /\ DOMAIN out' = 1..(Len(out) + 1) /\ Len(out) \in Nat
            /\ out'[Len(out) + 1] = <<kind, current>>
            /\ \A i \in 1..Len(out) : out'[i] = out[i]
        BY <2>4, <3>2 DEF Report
      <4>2. \A i \in 1..Len(out) : out[i][2] \in Int
        BY <2>4, <4>1 DEF Report
      <4> QED BY <1>4, <2>1, <4>1, <4>2
    <3> QED BY <2>2, <3>1, <3>2
  <2>6. \A i \in DOMAIN out' : out'[i][2] < current'
    <3>1. \A i \in DOMAIN out' : out'[i][2] \in Int
      BY <2>4 DEF Report
    <3> QED BY <1>4, <1>7, <2>5, <3>1
  <2>7. ASSUME NEW c \in Nat, c < current', NEW m \in Nat, c = m * block_size
        PROVE  Wrong(c)' <=> SaysErr(out', c)
    <3>1. Wrong(c)' <=> Wrong(c)
      BY <1>1 DEF Wrong, BadBytes, MinOf
    <3>2. CASE c < current
      <4>1. Wrong(c) <=> SaysErr(out, c)
        BY <2>1, <2>7, <3>2
      <4>2. SaysErr(out', c) <=> SaysErr(out, c)
        <5>1. CASE out' = out
          BY <5>1
        <5>2. CASE out' = Append(out, <<kind, current>>)
          <6>1. SaysErr(Append(out, <<kind, current>>), c) <=> SaysErr(out, c)
            BY <1>4, <2>4, <2>7, <3>2, EarlierLines
          <6> QED BY <5>2, <6>1
        <5> QED BY <2>2, <5>1, <5>2
      <4> QED BY <3>1, <4>1, <4>2
    <3>3. CASE ~(c < current)
      <4>1. n * block_size <= m * block_size /\ m * block_size < n * block_size + block_size
        BY <1>4, <1>5, <2>7, <3>3
      <4>2. m = n
        BY <1>4, <1>7, <4>1, SameBlock
      <4>3. c = current
        BY <1>5, <2>7, <4>2
      <4>4. SaysErr(out', c) <=> LastLine(out')
        BY <2>4, <2>5, <4>3, LastDecides
      <4> QED BY <2>3, <3>1, <4>3, <4>4
    <3> QED BY <3>2, <3>3
  <2> QED BY <2>3, <2>6, <2>7
<1> QED BY <1>6, <1>7

LEMMA MapStep == TypeOK /\ AtAddress /\ FillRight /\ MapInv /\ [Next]_vars => MapInv'
<1> SUFFICES ASSUME TypeOK, AtAddress, FillRight, MapInv, [Next]_vars PROVE MapInv'
  OBVIOUS
<1> USE DEF argVars, loopVars, reportVars
<1>1. CASE CheckShort
  BY <1>1, CheckShortMaps
<1>2. CASE CheckBlock
  <2>1. ~Short'
    BY <1>2 DEF CheckBlock, Short
  <2> QED BY <2>1 DEF MapInv, ShortFromZero
<1>3. CASE FillBlock \/ FillFails \/ FillDone \/ CheckTooMany \/ CheckFails \/ CheckDone
  <2>1. pc' # "check"
    BY <1>3 DEF FillBlock, FillFails, FillDone, CheckTooMany, CheckFails, CheckDone, Return
  <2> QED BY <2>1 DEF MapInv, ShortFromZero
<1>4. ASSUME NEW command \in {"fill", "check"}, NEW s \in Sizes, NEW b \in BlockSizes,
             NEW st \in Starts, NEW m \in Nat, Call(command, s, b, st, m)
      PROVE  MapInv'
  <2>1. SUFFICES ASSUME start_value' = 0
                 PROVE  /\ \E n \in Nat : current' = n * block_size'
                        /\ block_size' # 0 =>
                             /\ last_was_error' <=> LastLine(out')
                             /\ \A i \in DOMAIN out' : out'[i][2] < current'
                             /\ \A c \in Nat :
                                  c < current' /\ (\E n \in Nat : c = n * block_size') =>
                                    (Wrong(c)' <=> SaysErr(out', c))
    BY DEF MapInv, ShortFromZero
  <2>2. current' = 0 /\ block_size' \in Nat
    BY <1>4, <2>1 DEF Call
  <2>3. out' = <<>> /\ ~last_was_error'
    BY <1>4 DEF Call
  <2>4. \E n \in Nat : current' = n * block_size'
    <3>1. \A d \in Nat : 0 = 0 * d
      OBVIOUS
    <3> QED BY <2>2, <3>1
  <2>5. last_was_error' <=> LastLine(out')
    BY <2>3 DEF LastLine
  <2>6. DOMAIN out' = {} /\ \A c \in Nat : ~(c < current')
    BY <2>2, <2>3
  <2> QED BY <2>4, <2>5, <2>6
<1>5. ASSUME NEW K, GoesBad(K) PROVE MapInv'
  BY <1>5 DEF GoesBad, MapInv, ShortFromZero
<1>6. CASE UNCHANGED vars
  <2>1. UNCHANGED <<card, pc, size, block_size, start_value, max_errors, current, last_was_error, out, filled>>
    BY <1>6 DEF vars
  <2>2. ShortFromZero' = ShortFromZero
    BY <2>1 DEF ShortFromZero, Short, SameAsFilled, InRange
  <2>3. \A c \in Nat : Wrong(c)' = Wrong(c)
    BY <2>1 DEF Wrong, BadBytes, MinOf
  <2> QED BY <2>1, <2>2, <2>3 DEF MapInv
<1> QED BY <1>1, <1>2, <1>3, <1>4, <1>5, <1>6 DEF Next, Loop

\* A byte that was checked is in a block that was checked.
LEMMA BlockOf ==
  ASSUME NEW b \in Nat \ {0}, NEW k \in Nat
  PROVE  (k \div b) \in Nat /\ (k \div b) * b \in Nat /\ (k \div b) * b <= k
<1>1. k = b * (k \div b) + (k % b) /\ k \div b \in Nat /\ k % b \in Nat
  OBVIOUS
<1> QED BY <1>1

\* pattern-check short: the output is a map of the card.  A block has a bad
\* byte exactly when the last line printed up to it says ERR.
THEOREM ShortOutputIsMap == Spec => []ShortMap
<1>1. Init => MapInv
  BY DEF Init, MapInv, ShortFromZero
<1>2. TypeOK /\ AtAddress /\ MapInv => ShortMap
  <2> SUFFICES ASSUME TypeOK, AtAddress, MapInv, ShortFromZero, NEW k \in 0..(pos - 1)
               PROVE  LET block == (k \div block_size) * block_size
                          lines == {i \in DOMAIN out : out[i][2] <= block}
                      IN  (\E b \in BadBytes : b \in block..MinOf(block + block_size - 1, size - 1))
                            <=> \E i \in lines : out[i][1] = "ERR" /\ \A j \in lines : j <= i
    BY DEF ShortMap, ShortFromZero
  <2>1. /\ pos \in Nat /\ block_size \in Nat /\ current \in Nat /\ size \in Nat
        /\ pos <= current /\ k \in Nat /\ k < pos
    BY DEF TypeOK, AtAddress, MinOf, ShortFromZero
  <2>2. block_size # 0
    <3>1. PICK n \in Nat : current = n * block_size
      BY DEF MapInv
    <3>2. block_size = 0 => current = 0
      BY <3>1
    <3> QED BY <2>1, <3>2
  <2> DEFINE block == (k \div block_size) * block_size
  <2>3. block \in Nat /\ block <= k /\ k \div block_size \in Nat
    BY <2>1, <2>2, BlockOf
  <2>4. block < current /\ \E m \in Nat : block = m * block_size
    <3>1. \E m \in Nat : block = m * block_size
      BY <2>3
    <3> HIDE DEF block
    <3> QED BY <2>1, <2>3, <3>1
  <2> HIDE DEF block
  <2>5. Wrong(block) <=> SaysErr(out, block)
    BY <2>2, <2>3, <2>4 DEF MapInv
  <2> QED BY <2>5 DEF block, Wrong, SaysErr, Lines
<1> QED BY <1>1, <1>2, FillInvariant, MapStep, PTL DEF Spec

\* A line of the short output is ERR and the next one OK, by turns.
Alternate(lines) == \A i \in DOMAIN lines : lines[i][1] = IF i % 2 = 1 THEN "ERR" ELSE "OK"
TurnsInv == Short => Alternate(out) /\ (last_was_error <=> Len(out) % 2 = 1)

LEMMA OddOrEven ==
  ASSUME NEW n \in Nat
  PROVE  ((n + 1) % 2 = 1 <=> n % 2 = 0) /\ (n % 2 = 1 \/ n % 2 = 0)
OBVIOUS

LEMMA AppendAlternates ==
  ASSUME NEW lines \in Seq({"ERR", "OK"} \X (0..(W - 1))), NEW a, NEW kind, Alternate(lines),
         kind = IF Len(lines) % 2 = 1 THEN "OK" ELSE "ERR"
  PROVE  /\ Alternate(Append(lines, <<kind, a>>))
         /\ Len(Append(lines, <<kind, a>>)) % 2 = 1 <=> Len(lines) % 2 = 0
<1> DEFINE more == Append(lines, <<kind, a>>)
           n == Len(lines)
<1>1. /\ n \in Nat /\ Len(more) = n + 1 /\ DOMAIN lines = 1..n /\ DOMAIN more = 1..(n + 1)
      /\ more[n + 1] = <<kind, a>> /\ \A i \in 1..n : more[i] = lines[i]
  OBVIOUS
<1>2. (n + 1) % 2 = 1 <=> n % 2 = 0
  BY <1>1, OddOrEven
<1>3. n % 2 = 1 \/ n % 2 = 0
  BY <1>1, OddOrEven
<1>4. kind = IF (n + 1) % 2 = 1 THEN "ERR" ELSE "OK"
  BY <1>2, <1>3
<1> HIDE DEF more, n
<1>5. Alternate(more)
  <2> SUFFICES ASSUME NEW i \in 1..(n + 1)
               PROVE  more[i][1] = IF i % 2 = 1 THEN "ERR" ELSE "OK"
    BY <1>1 DEF Alternate
  <2>1. CASE i = n + 1
    BY <1>1, <1>4, <2>1
  <2>2. CASE i # n + 1
    <3>1. i \in 1..n
      BY <1>1, <2>2
    <3> QED BY <1>1, <3>1 DEF Alternate
  <2> QED BY <2>1, <2>2
<1> QED BY <1>1, <1>2, <1>5 DEF more, n

LEMMA TurnsStep == TypeOK /\ TurnsInv /\ [Next]_vars => TurnsInv'
<1> SUFFICES ASSUME TypeOK, TurnsInv, [Next]_vars PROVE TurnsInv'
  OBVIOUS
<1>1. ASSUME out' = <<>>, last_was_error' = FALSE PROVE TurnsInv'
  <2>1. Alternate(out') /\ Len(out') = 0
    BY <1>1 DEF Alternate
  <2>2. Len(out') % 2 # 1
    BY <2>1
  <2> QED BY <1>1, <2>1, <2>2 DEF TurnsInv
<1>2. ASSUME UNCHANGED <<out, last_was_error, max_errors>> PROVE TurnsInv'
  BY <1>2 DEF TurnsInv, Short
<1>3. CASE CheckShort
  <2>1. /\ Short /\ last_was_error' = Differs
        /\ out' = IF Differs # last_was_error
                  THEN Append(out, <<IF Differs THEN "ERR" ELSE "OK", current>>) ELSE out
        /\ Alternate(out) /\ (last_was_error <=> Len(out) % 2 = 1)
        /\ last_was_error \in BOOLEAN /\ Differs \in BOOLEAN
    BY <1>3 DEF CheckShort, TurnsInv, TypeOK, Differs
  <2>2. CASE Differs = last_was_error
    BY <2>1, <2>2 DEF TurnsInv
  <2>3. CASE Differs # last_was_error
    <3> DEFINE kind == IF Differs THEN "ERR" ELSE "OK"
    <3>1. out' = Append(out, <<kind, current>>)
      BY <2>1, <2>3
    <3>2. Len(out) % 2 = 1 \/ Len(out) % 2 = 0
      BY DEF TypeOK
    <3>3. kind = IF Len(out) % 2 = 1 THEN "OK" ELSE "ERR"
      BY <2>1, <2>3
    <3>4. out \in Seq({"ERR", "OK"} \X (0..(W - 1)))
      BY DEF TypeOK
    <3> HIDE DEF kind
    <3>5. Alternate(out') /\ (Len(out') % 2 = 1 <=> Len(out) % 2 = 0)
      <4>1. Alternate(out)
        BY <2>1
      <4>2. /\ Alternate(Append(out, <<kind, current>>))
            /\ Len(Append(out, <<kind, current>>)) % 2 = 1 <=> Len(out) % 2 = 0
        BY <3>3, <3>4, <4>1, AppendAlternates
      <4> QED BY <3>1, <4>2
    <3>6. Differs <=> ~(Len(out) % 2 = 1)
      BY <2>1, <2>3
    <3>7. Len(out) % 2 = 0 <=> ~(Len(out) % 2 = 1)
      BY <3>2
    <3> QED BY <2>1, <3>5, <3>6, <3>7 DEF TurnsInv
  <2> QED BY <2>2, <2>3
<1>4. CASE CheckBlock
  BY <1>4 DEF CheckBlock, argVars, TurnsInv, Short
<1>5. CASE FillFails \/ FillDone \/ CheckTooMany \/ CheckFails \/ CheckDone
  BY <1>1, <1>5 DEF FillFails, FillDone, CheckTooMany, CheckFails, CheckDone, Return
<1>6. CASE FillBlock \/ UNCHANGED vars
  BY <1>2, <1>6 DEF FillBlock, vars, argVars, reportVars
<1>7. ASSUME NEW command, NEW s, NEW b, NEW st, NEW m, Call(command, s, b, st, m) PROVE TurnsInv'
  BY <1>1, <1>7 DEF Call
<1>8. ASSUME NEW K, GoesBad(K) PROVE TurnsInv'
  BY <1>2, <1>8 DEF GoesBad, argVars, reportVars
<1> QED BY <1>3, <1>4, <1>5, <1>6, <1>7, <1>8 DEF Next, Loop

\* The short output has the borders of the wrong ranges and nothing else: ERR
\* and OK by turns, ERR first, and it ends with ERR exactly when the last block
\* was wrong, whatever the arguments and wherever addresses wrap around.
THEOREM ShortOutputAlternates ==
  Spec => [](Short => Alternate(out) /\ (last_was_error <=> Len(out) % 2 = 1))
<1>1. Init => TurnsInv
  <2> SUFFICES ASSUME Init PROVE TurnsInv
    OBVIOUS
  <2>1. out = <<>> /\ last_was_error = FALSE /\ Len(out) = 0
    BY DEF Init
  <2>2. Alternate(out) /\ Len(out) % 2 # 1
    BY <2>1 DEF Alternate
  <2> QED BY <2>1, <2>2 DEF TurnsInv
<1>2. Spec => []TurnsInv
  BY <1>1, TurnsStep, Types, PTL DEF Spec
<1> QED BY <1>2, PTL DEF TurnsInv

-----------------------------------------------------------------------------
(* The end of a command *)

\* No address of the range, nor the one behind its last block, wraps around.
NoWrap == block_size # 0 /\ start_value + size + block_size <= W

\* Turns that the loop has still to make at most, and the return.
TurnsLeft ==
  IF pc = "idle" THEN 0 ELSE IF current < Limit THEN (Limit - current) + 1 ELSE 1

RunsDown ==
  NoWrap =>
    /\ TurnsLeft \in 0..(size + start_value + 1)
    /\ Loop \/ FillFails \/ CheckFails => TurnsLeft' < TurnsLeft

LEMMA TurnRunsDown ==
  ASSUME TypeOK, NoWrap, current < Limit, pc # "idle",
         current' = (current + block_size) % W, UNCHANGED argVars, pc' = pc
  PROVE  TurnsLeft' < TurnsLeft
<1>1. /\ size \in Nat /\ block_size \in Nat \ {0} /\ start_value \in Nat /\ current \in Nat
      /\ start_value + size + block_size <= W
  BY DEF TypeOK, NoWrap
<1>2. Limit = start_value + size
  BY <1>1, ModProperty DEF Limit
<1>3. current' = current + block_size
  <2>1. current + block_size \in 0..(W - 1)
    BY <1>1, <1>2
  <2> QED BY <2>1, ModProperty
<1>4. Limit' = Limit
  BY DEF Limit, argVars
<1> QED BY <1>1, <1>2, <1>3, <1>4 DEF TurnsLeft

LEMMA ReturnRunsDown ==
  ASSUME TypeOK, pc # "idle", Return
  PROVE  TurnsLeft' < TurnsLeft
<1>1. TurnsLeft' = 0
  BY DEF Return, TurnsLeft
<1>2. TurnsLeft \in Int /\ TurnsLeft >= 1
  <2>1. Limit \in Int /\ current \in Int
    BY ModProperty DEF TypeOK, Limit
  <2> QED BY <2>1 DEF TurnsLeft
<1> QED BY <1>1, <1>2

\* Where no address wraps around, both commands return after at most one turn
\* for every address of the range and one step more: every turn goes on by a
\* whole block, however the transfers end.  With a block size of 0, which the
\* code means to refuse and does not, the address stands still.
THEOREM LoopRunsDown == Spec => [][RunsDown]_vars
<1>1. ASSUME TypeOK, NoWrap PROVE TurnsLeft \in 0..(size + start_value + 1)
  <2>1. /\ size \in Nat /\ block_size \in Nat \ {0} /\ start_value \in Nat /\ current \in Nat
        /\ start_value + size + block_size <= W
    BY <1>1 DEF TypeOK, NoWrap
  <2>2. Limit = start_value + size
    BY <2>1, ModProperty DEF Limit
  <2> QED BY <2>1, <2>2 DEF TurnsLeft
<1>2. ASSUME TypeOK, NoWrap, Loop \/ FillFails \/ CheckFails PROVE TurnsLeft' < TurnsLeft
  <2>1. CASE FillBlock
    BY <1>2, <2>1, TurnRunsDown DEF FillBlock
  <2>2. CASE CheckShort
    BY <1>2, <2>2, TurnRunsDown DEF CheckShort
  <2>3. CASE CheckBlock
    BY <1>2, <2>3, TurnRunsDown DEF CheckBlock
  <2>4. CASE FillDone \/ CheckTooMany \/ CheckDone \/ FillFails \/ CheckFails
    <3>1. pc # "idle" /\ Return
      BY <2>4 DEF FillDone, CheckTooMany, CheckDone, FillFails, CheckFails
    <3> QED BY <1>2, <3>1, ReturnRunsDown
  <2> QED BY <1>2, <2>1, <2>2, <2>3, <2>4 DEF Loop
<1>3. TypeOK /\ [Next]_vars => [RunsDown]_vars
  BY <1>1, <1>2 DEF RunsDown
<1> QED BY <1>3, Types, PTL DEF Spec
=============================================================================
