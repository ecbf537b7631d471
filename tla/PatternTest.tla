---------------------------- MODULE PatternTest ----------------------------
(***************************************************************************)
(* demo/sd-card-test.c: pattern-fill writes its own addresses to a card,   *)
(* block by block, and pattern-check reads them back and reports blocks    *)
(* that differ.  size_t and uint32_t have W values here.  A byte of the    *)
(* pattern is the word it belongs to and its place in that word, in the    *)
(* order htonl puts them.  <file> is a card of Cap bytes; a transfer that  *)
(* crosses its end is short, and any transfer may fail.                    *)
(***************************************************************************)
EXTENDS Integers, Sequences

CONSTANTS W, Cap,
          Sizes, BlockSizes, Starts,  \* argv[2], argv[3], argv[4]
          MaxErrors,  \* argv[5]: numbers of errors to print
          MaxBad,     \* bytes of the card that go bad
          Old, Bad,   \* what was on the card before, what a bad byte reads as
          None        \* no fill

ASSUME PatternAssumption ==
  /\ W \in Nat \ {0} /\ W % 4 = 0
  /\ Cap \in Nat
  /\ Sizes \subseteq 0..(W - 1) /\ BlockSizes \subseteq 0..(W - 1)
  /\ Starts \subseteq 0..(W - 1)
  /\ MaxErrors \subseteq Nat \ {0}
  /\ MaxBad \in Nat

VARIABLES card,       \* the bytes on the card
          pc,         \* idle, or the command that runs
          size, block_size, start_value,
          max_errors, \* 0 with short_output
          current, pos,
          errors, last_was_error,
          out,        \* <<kind, address>> of the lines printed
          filled      \* arguments of the last pattern-fill that ran to its end

argVars == <<size, block_size, start_value, max_errors>>
loopVars == <<current, pos>>
reportVars == <<errors, last_was_error, out>>
vars == <<card, pc, argVars, loopVars, reportVars, filled>>

MinOf(x, y) == IF x < y THEN x ELSE y

\* The byte of the pattern that belongs to address x.
Byte(x) == <<x - (x % 4), x % 4>>
Bytes == {Byte(x) : x \in 0..(W - 1)} \cup {Old, Bad}

\* A bad byte does not read as what was written.
ASSUME BadAssumption == \A x \in 0..(W - 1) : Bad # Byte(x)

-----------------------------------------------------------------------------
\* Fault: after the bytes that complete a word the same word is written again.
fill_block_NoAdvance(n, start) ==
  LET offset == start % 4
      value_h == start - offset
      head == IF offset # 0 THEN MinOf(4 - offset, n) ELSE 0
  IN  [j \in 0..(n - 1) |->
         IF j < head THEN <<value_h, offset + j>>
         ELSE <<(value_h + 4 * ((j - head) \div 4)) % W, (j - head) % 4>>]

(* fill_block: the rest of the word start is in, then whole words, then the *)
(* beginning of one.                                                        *)
fill_block(n, start) ==
  LET offset == start % 4
      value_h == start - offset
      head == IF offset # 0 THEN MinOf(4 - offset, n) ELSE 0
      next == IF offset # 0 THEN value_h + 4 ELSE value_h
  IN  [j \in 0..(n - 1) |->
         IF j < head THEN <<value_h, offset + j>>
         ELSE <<(next + 4 * ((j - head) \div 4)) % W, (j - head) % 4>>]

Limit == (start_value + size) % W

\* Fault: the difference is taken as a signed number.
Length_Signed == MinOf(block_size, size - current)

Length == MinOf(block_size, (size - current) % W)
Transferred == MinOf(Length, Cap - pos)

Init ==
  /\ card = [k \in 0..(Cap - 1) |-> Old]
  /\ pc = "idle"
  /\ size = 0 /\ block_size = 0 /\ start_value = 0 /\ max_errors = 0
  /\ current = 0 /\ pos = 0
  /\ errors = 0 /\ last_was_error = FALSE /\ out = <<>>
  /\ filled = None

-----------------------------------------------------------------------------
(* check_and_process_params; a parameter it refuses or a file it cannot    *)
(* open changes nothing.  What a fill finds on the card is Old to it.       *)
Call(command, s, b, st, m) ==
  /\ pc = "idle"
  /\ pc' = command
  /\ size' = s /\ block_size' = b /\ start_value' = st /\ max_errors' = m
  /\ current' = st /\ pos' = 0
  /\ errors' = 0 /\ last_was_error' = FALSE /\ out' = <<>>
  /\ IF command = "fill"
     THEN filled' = None /\ card' = [k \in DOMAIN card |-> Old]
     ELSE UNCHANGED <<filled, card>>

\* The command returns 0, whatever made it stop.
Return ==
  /\ pc' = "idle"
  /\ size' = 0 /\ block_size' = 0 /\ start_value' = 0 /\ max_errors' = 0
  /\ current' = 0 /\ pos' = 0
  /\ errors' = 0 /\ last_was_error' = FALSE /\ out' = <<>>

\* Fault: the address advances by what was written.
FillBlock_ByWritten ==
  /\ pc = "fill" /\ current < Limit /\ Transferred = Length
  /\ card' = [k \in DOMAIN card |->
       IF k \in pos..(pos + Length - 1)
       THEN fill_block(Length, current)[k - pos] ELSE card[k]]
  /\ pos' = pos + Length
  /\ current' = (current + Length) % W
  /\ UNCHANGED <<pc, argVars, reportVars, filled>>

\* One turn of the loop of command_pattern_fill.
FillBlock ==
  /\ pc = "fill" /\ current < Limit /\ Transferred = Length
  /\ card' = [k \in DOMAIN card |->
       IF k \in pos..(pos + Length - 1)
       THEN fill_block(Length, current)[k - pos] ELSE card[k]]
  /\ pos' = pos + Length
  /\ current' = (current + block_size) % W
  /\ UNCHANGED <<pc, argVars, reportVars, filled>>

\* The end of the card, or an error: some of the block may have been written.
FillFails ==
  /\ pc = "fill" /\ current < Limit
  /\ \E n \in 0..Transferred :
       /\ n < Length
       /\ card' = [k \in DOMAIN card |->
            IF k \in pos..(pos + n - 1)
            THEN fill_block(Length, current)[k - pos] ELSE card[k]]
  /\ Return
  /\ UNCHANGED filled

FillDone ==
  /\ pc = "fill" /\ current >= Limit
  /\ filled' = [size |-> size, block_size |-> block_size, start_value |-> start_value]
  /\ Return
  /\ UNCHANGED card

-----------------------------------------------------------------------------
\* The block read differs from the pattern.
Differs ==
  \E k \in pos..(pos + Length - 1) : card[k] # fill_block(Length, current)[k - pos]

Short == max_errors = 0

\* Fault: the short output never says that blocks are right again.
CheckShort_Sticky ==
  /\ pc = "check" /\ Short /\ current < Limit /\ Transferred = Length
  /\ out' = IF Differs /\ ~last_was_error
            THEN Append(out, <<"ERR", current>>) ELSE out
  /\ last_was_error' = (Differs \/ last_was_error)
  /\ current' = (current + block_size) % W /\ pos' = pos + Length
  /\ UNCHANGED <<card, pc, argVars, errors, filled>>

\* One turn of the loop of command_pattern_check with <output> short.
CheckShort ==
  /\ pc = "check" /\ Short /\ current < Limit /\ Transferred = Length
  /\ out' = IF Differs # last_was_error
            THEN Append(out, <<IF Differs THEN "ERR" ELSE "OK", current>>) ELSE out
  /\ last_was_error' = Differs
  /\ current' = (current + block_size) % W /\ pos' = pos + Length
  /\ UNCHANGED <<card, pc, argVars, errors, filled>>

\* Fault: the limit is compared with the errors before this one.
CheckBlock_LateStop ==
  /\ pc = "check" /\ ~Short /\ current < Limit /\ Transferred = Length
  /\ IF Differs THEN errors' = errors + 1 /\ out' = Append(out, <<"ERR", current>>)
                ELSE UNCHANGED <<errors, out>>
  /\ ~Differs \/ errors < max_errors
  /\ current' = (current + block_size) % W /\ pos' = pos + Length
  /\ UNCHANGED <<card, pc, argVars, last_was_error, filled>>

\* The same with a number: that many wrong blocks are printed.
CheckBlock ==
  /\ pc = "check" /\ ~Short /\ current < Limit /\ Transferred = Length
  /\ IF Differs THEN errors' = errors + 1 /\ out' = Append(out, <<"ERR", current>>)
                ELSE UNCHANGED <<errors, out>>
  /\ ~Differs \/ errors + 1 < max_errors
  /\ current' = (current + block_size) % W /\ pos' = pos + Length
  /\ UNCHANGED <<card, pc, argVars, last_was_error, filled>>

\* Too many errors: the last one is printed and the command returns.
CheckTooMany ==
  /\ pc = "check" /\ ~Short /\ current < Limit /\ Transferred = Length
  /\ Differs /\ errors + 1 >= max_errors
  /\ Return
  /\ UNCHANGED <<card, filled>>

CheckFails ==
  /\ pc = "check" /\ current < Limit /\ Length > 0
  /\ Return
  /\ UNCHANGED <<card, filled>>

CheckDone ==
  /\ pc = "check" /\ current >= Limit
  /\ Return
  /\ UNCHANGED <<card, filled>>

BadBytes == {k \in DOMAIN card : card[k] = Bad}

\* What the test is there to find.
GoesBad(K) ==
  /\ pc = "idle" /\ filled # None /\ BadBytes = {}
  /\ card' = [k \in DOMAIN card |-> IF k \in K THEN Bad ELSE card[k]]
  /\ UNCHANGED <<pc, argVars, loopVars, reportVars, filled>>

-----------------------------------------------------------------------------
Loop == FillBlock \/ FillDone \/ CheckShort \/ CheckBlock \/ CheckTooMany \/ CheckDone

\* A transfer that is short because the card ends is bound to fail.
AtEnd == Transferred < Length /\ (FillFails \/ CheckFails)

Next ==
  \/ Loop \/ FillFails \/ CheckFails
  \/ \E s \in Sizes, b \in BlockSizes, st \in Starts :
       \/ Call("fill", s, b, st, 0)
       \/ \E m \in MaxErrors \cup {0} : Call("check", s, b, st, m)
  \/ \E k \in DOMAIN card, n \in 1..MaxBad :
       k + n <= Cap /\ GoesBad(k..(k + n - 1))

Spec == Init /\ [][Next]_vars

\* A command that was called keeps running.
FairSpec == Spec /\ WF_vars(Loop \/ AtEnd)

-----------------------------------------------------------------------------
TypeOK ==
  /\ card \in [0..(Cap - 1) -> Bytes]
  /\ pc \in {"idle", "fill", "check"}
  /\ size \in 0..(W - 1) /\ block_size \in 0..(W - 1) /\ start_value \in 0..(W - 1)
  /\ max_errors \in Nat
  /\ current \in 0..(W - 1) /\ pos \in 0..Cap
  /\ errors \in Nat /\ last_was_error \in BOOLEAN
  /\ out \in Seq({"ERR", "OK"} \X (0..(W - 1)))
  /\ filled = None \/ filled \in [size : 0..(W - 1), block_size : 0..(W - 1),
                                  start_value : 0..(W - 1)]

\* The last block does not carry the address past the end of size_t.
InRange(s, b) == s + b <= W

(* A fill from 0 writes to every byte up to size the pattern of its own     *)
(* address, whatever the block size and wherever it cuts the words.         *)
FillRight ==
  /\ pc = "fill" /\ start_value = 0 /\ InRange(size, block_size) =>
       \A k \in 0..(pos - 1) : card[k] = Byte(k)
  /\ filled # None /\ filled.start_value = 0 /\ InRange(filled.size, filled.block_size) =>
       /\ filled.size <= Cap
       /\ \A k \in 0..(filled.size - 1) : card[k] \in {Byte(k), Bad}

\* A check that asks for nothing but what the last fill has written.
SameAsFilled ==
  /\ filled # None
  /\ \/ filled = [size |-> size, block_size |-> block_size, start_value |-> start_value]
     \/ /\ start_value = 0 /\ filled.start_value = 0
        /\ size <= filled.size
        /\ InRange(size, block_size) /\ InRange(filled.size, filled.block_size)

(* A check of a card that keeps its bytes reports nothing: with the         *)
(* arguments of the fill, and from 0 with any other block size as well.     *)
NoFalseAlarm ==
  pc = "check" /\ SameAsFilled /\ BadBytes = {} => out = <<>>

(* A bad byte in the part that was checked is in a block that was printed,  *)
(* and no more errors are printed than were asked for.                      *)
Checked == {k \in BadBytes : k < pos}
Detects ==
  pc = "check" /\ ~Short /\ SameAsFilled /\ start_value = 0 /\ InRange(size, block_size) =>
    /\ \A k \in Checked : \E i \in DOMAIN out : k \in out[i][2]..(out[i][2] + block_size - 1)
    /\ Len(out) < max_errors

(* The short output is a map of the card: a block is wrong exactly when the *)
(* last line printed up to it says ERR.                                     *)
ShortMap ==
  pc = "check" /\ Short /\ SameAsFilled /\ start_value = 0 /\ InRange(size, block_size) =>
    \A k \in 0..(pos - 1) :
      LET block == (k \div block_size) * block_size
          lines == {i \in DOMAIN out : out[i][2] <= block}
      IN  (\E b \in BadBytes : b \in block..MinOf(block + block_size - 1, size - 1))
            <=> \E i \in lines : out[i][1] = "ERR" /\ \A j \in lines : j <= i

(* Every call comes back to the shell, unless its block size is 0, which    *)
(* sd-card-test.c:101 means to refuse and does not.                         *)
Finishes == pc # "idle" /\ block_size # 0 ~> pc = "idle"

(* The usage text: pattern-fill <file> <size> ..., "<size> and <block_size> *)
(* is in bytes".                                                            *)
FillsSize == filled # None => \A k \in 0..(filled.size - 1) : card[k] # Old
=============================================================================
