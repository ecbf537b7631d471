--------------------------- MODULE BootFlowProofs --------------------------
(***************************************************************************)
(* For any number of copies of the state block, any largest count and any  *)
(* setting of nv.boot.default: every step of the board uses the state      *)
(* storage as it is meant to be used, attempts are paid for, the mount     *)
(* point is the right one, the fallback is sound where it is not excused.  *)
(***************************************************************************)
EXTENDS BootFlow, StateStoreProofs

\* Reading and building state blocks.
LEMMA BlockType ==
  /\ \A u, a \in SystemNumbers, n \in 0..MaxCount : Block(u, n, a) \in Value
  /\ \A v \in Value : /\ v.update_system \in SystemNumbers
                      /\ v.active_system \in SystemNumbers
                      /\ v.update_boot_count \in 0..MaxCount
  /\ \A u, n, a : /\ Block(u, n, a).update_system = u
                  /\ Block(u, n, a).update_boot_count = n
                  /\ Block(u, n, a).active_system = a
BY BootAssumption DEF Block

\* Every step of the board is a step of the state storage, or none.
LEMMA StepStore ==
  ASSUME BootInv, [Next]_vars
  PROVE  [StoreNext]_storeVars
<1> USE BootAssumption, StoreAssumption
<1>1. CASE LoadState
  BY <1>1, StoredInValue
     DEF LoadState, Load, Goto, envVars, StoreNext, BootInv, TypeOK, StoreTypeOK
<1>2. CASE WriteCopies
  BY <1>2, StoredInValue
     DEF WriteCopies, scriptVars, envVars, StoreNext, BootInv, TypeOK, StoreTypeOK
<1>3. CASE BootSource
  BY <1>3, StoredInValue
     DEF BootSource, storeVars, envVars, StoreNext, BootInv, TypeOK, StoreTypeOK
<1>4. CASE Autoboot
  BY <1>4, StoredInValue
     DEF Autoboot, Goto, storeVars, envVars, StoreNext, BootInv, TypeOK, StoreTypeOK
<1>5. CASE BootSdcard
  BY <1>5, StoredInValue
     DEF BootSdcard, At, Start, NextEntry, Set, Idle, storeVars, envVars, StoreNext,
         BootInv, TypeOK, StoreTypeOK
<1>6. CASE SelectUpdate
  <2>1. /\ ram \in Value /\ ram.update_boot_count > 0
        /\ Set(Block(ram.update_system, ram.update_boot_count - 1, ram.active_system))
    BY <1>6 DEF SelectUpdate, Set, Idle, BootInv, TypeOK, StoreTypeOK
  <2>2. ram.update_boot_count \in 0..MaxCount
    BY <2>1, BlockType
  <2>3. ram.update_boot_count - 1 \in 0..MaxCount
    <3> DEFINE n == ram.update_boot_count
    <3> HIDE DEF n
    <3>1. n \in 0..MaxCount /\ n > 0 => n - 1 \in 0..MaxCount
      OBVIOUS
    <3> QED
      BY <2>1, <2>2, <3>1 DEF n
  <2> QED
    BY <2>1, <2>3, BlockType DEF StoreNext
<1>7. CASE SelectActive
  BY <1>7, StoredInValue
     DEF SelectActive, At, storeVars, envVars, StoreNext, BootInv, TypeOK, StoreTypeOK
<1>8. CASE SaveState
  BY <1>8, StoredInValue
     DEF SaveState, Save, Idle, Goto, envVars, StoreNext, BootInv, TypeOK, StoreTypeOK
<1>9. CASE SaveStateDone
  BY <1>9, StoredInValue
     DEF SaveStateDone, Goto, storeVars, envVars, StoreNext, BootInv, TypeOK,
         StoreTypeOK
<1>10. CASE BootSystem
  BY <1>10, StoredInValue
     DEF BootSystem, Start, NextEntry, Set, Idle, storeVars, envVars, StoreNext,
         BootInv, TypeOK, StoreTypeOK
<1>11. CASE BootNet
  BY <1>11, StoredInValue
     DEF BootNet, At, Start, NextEntry, Set, Idle, storeVars, envVars, StoreNext,
         BootInv, TypeOK, StoreTypeOK
<1>12. CASE NothingBoots
  BY <1>12, StoredInValue
     DEF NothingBoots, Goto, storeVars, envVars, StoreNext, BootInv, TypeOK,
         StoreTypeOK
<1>13. CASE SaveStateFails
  BY <1>13, StoredInValue
     DEF SaveStateFails, storeVars, envVars, StoreNext, BootInv, TypeOK, StoreTypeOK
<1>14. CASE Restart
  BY <1>14, StoredInValue
     DEF Restart, Reset, envVars, StoreNext, BootInv, TypeOK, StoreTypeOK
<1>15. CASE AppValidate
  <2>1. PICK s \in Systems : Set(Block(ram.update_system, 0, s))
    BY <1>15 DEF AppValidate, Own
  <2>2. ram \in Value
    BY <2>1 DEF Set, Idle, BootInv, TypeOK, StoreTypeOK
  <2> QED
    BY <2>1, <2>2, BlockType DEF StoreNext, Systems, SystemNumbers
<1>16. CASE \E s \in Systems : AppInstall(s)
  BY <1>16, StoredInValue
     DEF AppInstall, AppRuns, Spare, storeVars, StoreNext, BootInv, TypeOK,
         StoreTypeOK
<1>17. CASE \E s \in Systems, n \in 1..MaxCount : AppMark(s, n)
  <2>1. PICK s \in Systems, n \in 1..MaxCount :
          Set(Block(s, n, ram.active_system))
    BY <1>17 DEF AppMark
  <2>2. ram \in Value
    BY <2>1 DEF Set, Idle, BootInv, TypeOK, StoreTypeOK
  <2> QED
    BY <2>1, <2>2, BlockType DEF StoreNext, Systems, SystemNumbers
<1>18. CASE AppInstalled
  BY <1>18, StoredInValue
     DEF AppInstalled, Goto, storeVars, StoreNext, BootInv, TypeOK, StoreTypeOK
<1>19. CASE AppSave
  BY <1>19, StoredInValue
     DEF AppSave, Save, Idle, Goto, envVars, StoreNext, BootInv, TypeOK, StoreTypeOK
<1>20. CASE AppSaved
  BY <1>20, StoredInValue
     DEF AppSaved, Goto, storeVars, StoreNext, BootInv, TypeOK, StoreTypeOK
<1>21. CASE Interrupt
  BY <1>21, StoredInValue
     DEF Interrupt, Goto, storeVars, envVars, StoreNext, BootInv, TypeOK, StoreTypeOK
<1>22. CASE ForceSystem0
  BY <1>22, StoredInValue
     DEF ForceSystem0, Set, Idle, Goto, envVars, StoreNext, BootInv, TypeOK,
         StoreTypeOK
<1>23. CASE ShellSave
  BY <1>23, StoredInValue
     DEF ShellSave, Save, Idle, Goto, StoreNext, BootInv, TypeOK, StoreTypeOK
<1>24. CASE CopyImage \/ FetchImage
  BY <1>24, StoredInValue
     DEF CopyImage, FetchImage, Goto, storeVars, StoreNext, BootInv, TypeOK, StoreTypeOK
<1>25. CASE ImageCopied
  BY <1>25, StoredInValue
     DEF ImageCopied, Goto, storeVars, StoreNext, BootInv, TypeOK, StoreTypeOK
<1>26. CASE UNCHANGED vars
  BY <1>26, StoredInValue
     DEF vars, storeVars, scriptVars, envVars, StoreNext, BootInv, TypeOK, StoreTypeOK
<1> QED
  BY <1>1, <1>2, <1>3, <1>4, <1>5, <1>6, <1>7, <1>8, <1>9, <1>10, <1>11, <1>12, <1>13,
     <1>14, <1>15, <1>16, <1>17, <1>18, <1>19, <1>20, <1>21, <1>22, <1>23, <1>24,
     <1>25, <1>26
     DEF Next, Boot, App, Finish, Operator, TryAgain, PowerLoss,
         AppReboot, AppCrash, ShellReset


\* What a step can do to the stored block.
LEMMA StoreEffect ==
  ASSUME BootInv, [Next]_vars
  PROVE  /\ StoreInv' /\ StoreTypeOK'
         /\ Stored \in Value
         /\ copies' = copies => Stored' = Stored
         /\ BeginWrite \/ EndWrite => /\ ram' = ram /\ todo # {} /\ todo' \subseteq todo
                                      /\ Stored' \in {Stored, ram}
                                      /\ todo' = {} => Stored' = ram
<1>1. StoreInv /\ [StoreNext]_storeVars
  BY StepStore DEF BootInv
<1>2. StoreInv' /\ StoreTypeOK'
  BY <1>1, StoreNextInv DEF StoreInv
<1>3. Stored \in Value
  BY <1>1, StoredInValue
<1>4. copies' = copies => Stored' = Stored
  BY DEF Stored, LoadFrom, Copies
<1>5. CASE BeginWrite
  <2>1. todo' = todo
    BY <1>5 DEF BeginWrite
  <2>2. todo' = {} => Stored' = ram
    BY <1>1, <1>5, BeginWriteStored
  <2> QED
    BY <1>1, <1>2, <1>3, <1>4, <1>5, <2>1, <2>2, BeginWriteStored
<1>6. CASE EndWrite
  <2>1. todo' \subseteq todo
    BY <1>6 DEF EndWrite
  <2> QED
    BY <1>1, <1>2, <1>3, <1>4, <1>6, <2>1, EndWriteStored
<1> QED
  BY <1>2, <1>3, <1>4, <1>5, <1>6

-----------------------------------------------------------------------------
\* Boot orders only get shorter, from the front.
LEMMA OrderFacts ==
  /\ <<>> \in Seq(Entries) /\ \A e : ~Tries(<<>>, e)
  /\ DefaultOrder \in Seq(Entries) /\ ~Tries(DefaultOrder, "net")
  /\ ~SystemThenNet(<<>>) /\ ~SystemThenNet(DefaultOrder)
  /\ \A o \in Seq(Entries) : o # <<>> =>
       /\ Tail(o) \in Seq(Entries)
       /\ Tries(o, Head(o))
       /\ \A e : Tries(Tail(o), e) => Tries(o, e)
       /\ SystemThenNet(Tail(o)) => SystemThenNet(o)
       /\ Head(o) = "system" /\ Tries(Tail(o), "net") => SystemThenNet(o)
<1>1. <<>> \in Seq(Entries) /\ \A e : ~Tries(<<>>, e)
  BY DEF Tries
<1>2. DefaultOrder \in Seq(Entries)
  BY DEF DefaultOrder, Entries
<1>3. ~Tries(DefaultOrder, "net")
  BY DEF DefaultOrder, Tries
<1>4. ASSUME NEW o \in Seq(Entries), o # <<>>
      PROVE  /\ Tail(o) \in Seq(Entries)
             /\ Tries(o, Head(o))
             /\ \A e : Tries(Tail(o), e) => Tries(o, e)
             /\ SystemThenNet(Tail(o)) => SystemThenNet(o)
             /\ Head(o) = "system" /\ Tries(Tail(o), "net") => SystemThenNet(o)
  <2>1. Len(o) \in Nat /\ Len(o) >= 1 /\ DOMAIN o = 1..Len(o)
    BY <1>4
  <2>2. Tail(o) \in Seq(Entries) /\ DOMAIN Tail(o) = 1..(Len(o) - 1)
    BY <1>4, <2>1
  <2>3. Head(o) = o[1] /\ 1 \in DOMAIN o
    BY <1>4, <2>1
  <2>4. ASSUME NEW e, NEW i \in DOMAIN Tail(o), Tail(o)[i] = e
        PROVE  Tries(o, e)
    <3>1. i + 1 \in DOMAIN o /\ Tail(o)[i] = o[i + 1]
      BY <1>4, <2>1, <2>2, <2>4
    <3> QED
      BY <3>1, <2>4 DEF Tries
  <2>5. \A i \in DOMAIN Tail(o) : i \in Nat /\ i + 1 \in DOMAIN o /\ Tail(o)[i] = o[i + 1]
    BY <1>4, <2>1, <2>2
  <2>6. ASSUME SystemThenNet(Tail(o)) PROVE SystemThenNet(o)
    <3>1. PICK i, j \in DOMAIN Tail(o) : i < j /\ Tail(o)[i] = "system" /\ Tail(o)[j] = "net"
      BY <2>6 DEF SystemThenNet
    <3>2. i + 1 < j + 1 /\ o[i + 1] = "system" /\ o[j + 1] = "net"
      BY <2>5, <3>1
    <3> QED
      BY <2>5, <3>1, <3>2 DEF SystemThenNet
  <2>7. ASSUME Head(o) = "system", Tries(Tail(o), "net") PROVE SystemThenNet(o)
    <3>1. PICK j \in DOMAIN Tail(o) : Tail(o)[j] = "net"
      BY <2>7 DEF Tries
    <3>2. j \in 1..(Len(o) - 1) /\ 1 < j + 1
      BY <2>1, <2>2, <3>1
    <3> QED
      BY <2>3, <2>5, <2>7, <3>1, <3>2 DEF SystemThenNet
  <2> QED
    BY <2>2, <2>3, <2>4, <2>6, <2>7 DEF Tries
<1>5. ~SystemThenNet(<<>>) /\ ~SystemThenNet(DefaultOrder)
  BY <1>1, <1>3 DEF SystemThenNet, Tries
<1> QED
  BY <1>1, <1>2, <1>3, <1>4, <1>5

\* Different media, different mount points.
LEMMA MountFacts ==
  /\ \A s \in Systems \cup {"sd"} : MountOf(s) # "none"
  /\ \A s, t \in Systems \cup {"sd"} : MountOf(s) = MountOf(t) => s = t
  /\ "none" \in MountPoints /\ \A s \in Systems \cup {"sd"} : MountOf(s) \in MountPoints
  /\ "sd" \notin Systems /\ "net" \notin Systems /\ "none" \notin Systems
BY DEF Systems, MountOf, MountPoints

\* The block that boot/system, a mark and a validation leave in RAM.
LEMMA SelectUpdateEffect ==
  ASSUME BootInv, SelectUpdate
  PROVE  /\ ram # Lost /\ todo = {} /\ todo' = {} /\ copies' = copies
         /\ ram' \in Value /\ ram'.active_system = ram.active_system
         /\ ram.update_boot_count \in Nat
         /\ ram'.update_boot_count = ram.update_boot_count - 1
         /\ S' = ram.update_system /\ S' \in SystemNumbers
<1>1. /\ ram \in Value /\ ram # Lost /\ todo = {} /\ todo' = {} /\ copies' = copies
      /\ ram.update_boot_count > 0 /\ S' = ram.update_system
      /\ ram' = Block(ram.update_system, ram.update_boot_count - 1, ram.active_system)
  BY DEF SelectUpdate, Set, Idle, BootInv, TypeOK, StoreTypeOK
<1>2. ram.update_boot_count \in 0..MaxCount
  BY <1>1, BlockType
<1>3. ram.update_boot_count - 1 \in 0..MaxCount /\ ram.update_boot_count \in Nat
  <2> DEFINE n == ram.update_boot_count
  <2> HIDE DEF n
  <2>1. n \in 0..MaxCount /\ n > 0 => n - 1 \in 0..MaxCount /\ n \in Nat
    BY BootAssumption
  <2> QED
    BY <1>1, <1>2, <2>1 DEF n
<1> QED
  BY <1>1, <1>3, BlockType

LEMMA AppMarkEffect ==
  ASSUME BootInv, NEW s \in Systems, NEW n \in 1..MaxCount, AppMark(s, n)
  PROVE  /\ ram # Lost /\ todo = {} /\ todo' = {} /\ copies' = copies
         /\ ram' \in Value /\ ram'.active_system = ram.active_system
         /\ ram'.update_boot_count = n
<1>1. /\ ram \in Value /\ ram # Lost /\ todo = {} /\ todo' = {} /\ copies' = copies
      /\ ram' = Block(s, n, ram.active_system)
  BY DEF AppMark, Set, Idle, BootInv, TypeOK, StoreTypeOK
<1>2. s \in SystemNumbers /\ n \in 0..MaxCount
  BY BootAssumption DEF Systems, SystemNumbers
<1> QED
  BY <1>1, <1>2, BlockType

LEMMA AppValidateEffect ==
  ASSUME BootInv, AppValidate
  PROVE  /\ ram # Lost /\ todo = {} /\ todo' = {} /\ copies' = copies
         /\ ram' \in Value /\ ram'.active_system \in Own
         /\ ram'.update_boot_count = 0
<1>1. PICK s \in Own : Set(Block(ram.update_system, 0, s))
  BY DEF AppValidate
<1>2. /\ ram \in Value /\ ram # Lost /\ todo = {} /\ todo' = {} /\ copies' = copies
      /\ ram' = Block(ram.update_system, 0, s)
  BY <1>1 DEF Set, Idle, BootInv, TypeOK, StoreTypeOK
<1>3. s \in SystemNumbers /\ 0 \in 0..MaxCount
  BY BootAssumption DEF Own, Systems, SystemNumbers
<1> QED
  BY <1>1, <1>2, <1>3, BlockType

-----------------------------------------------------------------------------
\* What scripts, application and operator assign has the type it should have.
LEMMA TypeStep ==
  ASSUME BootInv, [Next]_vars
  PROVE  TypeOK'
<1> USE BootAssumption, StoreAssumption
<1>1. CASE LoadState
  BY <1>1, StoreEffect DEF LoadState, Load, Goto, envVars, BootInv, TypeOK
<1>2. CASE WriteCopies
  BY <1>2, StoreEffect DEF WriteCopies, scriptVars, envVars, BootInv, TypeOK
<1>3. CASE BootSource
  BY <1>3, StoreEffect, OrderFacts, MountFacts
     DEF BootSource, storeVars, envVars, BootInv, TypeOK
<1>4. CASE Autoboot
  BY <1>4, StoreEffect DEF Autoboot, Goto, storeVars, envVars, BootInv, TypeOK
<1>5. CASE BootSdcard
  <2>1. order # <<>> /\ order \in Seq(Entries) /\ mount' \in MountPoints /\ credits' \in Nat
    BY <1>5, MountFacts DEF BootSdcard, At, BootInv, TypeOK
  <2>2. CASE Start("sd")
    BY <2>1, <2>2, StoreEffect DEF Start, envVars, BootInv, TypeOK
  <2>3. CASE NextEntry
    BY <2>1, <2>3, StoreEffect, OrderFacts DEF NextEntry, envVars, BootInv, TypeOK
  <2> QED
    BY <1>5, <2>2, <2>3 DEF BootSdcard
<1>6. CASE SelectUpdate
  BY <1>6, SelectUpdateEffect, StoreEffect DEF SelectUpdate, envVars, BootInv, TypeOK
<1>7. CASE SelectActive
  <2>1. ram \in Value
    BY <1>7 DEF SelectActive, At, BootInv, TypeOK, StoreTypeOK, WriterInv
  <2>2. S' \in SystemNumbers
    BY <1>7, <2>1, BlockType DEF SelectActive
  <2> QED
    BY <1>7, <2>2, StoreEffect DEF SelectActive, At, storeVars, envVars, BootInv, TypeOK
<1>8. CASE SaveState
  BY <1>8, StoreEffect DEF SaveState, Save, Idle, Goto, envVars, BootInv, TypeOK
<1>9. CASE SaveStateDone
  BY <1>9, StoreEffect DEF SaveStateDone, Goto, storeVars, envVars, BootInv, TypeOK
<1>10. CASE BootSystem
  <2>1. credits' \in Nat
    <3>1. paid => Stored.update_boot_count < credits
      BY <1>10 DEF BootSystem, BootInv, CreditInv
    <3>2. Stored.update_boot_count \in 0..MaxCount /\ credits \in Nat
      BY StoreEffect, BlockType DEF BootInv, TypeOK
    <3>3. paid => credits - 1 \in Nat
      BY <3>1, <3>2
    <3> QED
      BY <1>10, <3>2, <3>3 DEF BootSystem
  <2>2. mount' \in MountPoints
    BY <1>10, MountFacts DEF BootSystem, BootInv, TypeOK
  <2>3. order \in Seq(Entries) /\ order # <<>>
    BY <1>10 DEF BootSystem, BootInv, TypeOK, MountInv, Trying
  <2>4. CASE S \in Systems /\ Start(S)
    BY <2>1, <2>2, <2>3, <2>4, StoreEffect DEF Start, envVars, BootInv, TypeOK
  <2>5. CASE NextEntry
    BY <2>1, <2>2, <2>3, <2>5, StoreEffect, OrderFacts
       DEF NextEntry, envVars, BootInv, TypeOK
  <2> QED
    BY <1>10, <2>4, <2>5 DEF BootSystem
<1>11. CASE BootNet
  <2>1. order # <<>> /\ order \in Seq(Entries) /\ mount' \in MountPoints /\ credits' \in Nat
    BY <1>11, MountFacts DEF BootNet, At, BootInv, TypeOK
  <2>2. CASE Start("net")
    BY <2>1, <2>2, StoreEffect DEF Start, envVars, BootInv, TypeOK
  <2>3. CASE NextEntry
    BY <2>1, <2>3, StoreEffect, OrderFacts DEF NextEntry, envVars, BootInv, TypeOK
  <2> QED
    BY <1>11, <2>2, <2>3 DEF BootNet
<1>12. CASE NothingBoots
  BY <1>12, StoreEffect DEF NothingBoots, Goto, storeVars, envVars, BootInv, TypeOK
<1>13. CASE SaveStateFails
  BY <1>13, StoreEffect DEF SaveStateFails, storeVars, envVars, BootInv, TypeOK
<1>14. CASE Restart
  BY <1>14, StoreEffect, OrderFacts, MountFacts
     DEF Restart, Reset, envVars, BootInv, TypeOK, SystemNumbers
<1>15. CASE AppValidate
  BY <1>15, StoreEffect
     DEF AppValidate, AppRuns, Set, Idle, Goto, Own, envVars, BootInv, TypeOK
<1>16. CASE \E s \in Systems : AppInstall(s)
  BY <1>16, StoreEffect
     DEF AppInstall, storeVars, Systems, SystemNumbers, Images, BootInv, TypeOK
<1>17. CASE \E s \in Systems, n \in 1..MaxCount : AppMark(s, n)
  BY <1>17, StoreEffect
     DEF AppMark, AppRuns, Spare, Set, Idle, Goto, envVars, BootInv, TypeOK
<1>18. CASE AppInstalled
  BY <1>18, StoreEffect DEF AppInstalled, Goto, storeVars, Images, BootInv, TypeOK
<1>19. CASE AppSave
  BY <1>19, StoreEffect DEF AppSave, Save, Idle, Goto, envVars, BootInv, TypeOK
<1>20. CASE AppSaved
  BY <1>20, StoreEffect DEF AppSaved, Goto, storeVars, BootInv, TypeOK
<1>21. CASE Interrupt
  BY <1>21, StoreEffect DEF Interrupt, Goto, storeVars, envVars, BootInv, TypeOK
<1>22. CASE ForceSystem0
  BY <1>22, StoreEffect DEF ForceSystem0, Set, Idle, Goto, envVars, BootInv, TypeOK
<1>23. CASE ShellSave
  BY <1>23, StoreEffect DEF ShellSave, Save, Idle, Goto, BootInv, TypeOK
<1>24. CASE CopyImage \/ FetchImage
  BY <1>24, StoreEffect
     DEF CopyImage, FetchImage, Goto, storeVars, Images, BootInv, TypeOK
<1>25. CASE ImageCopied
  BY <1>25, StoreEffect DEF ImageCopied, Goto, storeVars, Images, Systems, BootInv, TypeOK
<1>26. CASE UNCHANGED vars
  BY <1>26, StoreEffect DEF vars, storeVars, scriptVars, envVars, BootInv, TypeOK
<1> QED
  BY <1>1, <1>2, <1>3, <1>4, <1>5, <1>6, <1>7, <1>8, <1>9, <1>10, <1>11, <1>12, <1>13,
     <1>14, <1>15, <1>16, <1>17, <1>18, <1>19, <1>20, <1>21, <1>22, <1>23, <1>24,
     <1>25, <1>26
     DEF Next, Boot, App, Finish, Operator, TryAgain, PowerLoss,
         AppReboot, AppCrash, ShellReset

\* A save always has something to write.
LEMMA CopiesNotEmpty == Copies # {}
<1>1. 1 \in Copies
  BY StoreAssumption DEF Copies
<1> QED
  BY <1>1

\* A save has a place in the script that waits for it.
LEMMA WriterStep ==
  ASSUME BootInv, [Next]_vars
  PROVE  WriterInv'
<1> USE BootAssumption, StoreAssumption
<1>1. CASE LoadState
  BY <1>1, StoreEffect
     DEF LoadState, Load, Goto, envVars, BootInv, StoreTypeOK, WriterInv, SavePcs
<1>2. CASE WriteCopies
  BY <1>2, StoreEffect
     DEF WriteCopies, scriptVars, envVars, BootInv, StoreTypeOK, WriterInv, SavePcs
<1>3. CASE BootSource
  BY <1>3, StoreEffect
     DEF BootSource, storeVars, envVars, BootInv, StoreTypeOK, WriterInv, SavePcs
<1>4. CASE Autoboot
  BY <1>4, StoreEffect
     DEF Autoboot, Goto, storeVars, envVars, BootInv, StoreTypeOK, WriterInv, SavePcs
<1>5. CASE BootSdcard
  BY <1>5, StoreEffect
     DEF BootSdcard, At, Start, NextEntry, Set, Idle, storeVars, envVars, BootInv,
         StoreTypeOK, WriterInv, SavePcs
<1>6. CASE SelectUpdate
  BY <1>6, SelectUpdateEffect DEF SelectUpdate, At, BootInv, WriterInv, SavePcs
<1>7. CASE SelectActive
  BY <1>7, StoreEffect
     DEF SelectActive, At, storeVars, envVars, BootInv, StoreTypeOK, WriterInv,
         SavePcs
<1>8. CASE SaveState
  BY <1>8, CopiesNotEmpty
     DEF SaveState, Save, Idle, Goto, envVars, BootInv, WriterInv, SavePcs
<1>9. CASE SaveStateDone
  BY <1>9, StoreEffect
     DEF SaveStateDone, Goto, storeVars, envVars, BootInv, StoreTypeOK, WriterInv,
         SavePcs
<1>10. CASE BootSystem
  BY <1>10, StoreEffect
     DEF BootSystem, Start, NextEntry, Set, Idle, storeVars, envVars, BootInv,
         StoreTypeOK, WriterInv, SavePcs
<1>11. CASE BootNet
  BY <1>11, StoreEffect
     DEF BootNet, At, Start, NextEntry, Set, Idle, storeVars, envVars, BootInv,
         StoreTypeOK, WriterInv, SavePcs
<1>12. CASE NothingBoots
  BY <1>12, StoreEffect
     DEF NothingBoots, Goto, storeVars, envVars, BootInv, StoreTypeOK, WriterInv,
         SavePcs
<1>13. CASE SaveStateFails
  BY <1>13, StoreEffect
     DEF SaveStateFails, storeVars, envVars, BootInv, StoreTypeOK, WriterInv, SavePcs
<1>14. CASE Restart
  BY <1>14, StoreEffect
     DEF Restart, Reset, envVars, BootInv, StoreTypeOK, WriterInv, SavePcs
<1>15. CASE AppValidate
  BY <1>15, AppValidateEffect
     DEF AppValidate, AppRuns, Goto, BootInv, WriterInv, SavePcs
<1>16. CASE \E s \in Systems : AppInstall(s)
  BY <1>16, StoreEffect
     DEF AppInstall, AppRuns, Spare, storeVars, BootInv, StoreTypeOK, WriterInv,
         SavePcs
<1>17. CASE \E s \in Systems, n \in 1..MaxCount : AppMark(s, n)
  <2>1. PICK s \in Systems, n \in 1..MaxCount : AppMark(s, n)
    BY <1>17
  <2> QED
    BY <2>1, AppMarkEffect DEF AppMark, AppRuns, Goto, BootInv, WriterInv, SavePcs
<1>18. CASE AppInstalled
  BY <1>18, StoreEffect
     DEF AppInstalled, Goto, storeVars, BootInv, StoreTypeOK, WriterInv, SavePcs
<1>19. CASE AppSave
  BY <1>19, CopiesNotEmpty
     DEF AppSave, Save, Idle, Goto, envVars, BootInv, WriterInv, SavePcs
<1>20. CASE AppSaved
  BY <1>20, StoreEffect
     DEF AppSaved, Goto, storeVars, BootInv, StoreTypeOK, WriterInv, SavePcs
<1>21. CASE Interrupt
  BY <1>21, StoreEffect
     DEF Interrupt, Goto, storeVars, envVars, BootInv, StoreTypeOK, WriterInv, SavePcs
<1>22. CASE ForceSystem0
  BY <1>22, StoreEffect
     DEF ForceSystem0, Set, Idle, Goto, envVars, BootInv, StoreTypeOK, WriterInv,
         SavePcs
<1>23. CASE ShellSave
  BY <1>23, CopiesNotEmpty DEF ShellSave, Save, Idle, Goto, BootInv, WriterInv, SavePcs
<1>24. CASE CopyImage \/ FetchImage
  BY <1>24, StoreEffect
     DEF CopyImage, FetchImage, Goto, storeVars, BootInv, StoreTypeOK, WriterInv, SavePcs
<1>25. CASE ImageCopied
  BY <1>25, StoreEffect
     DEF ImageCopied, Goto, storeVars, BootInv, StoreTypeOK, WriterInv, SavePcs
<1>26. CASE UNCHANGED vars
  BY <1>26, StoreEffect
     DEF vars, storeVars, scriptVars, envVars, BootInv, StoreTypeOK, WriterInv,
         SavePcs
<1> QED
  BY <1>1, <1>2, <1>3, <1>4, <1>5, <1>6, <1>7, <1>8, <1>9, <1>10, <1>11, <1>12, <1>13,
     <1>14, <1>15, <1>16, <1>17, <1>18, <1>19, <1>20, <1>21, <1>22, <1>23, <1>24,
     <1>25, <1>26
     DEF Next, Boot, App, Finish, Operator, TryAgain, PowerLoss,
         AppReboot, AppCrash, ShellReset

\* Each entry that boots an image has set the mount point itself, but for the
\* network, which some orders try after a system.
LEMMA MountStep ==
  ASSUME BootInv, [Next]_vars
  PROVE  MountInv'
<1> USE BootAssumption, StoreAssumption
<1>1. CASE LoadState
  BY <1>1, MountFacts, OrderFacts
     DEF LoadState, Load, Goto, envVars, BootInv, TypeOK, MountInv, AppPcs, Trying,
         Own
<1>2. CASE WriteCopies
  BY <1>2, MountFacts, OrderFacts
     DEF WriteCopies, scriptVars, envVars, BootInv, TypeOK, MountInv, AppPcs, Trying,
         Own
<1>3. CASE BootSource
  <2>1. ~SystemThenNet(nv) => ~SystemThenNet(order')
    BY <1>3, OrderFacts DEF BootSource, BootInv, TypeOK
  <2> QED
    BY <1>3, <2>1, MountFacts
       DEF BootSource, storeVars, envVars, BootInv, TypeOK, MountInv, AppPcs, Trying,
           Own
<1>4. CASE Autoboot
  BY <1>4, MountFacts, OrderFacts
     DEF Autoboot, Goto, storeVars, envVars, BootInv, TypeOK, MountInv, AppPcs,
         Trying, Own
<1>5. CASE BootSdcard
  <2>1. /\ pc = "boot" /\ running = "none" /\ order \in Seq(Entries) /\ Tries(order, "sdcard")
        /\ ~SystemThenNet(nv) => ~SystemThenNet(order)
        /\ mount' = MountOf("sd")
    BY <1>5, OrderFacts
       DEF BootSdcard, At, BootInv, TypeOK, MountInv, AppPcs, Trying, Own
  <2>2. CASE Start("sd")
    BY <2>1, <2>2, MountFacts
       DEF Start, envVars, BootInv, TypeOK, MountInv, AppPcs, Trying, Own
  <2>3. CASE NextEntry
    <3>1. ~SystemThenNet(nv) => ~SystemThenNet(order')
      BY <1>5, <2>1, <2>3, OrderFacts DEF BootSdcard, At, NextEntry
    <3>2. ~SystemThenNet(nv) /\ Own' # {} => ~Tries(order', "net")
      BY <1>5, <2>1, <2>3, OrderFacts, MountFacts
         DEF BootSdcard, At, NextEntry, BootInv, TypeOK, MountInv, AppPcs, Trying, Own
    <3> QED
      BY <2>1, <2>3, <3>1, <3>2, MountFacts
         DEF NextEntry, envVars, BootInv, TypeOK, MountInv, AppPcs, Trying, Own
  <2> QED
    BY <1>5, <2>2, <2>3 DEF BootSdcard
<1>6. CASE SelectUpdate
  BY <1>6, MountFacts, OrderFacts
     DEF SelectUpdate, At, Set, Idle, envVars, BootInv, TypeOK, MountInv, AppPcs,
         Trying, Own
<1>7. CASE SelectActive
  BY <1>7, MountFacts, OrderFacts
     DEF SelectActive, At, storeVars, envVars, BootInv, TypeOK, MountInv, AppPcs,
         Trying, Own
<1>8. CASE SaveState
  BY <1>8, MountFacts, OrderFacts
     DEF SaveState, Save, Idle, Goto, envVars, BootInv, TypeOK, MountInv, AppPcs,
         Trying, Own
<1>9. CASE SaveStateDone
  BY <1>9, MountFacts, OrderFacts
     DEF SaveStateDone, Goto, storeVars, envVars, BootInv, TypeOK, MountInv, AppPcs,
         Trying, Own
<1>10. CASE BootSystem
  <2>1. /\ running = "none" /\ order \in Seq(Entries) /\ order # <<>>
        /\ Tries(order, "system")
        /\ ~SystemThenNet(nv) => /\ ~SystemThenNet(order) /\ ~SystemThenNet(Tail(order))
                                 /\ ~Tries(Tail(order), "net")
    BY <1>10, OrderFacts DEF BootSystem, BootInv, TypeOK, MountInv, AppPcs, Trying, Own
  <2>2. CASE S \in Systems /\ Start(S) /\ mount' = MountOf(S)
    BY <2>1, <2>2, MountFacts
       DEF Start, envVars, BootInv, TypeOK, MountInv, AppPcs, Trying, Own
  <2>3. CASE NextEntry
    <3>1. /\ ~SystemThenNet(nv) => ~SystemThenNet(order') /\ ~Tries(order', "net")
      BY <2>1, <2>3 DEF NextEntry
    <3> QED
      BY <2>1, <2>3, <3>1, MountFacts
         DEF NextEntry, envVars, BootInv, TypeOK, MountInv, AppPcs, Trying, Own
  <2> QED
    BY <1>10, <2>2, <2>3 DEF BootSystem
<1>11. CASE BootNet
  <2>1. /\ pc = "boot" /\ running = "none" /\ order \in Seq(Entries) /\ Tries(order, "net")
        /\ ~SystemThenNet(nv) => ~SystemThenNet(order)
        /\ mount' = mount
    BY <1>11, OrderFacts DEF BootNet, At, BootInv, TypeOK, MountInv, AppPcs, Trying, Own
  <2>2. CASE Start("net")
    BY <2>1, <2>2, MountFacts
       DEF Start, envVars, BootInv, TypeOK, MountInv, AppPcs, Trying, Own
  <2>3. CASE NextEntry
    <3>1. ~SystemThenNet(nv) => ~SystemThenNet(order')
      BY <1>11, <2>1, <2>3, OrderFacts DEF BootNet, At, NextEntry
    <3>2. ~SystemThenNet(nv) /\ Own' # {} => ~Tries(order', "net")
      BY <1>11, <2>1, <2>3, OrderFacts, MountFacts
         DEF BootNet, At, NextEntry, BootInv, TypeOK, MountInv, AppPcs, Trying, Own
    <3> QED
      BY <2>1, <2>3, <3>1, <3>2, MountFacts
         DEF NextEntry, envVars, BootInv, TypeOK, MountInv, AppPcs, Trying, Own
  <2> QED
    BY <1>11, <2>2, <2>3 DEF BootNet
<1>12. CASE NothingBoots
  BY <1>12, MountFacts, OrderFacts
     DEF NothingBoots, Goto, storeVars, envVars, BootInv, TypeOK, MountInv, AppPcs,
         Trying, Own
<1>13. CASE SaveStateFails
  BY <1>13, MountFacts, OrderFacts
     DEF SaveStateFails, storeVars, envVars, BootInv, TypeOK, MountInv, AppPcs,
         Trying, Own
<1>14. CASE Restart
  BY <1>14, MountFacts, OrderFacts
     DEF Restart, Reset, envVars, BootInv, TypeOK, MountInv, AppPcs, Trying, Own
<1>15. CASE AppValidate
  BY <1>15, MountFacts, OrderFacts
     DEF AppValidate, AppRuns, Set, Idle, Goto, Own, envVars, BootInv, TypeOK,
         MountInv, AppPcs, Trying, Own
<1>16. CASE \E s \in Systems : AppInstall(s)
  BY <1>16, MountFacts, OrderFacts
     DEF AppInstall, AppRuns, Spare, storeVars, BootInv, TypeOK, MountInv, AppPcs,
         Trying, Own
<1>17. CASE \E s \in Systems, n \in 1..MaxCount : AppMark(s, n)
  BY <1>17, MountFacts, OrderFacts
     DEF AppMark, AppRuns, Spare, Set, Idle, Goto, envVars, BootInv, TypeOK, MountInv,
         AppPcs, Trying, Own
<1>18. CASE AppInstalled
  BY <1>18, MountFacts, OrderFacts
     DEF AppInstalled, Goto, storeVars, BootInv, TypeOK, MountInv, AppPcs, Trying, Own
<1>19. CASE AppSave
  BY <1>19, MountFacts, OrderFacts
     DEF AppSave, Save, Idle, Goto, envVars, BootInv, TypeOK, MountInv, AppPcs,
         Trying, Own
<1>20. CASE AppSaved
  BY <1>20, MountFacts, OrderFacts
     DEF AppSaved, Goto, storeVars, BootInv, TypeOK, MountInv, AppPcs,
         Trying, Own
<1>21. CASE Interrupt
  BY <1>21, MountFacts, OrderFacts
     DEF Interrupt, Goto, storeVars, envVars, BootInv, TypeOK, MountInv, AppPcs,
         Trying, Own
<1>22. CASE ForceSystem0
  BY <1>22, MountFacts, OrderFacts
     DEF ForceSystem0, Set, Idle, Goto, envVars, BootInv, TypeOK, MountInv, AppPcs,
         Trying, Own
<1>23. CASE ShellSave
  BY <1>23, MountFacts, OrderFacts
     DEF ShellSave, Save, Idle, Goto, BootInv, TypeOK, MountInv, AppPcs, Trying, Own
<1>24. CASE CopyImage \/ FetchImage
  BY <1>24, MountFacts, OrderFacts
     DEF CopyImage, FetchImage, Goto, storeVars, BootInv, TypeOK, MountInv, AppPcs, Trying, Own
<1>25. CASE ImageCopied
  BY <1>25, MountFacts, OrderFacts
     DEF ImageCopied, Goto, storeVars, BootInv, TypeOK, MountInv, AppPcs, Trying, Own
<1>26. CASE UNCHANGED vars
  BY <1>26, MountFacts, OrderFacts
     DEF vars, storeVars, scriptVars, envVars, BootInv, TypeOK, MountInv, AppPcs,
         Trying, Own
<1> QED
  BY <1>1, <1>2, <1>3, <1>4, <1>5, <1>6, <1>7, <1>8, <1>9, <1>10, <1>11, <1>12, <1>13,
     <1>14, <1>15, <1>16, <1>17, <1>18, <1>19, <1>20, <1>21, <1>22, <1>23, <1>24,
     <1>25, <1>26
     DEF Next, Boot, App, Finish, Operator, TryAgain, PowerLoss,
         AppReboot, AppCrash, ShellReset

\* The count in RAM is decremented at SelectUpdate, the stored one no later than
\* SaveStateDone, the credit only at BootSystem.
LEMMA CreditStep ==
  ASSUME BootInv, [Next]_vars
  PROVE  CreditInv'
<1> USE BootAssumption, StoreAssumption
<1>1. CASE LoadState
  BY <1>1, StoreEffect, BlockType
     DEF LoadState, Load, Goto, envVars, BootInv, TypeOK, StoreTypeOK, WriterInv,
         SavePcs, CreditInv
<1>2. CASE WriteCopies
  BY <1>2, StoreEffect, BlockType
     DEF WriteCopies, scriptVars, envVars, BootInv, TypeOK, StoreTypeOK, WriterInv,
         SavePcs, CreditInv
<1>3. CASE BootSource
  BY <1>3, StoreEffect, BlockType
     DEF BootSource, storeVars, envVars, BootInv, TypeOK, StoreTypeOK, WriterInv,
         SavePcs, CreditInv
<1>4. CASE Autoboot
  BY <1>4, StoreEffect, BlockType
     DEF Autoboot, Goto, storeVars, envVars, BootInv, TypeOK, StoreTypeOK, WriterInv,
         SavePcs, CreditInv
<1>5. CASE BootSdcard
  BY <1>5, StoreEffect, BlockType
     DEF BootSdcard, At, Start, NextEntry, Set, Idle, storeVars, envVars, BootInv,
         TypeOK, StoreTypeOK, WriterInv, SavePcs, CreditInv
<1>6. CASE SelectUpdate
  BY <1>6, StoreEffect, SelectUpdateEffect
     DEF SelectUpdate, At, BootInv, WriterInv, SavePcs, CreditInv, TypeOK
<1>7. CASE SelectActive
  BY <1>7, StoreEffect, BlockType
     DEF SelectActive, At, storeVars, envVars, BootInv, TypeOK, StoreTypeOK,
         WriterInv, SavePcs, CreditInv
<1>8. CASE SaveState
  BY <1>8, StoreEffect, BlockType
     DEF SaveState, Save, Idle, Goto, envVars, BootInv, TypeOK, StoreTypeOK,
         WriterInv, SavePcs, CreditInv
<1>9. CASE SaveStateDone
  BY <1>9, StoreEffect, BlockType
     DEF SaveStateDone, Goto, storeVars, envVars, BootInv, TypeOK, StoreTypeOK,
         WriterInv, SavePcs, CreditInv
<1>10. CASE BootSystem
  <2>1. /\ Stored \in Value /\ credits \in Nat /\ Stored' = Stored
        /\ pc = "selected" /\ ram # Lost /\ ram \in Value
    BY <1>10, StoreEffect
       DEF BootSystem, Start, NextEntry, Set, storeVars, BootInv, TypeOK, StoreTypeOK,
           WriterInv
  <2>2. Stored.update_boot_count \in Nat /\ ram.update_boot_count \in Nat
    BY <2>1, BlockType
  <2>3. /\ Stored.update_boot_count <= credits'
        /\ ram.update_boot_count <= credits'
    BY <1>10, <2>1, <2>2 DEF BootSystem, BootInv, CreditInv
  <2>4. ram' \in {Stored, ram} /\ pc' \in {"app", "boot"}
    BY <1>10 DEF BootSystem, Start, NextEntry, Set, storeVars
  <2> QED
    BY <2>1, <2>3, <2>4 DEF CreditInv
<1>11. CASE BootNet
  BY <1>11, StoreEffect, BlockType
     DEF BootNet, At, Start, NextEntry, Set, Idle, storeVars, envVars, BootInv,
         TypeOK, StoreTypeOK, WriterInv, SavePcs, CreditInv
<1>12. CASE NothingBoots
  BY <1>12, StoreEffect, BlockType
     DEF NothingBoots, Goto, storeVars, envVars, BootInv, TypeOK, StoreTypeOK,
         WriterInv, SavePcs, CreditInv
<1>13. CASE SaveStateFails
  BY <1>13, StoreEffect, BlockType
     DEF SaveStateFails, storeVars, envVars, BootInv, TypeOK, StoreTypeOK, WriterInv,
         SavePcs, CreditInv
<1>14. CASE Restart
  BY <1>14, StoreEffect, BlockType
     DEF Restart, Reset, envVars, BootInv, TypeOK, StoreTypeOK, WriterInv, SavePcs,
         CreditInv
<1>15. CASE AppValidate
  BY <1>15, StoreEffect, AppValidateEffect
     DEF AppValidate, AppRuns, Goto, BootInv, CreditInv, TypeOK
<1>16. CASE \E s \in Systems : AppInstall(s)
  <2>1. /\ copies' = copies /\ ram' = ram /\ credits' = credits
        /\ pc' = "installing"
    BY <1>16 DEF AppInstall, storeVars
  <2>2. Stored' = Stored
    BY <2>1, StoreEffect
  <2>3. CreditInv
    BY DEF BootInv
  <2> QED BY <2>1, <2>2, <2>3 DEF CreditInv
<1>17. CASE \E s \in Systems, n \in 1..MaxCount : AppMark(s, n)
  <2>1. PICK s \in Systems, n \in 1..MaxCount : AppMark(s, n)
    BY <1>17
  <2> QED
    BY <2>1, StoreEffect, AppMarkEffect
       DEF AppMark, AppRuns, Goto, BootInv, CreditInv, TypeOK
<1>18. CASE AppInstalled
  BY <1>18, StoreEffect, BlockType
     DEF AppInstalled, Goto, storeVars, BootInv, TypeOK, StoreTypeOK, WriterInv,
         SavePcs, CreditInv
<1>19. CASE AppSave
  BY <1>19, StoreEffect, BlockType
     DEF AppSave, Save, Idle, Goto, envVars, BootInv, TypeOK, StoreTypeOK, WriterInv,
         SavePcs, CreditInv
<1>20. CASE AppSaved
  BY <1>20, StoreEffect, BlockType
     DEF AppSaved, Goto, storeVars, BootInv, TypeOK, StoreTypeOK, WriterInv,
         SavePcs, CreditInv
<1>21. CASE Interrupt
  BY <1>21, StoreEffect, BlockType
     DEF Interrupt, Goto, storeVars, envVars, BootInv, TypeOK, StoreTypeOK, WriterInv,
         SavePcs, CreditInv
<1>22. CASE ForceSystem0
  <2>1. ram' = Default /\ copies' = copies /\ Default.update_boot_count = 0
    BY <1>22, BlockType DEF ForceSystem0, Set
  <2> QED
    BY <1>22, <2>1, StoreEffect, BlockType
       DEF ForceSystem0, Goto, BootInv, CreditInv, TypeOK
<1>23. CASE ShellSave
  BY <1>23, StoreEffect, BlockType
     DEF ShellSave, Save, Idle, Goto, BootInv, TypeOK, StoreTypeOK, WriterInv,
         SavePcs, CreditInv
<1>24. CASE CopyImage \/ FetchImage
  BY <1>24, StoreEffect, BlockType
     DEF CopyImage, FetchImage, Goto, storeVars, BootInv, TypeOK, StoreTypeOK, WriterInv, SavePcs,
         CreditInv
<1>25. CASE ImageCopied
  BY <1>25, StoreEffect, BlockType
     DEF ImageCopied, Goto, storeVars, BootInv, TypeOK, StoreTypeOK, WriterInv,
         SavePcs, CreditInv
<1>26. CASE UNCHANGED vars
  BY <1>26, StoreEffect, BlockType
     DEF vars, storeVars, scriptVars, envVars, BootInv, TypeOK, StoreTypeOK,
         WriterInv, SavePcs, CreditInv
<1> QED
  BY <1>1, <1>2, <1>3, <1>4, <1>5, <1>6, <1>7, <1>8, <1>9, <1>10, <1>11, <1>12, <1>13,
     <1>14, <1>15, <1>16, <1>17, <1>18, <1>19, <1>20, <1>21, <1>22, <1>23, <1>24,
     <1>25, <1>26
     DEF Next, Boot, App, Finish, Operator, TryAgain, PowerLoss,
         AppReboot, AppCrash, ShellReset

\* Nobody overwrites the active system, and only an image that runs becomes it.
LEMMA ActiveStep ==
  ASSUME BootInv, [Next]_vars
  PROVE  ActiveInv'
<1> USE BootAssumption, StoreAssumption
<1>1. CASE LoadState
  BY <1>1, StoreEffect, BlockType
     DEF LoadState, Load, Goto, envVars, BootInv, TypeOK, WriterInv, SavePcs,
         ActiveInv,
         GoodActive, Excused, Erased, Sound
<1>2. CASE WriteCopies
  BY <1>2, StoreEffect, BlockType
     DEF WriteCopies, scriptVars, envVars, BootInv, TypeOK, WriterInv, SavePcs,
         ActiveInv,
         GoodActive, Excused, Erased, Sound
<1>3. CASE BootSource
  BY <1>3, StoreEffect, BlockType
     DEF BootSource, storeVars, envVars, BootInv, TypeOK, WriterInv, SavePcs,
         ActiveInv,
         GoodActive, Excused, Erased, Sound
<1>4. CASE Autoboot
  BY <1>4, StoreEffect, BlockType
     DEF Autoboot, Goto, storeVars, envVars, BootInv, TypeOK, WriterInv, SavePcs,
         ActiveInv,
         GoodActive, Excused, Erased, Sound
<1>5. CASE BootSdcard
  <2>1. /\ Stored' = Stored /\ img' = img /\ repair' = repair /\ nv' = nv /\ pc = "boot"
        /\ ram' \in {Stored, ram} /\ pc' \in {"app", "boot"}
    BY <1>5, StoreEffect DEF BootSdcard, At, Start, NextEntry, Set, storeVars, envVars
  <2> QED
    BY <2>1 DEF BootInv, ActiveInv,
         GoodActive, Excused, Erased, Sound
<1>6. CASE SelectUpdate
  BY <1>6, StoreEffect, SelectUpdateEffect
     DEF SelectUpdate, At, envVars, BootInv, ActiveInv,
         GoodActive, Excused, Erased, Sound
<1>7. CASE SelectActive
  BY <1>7, StoreEffect, BlockType
     DEF SelectActive, At, storeVars, envVars, BootInv, TypeOK, WriterInv, SavePcs,
         ActiveInv,
         GoodActive, Excused, Erased, Sound
<1>8. CASE SaveState
  BY <1>8, StoreEffect, BlockType
     DEF SaveState, Save, Idle, Goto, envVars, BootInv, TypeOK, WriterInv, SavePcs,
         ActiveInv,
         GoodActive, Excused, Erased, Sound
<1>9. CASE SaveStateDone
  BY <1>9, StoreEffect, BlockType
     DEF SaveStateDone, Goto, storeVars, envVars, BootInv, TypeOK, WriterInv, SavePcs,
         ActiveInv,
         GoodActive, Excused, Erased, Sound
<1>10. CASE BootSystem
  BY <1>10, StoreEffect, BlockType
     DEF BootSystem, Start, NextEntry, Set, Idle, storeVars, envVars, BootInv, TypeOK,
         WriterInv, SavePcs, ActiveInv,
         GoodActive, Excused, Erased, Sound
<1>11. CASE BootNet
  <2>1. /\ Stored' = Stored /\ img' = img /\ repair' = repair /\ nv' = nv /\ pc = "boot"
        /\ ram' \in {Stored, ram} /\ pc' \in {"app", "boot"}
    BY <1>11, StoreEffect DEF BootNet, At, Start, NextEntry, Set, storeVars, envVars
  <2> QED
    BY <2>1 DEF BootInv, ActiveInv,
         GoodActive, Excused, Erased, Sound
<1>12. CASE NothingBoots
  BY <1>12, StoreEffect, BlockType
     DEF NothingBoots, Goto, storeVars, envVars, BootInv, TypeOK, WriterInv, SavePcs,
         ActiveInv,
         GoodActive, Excused, Erased, Sound
<1>13. CASE SaveStateFails
  BY <1>13, StoreEffect, BlockType
     DEF SaveStateFails, storeVars, envVars, BootInv, TypeOK, WriterInv, SavePcs,
         ActiveInv,
         GoodActive, Excused, Erased, Sound
<1>14. CASE Restart
  BY <1>14, StoreEffect, BlockType
     DEF Restart, Reset, envVars, BootInv, TypeOK, WriterInv, SavePcs, ActiveInv,
         GoodActive, Excused, Erased, Sound
<1>15. CASE AppValidate
  <2>1. PICK s \in Own : ram'.active_system = s
    BY <1>15, AppValidateEffect
  <2>2. s \in Systems /\ (~SystemThenNet(nv) => s = running)
    BY <1>15, <2>1, MountFacts
       DEF AppValidate, AppRuns, BootInv, TypeOK, MountInv, AppPcs, Own
  <2> QED
    BY <1>15, <2>1, <2>2, StoreEffect, AppValidateEffect
       DEF AppValidate, AppRuns, Goto, envVars, BootInv, ActiveInv,
         GoodActive, Excused, Erased, Sound
<1>16. CASE \E s \in Systems : AppInstall(s)
  <2>1. PICK s \in Systems : AppInstall(s)
    BY <1>16
  <2>2. ram = Stored /\ s # ram.active_system
    BY <2>1 DEF AppInstall, AppRuns, Spare, BootInv, WriterInv
  <2> QED
    BY <2>1, <2>2, StoreEffect
       DEF AppInstall, AppRuns, storeVars, BootInv, TypeOK, ActiveInv,
         GoodActive, Excused, Erased, Sound
<1>17. CASE \E s \in Systems, n \in 1..MaxCount : AppMark(s, n)
  <2>1. PICK s \in Systems, n \in 1..MaxCount : AppMark(s, n)
    BY <1>17
  <2> QED
    BY <2>1, StoreEffect, AppMarkEffect
       DEF AppMark, AppRuns, Goto, envVars, BootInv, ActiveInv,
         GoodActive, Excused, Erased, Sound
<1>18. CASE AppInstalled
  <2>1. /\ ram = Stored /\ ram # Lost /\ S \in Systems /\ S # ram.active_system
        /\ Stored' = Stored /\ ram' = ram /\ UNCHANGED <<nv, repair>> /\ pc' = "app"
        /\ \E i \in {"good", "crash"} : img' = [img EXCEPT ![S] = i]
    BY <1>18, StoreEffect DEF AppInstalled, Goto, storeVars, BootInv, WriterInv, ActiveInv
  <2>2. /\ Stored.active_system \in Systems
        /\ img'[Stored.active_system] = img[Stored.active_system]
    BY <2>1 DEF BootInv, TypeOK, ActiveInv
  <2> QED
    BY <2>1, <2>2 DEF BootInv, ActiveInv, GoodActive, Excused, Erased, Sound
<1>19. CASE AppSave
  BY <1>19, StoreEffect, BlockType
     DEF AppSave, Save, Idle, Goto, envVars, BootInv, TypeOK, WriterInv, SavePcs,
         ActiveInv,
         GoodActive, Excused, Erased, Sound
<1>20. CASE AppSaved
  BY <1>20, StoreEffect, BlockType
     DEF AppSaved, Goto, storeVars, BootInv, TypeOK, WriterInv, SavePcs,
         ActiveInv,
         GoodActive, Excused, Erased, Sound
<1>21. CASE Interrupt
  BY <1>21, StoreEffect, BlockType
     DEF Interrupt, Goto, storeVars, envVars, BootInv, TypeOK, WriterInv, SavePcs,
         ActiveInv,
         GoodActive, Excused, Erased, Sound
<1>22. CASE ForceSystem0
  <2>1. /\ ram' = Default /\ Stored' = Stored /\ pc' = "forced" /\ UNCHANGED <<img, nv, repair>>
    BY <1>22, StoreEffect DEF ForceSystem0, Set, Goto, envVars
  <2>2. Default.active_system \in Systems
    BY BlockType DEF Systems
  <2> QED
    BY <2>1, <2>2 DEF BootInv, ActiveInv, GoodActive, Excused, Erased, Sound
<1>23. CASE ShellSave
  BY <1>23, StoreEffect, BlockType
     DEF ShellSave, Save, Idle, Goto, BootInv, TypeOK, WriterInv, SavePcs, ActiveInv,
         GoodActive, Excused, Erased, Sound
<1>24. CASE CopyImage \/ FetchImage
  <2>1. /\ Stored' = Stored /\ ram' = ram /\ ram # Lost /\ repair'
        /\ pc' = "copying" => ram = Default
        /\ pc' = "fetching" => img'["1"] = "erased"
        /\ pc' \in {"copying", "fetching"}
    BY <1>24, StoreEffect
       DEF CopyImage, FetchImage, Goto, storeVars, BootInv, WriterInv, ActiveInv, Systems
  <2> QED
    BY <2>1 DEF BootInv, ActiveInv, GoodActive, Excused
<1>25. CASE ImageCopied
  <2>1. /\ Stored' = Stored /\ ram' = ram /\ nv' = nv /\ pc' = "copied" /\ repair' = FALSE
        /\ img'["0"] = "good" /\ img'["1"] \in {"good", img["1"]}
    BY <1>25, StoreEffect DEF ImageCopied, Goto, storeVars, BootInv, TypeOK, Systems
  <2>2. CASE pc = "copying"
    <3>1. Stored.active_system = "0" /\ ram.active_system = "0" /\ "0" \in Systems
      BY <2>2, BlockType DEF Systems, BootInv, WriterInv, ActiveInv
    <3> QED
      BY <2>1, <3>1 DEF ActiveInv, GoodActive, Sound
  <2>3. CASE pc = "fetching"
    <3>1. img["1"] = "erased" /\ ram # Lost
      BY <2>3 DEF BootInv, WriterInv, ActiveInv
    <3>2. Stored.active_system \in {"0", "1"} /\ ram.active_system \in {"0", "1"}
      BY <3>1 DEF BootInv, ActiveInv, Systems
    <3> QED
      BY <2>1, <3>1, <3>2 DEF ActiveInv, GoodActive, Excused, Erased, Sound, Systems
  <2> QED
    BY <1>25, <2>2, <2>3 DEF ImageCopied
<1>26. CASE UNCHANGED vars
  BY <1>26, StoreEffect, BlockType
     DEF vars, storeVars, scriptVars, envVars, BootInv, TypeOK, WriterInv, SavePcs,
         ActiveInv,
         GoodActive, Excused, Erased, Sound
<1> QED
  BY <1>1, <1>2, <1>3, <1>4, <1>5, <1>6, <1>7, <1>8, <1>9, <1>10, <1>11, <1>12, <1>13,
     <1>14, <1>15, <1>16, <1>17, <1>18, <1>19, <1>20, <1>21, <1>22, <1>23, <1>24,
     <1>25, <1>26
     DEF Next, Boot, App, Finish, Operator, TryAgain, PowerLoss,
         AppReboot, AppCrash, ShellReset

-----------------------------------------------------------------------------
\* A provisioned board satisfies the invariant.
LEMMA BootInit == Init => BootInv
<1> SUFFICES ASSUME Init PROVE BootInv
  OBVIOUS
<1>1. StoreInv /\ StoreTypeOK /\ Stored \in Value /\ ram = Lost /\ todo = {}
  BY StoreInitInv, StoredInValue DEF Init, StoreInit, StoreInv
<1>2. Stored.update_boot_count \in Nat
  <2>1. Stored.update_boot_count \in 0..MaxCount
    BY <1>1, BlockType
  <2> QED
    BY <2>1
<1>3. TypeOK
  BY <1>1, <1>2, OrderFacts, MountFacts DEF Init, TypeOK, Images, SystemNumbers
<1>4. WriterInv
  BY <1>1 DEF Init, WriterInv, SavePcs
<1>5. MountInv
  BY OrderFacts, MountFacts DEF Init, MountInv, AppPcs, Trying, Own
<1>6. CreditInv
  BY <1>1, <1>2 DEF Init, CreditInv
<1>7. ActiveInv
  BY <1>1 DEF Init, ActiveInv, GoodActive, Sound
<1> QED
  BY <1>1, <1>3, <1>4, <1>5, <1>6, <1>7 DEF BootInv

\* Every step keeps it.
LEMMA BootNext == BootInv /\ [Next]_vars => BootInv'
BY StoreEffect, TypeStep, WriterStep, MountStep, CreditStep, ActiveStep DEF BootInv

\* The inductive invariant, for every count, number of copies and boot order.
THEOREM BootCorrect == Spec => []BootInv
<1>1. Init => BootInv
  BY BootInit
<1>2. BootInv /\ [Next]_vars => BootInv'
  BY BootNext
<1> QED
  BY <1>1, <1>2, PTL DEF Spec

\* boot/system saves the count it decremented before it boots the update: no
\* sequence of power failures buys the update an attempt it was not granted.
THEOREM AttemptsArePaid == Spec => []AttemptsPaid
<1>1. BootInv => AttemptsPaid
  BY DEF BootInv, CreditInv, AttemptsPaid
<1> QED
  BY <1>1, BootCorrect, PTL

\* The mount point in /chosen is the one of the medium the application is on,
\* whatever entries were tried before; an application from the network gets none
\* of the eMMC, unless the order tries the eMMC first.
THEOREM MountPointIsRight == Spec => []MountMatches
<1>1. BootInv => MountMatches
  BY DEF BootInv, MountInv, MountMatches
<1> QED
  BY <1>1, BootCorrect, PTL

\* The active system of the stored block can be fallen back to: it holds a
\* validated image unless an operator's write of the eMMC is half-way or has
\* left the state naming a system the new image does not have, or the order
\* tries the network after the eMMC.
THEOREM FallbackIsSound == Spec => []GoodActive
<1>1. BootInv => GoodActive
  BY DEF BootInv, ActiveInv
<1> QED
  BY <1>1, BootCorrect, PTL

\* Scripts, application and operator use the state storage as it is meant to
\* be used ...
THEOREM BootUsesStore == Spec => StoreRespected
<1>1. Init => StoreInit
  BY DEF Init
<1>2. BootInv /\ [Next]_vars => [StoreNext]_storeVars
  BY StepStore
<1> QED
  BY <1>1, <1>2, BootCorrect, PTL DEF Spec, StoreRespected, StoreSpec

\* ... and so what they get from it is an atomic cell.
THEOREM BootSeesAtomicState == Spec => AtomicSpec
BY BootUsesStore, StoreIsAtomic, PTL DEF StoreRespected

-----------------------------------------------------------------------------
(* What an attempt costs *)

\* An order that has the eMMC once does not come back to it.
LEMMA OnceFacts ==
  /\ Once(<<>>) /\ Once(DefaultOrder)
  /\ \A o \in Seq(Entries) : o # <<>> /\ Once(o) =>
       /\ Once(Tail(o))
       /\ Head(o) = "system" => ~Tries(Tail(o), "system")
<1>1. Once(<<>>)
  BY DEF Once
<1>2. Once(DefaultOrder)
  <2>1. DOMAIN DefaultOrder = 1..3 /\ \A i \in 1..3 : i = 1 \/ i = 2 \/ i = 3
    BY DEF DefaultOrder
  <2>2. DefaultOrder[1] # "system" /\ DefaultOrder[3] # "system"
    BY DEF DefaultOrder
  <2> QED
    BY <2>1, <2>2 DEF Once
<1>3. ASSUME NEW o \in Seq(Entries), o # <<>>, Once(o)
      PROVE  /\ Once(Tail(o))
             /\ Head(o) = "system" => ~Tries(Tail(o), "system")
  <2>1. /\ Len(o) \in Nat /\ Len(o) >= 1 /\ DOMAIN o = 1..Len(o) /\ Head(o) = o[1]
        /\ DOMAIN Tail(o) = 1..(Len(o) - 1)
    BY <1>3
  <2>2. \A i \in DOMAIN Tail(o) : i \in Nat /\ i + 1 \in DOMAIN o /\ Tail(o)[i] = o[i + 1]
    BY <1>3, <2>1
  <2>3. Once(Tail(o))
    <3> SUFFICES ASSUME NEW i \in DOMAIN Tail(o), NEW j \in DOMAIN Tail(o),
                        Tail(o)[i] = "system", Tail(o)[j] = "system"
                 PROVE  i = j
      BY DEF Once
    <3>1. i + 1 = j + 1
      BY <1>3, <2>2 DEF Once
    <3> QED
      BY <2>2, <3>1
  <2>4. ASSUME Head(o) = "system", NEW i \in DOMAIN Tail(o), Tail(o)[i] = "system"
        PROVE  FALSE
    <3>1. 1 \in DOMAIN o /\ o[1] = "system"
      BY <2>1, <2>4
    <3>2. i + 1 = 1
      BY <1>3, <2>2, <2>4, <3>1 DEF Once
    <3>3. i \in Nat /\ i >= 1
      BY <2>1, <2>4
    <3> QED
      BY <3>2, <3>3
  <2> QED
    BY <2>3, <2>4 DEF Tries
<1> QED
  BY <1>1, <1>2, <1>3

\* The script's pcs: barebox has a working copy and no image runs yet.
Coming == {"probe", "autoboot", "boot", "save", "saving", "selected"}

\* A step out of them leaves of CostInv only the order.
LEMMA CostElsewhere ==
  ASSUME CostInv, pc' \notin Coming, nv' = nv, order' \in {order, <<>>}
  PROVE  CostInv'
BY OnceFacts DEF CostInv, Coming

\* An entry that did not boot anything leaves the working copy alone.
LEMMA CostNextEntry ==
  ASSUME BootInv, CostInv, NextEntry, order # <<>>, Stored' = Stored,
         \/ pc = "boot"
         \/ pc = "selected" /\ Head(order) = "system"
  PROVE  CostInv'
<1>1. /\ pc' = "boot" /\ order' = Tail(order) /\ ram' = ram /\ nv' = nv
      /\ order \in Seq(Entries)
  BY DEF NextEntry, storeVars, envVars, BootInv, TypeOK
<1>2. Unpaid'
  BY <1>1 DEF CostInv, Unpaid
<1>3. Once(nv) => Once(order')
  BY <1>1, OnceFacts DEF CostInv
<1>4. Once(nv) /\ Tries(order', "system") => ram = Stored
  <2>1. CASE pc = "boot"
    BY <1>1, <2>1, OrderFacts DEF CostInv
  <2>2. CASE pc = "selected"
    BY <1>1, <2>2, OnceFacts DEF CostInv
  <2> QED
    BY <2>1, <2>2
<1> QED
  BY <1>1, <1>2, <1>3, <1>4 DEF CostInv

LEMMA CostStep ==
  ASSUME BootInv, CostInv, [Next]_vars
  PROVE  CostInv'
<1> USE DEF Coming
<1>0. /\ Stored \in Value /\ order \in Seq(Entries)
      /\ copies' = copies => Stored' = Stored
  BY StoreEffect DEF BootInv, TypeOK
<1>1. CASE LoadState
  BY <1>0, <1>1 DEF LoadState, Load, Goto, envVars, CostInv
<1>2. CASE WriteCopies
  <2>1. /\ UNCHANGED <<pc, order, S, paid, nv>> /\ ram' = ram
        /\ Stored' = Stored \/ Stored' = ram
        /\ pc \in {"probe", "saving", "appsave", "shellsave"}
    BY <1>2, StoreEffect DEF WriteCopies, scriptVars, envVars, BootInv, WriterInv, SavePcs
  <2>2. ram \in Value
    BY <2>1 DEF BootInv, TypeOK, StoreTypeOK, WriterInv
  <2>3. ram.update_boot_count <= ram.update_boot_count
    <3>1. ram.update_boot_count \in 0..MaxCount
      BY <2>2, BlockType
    <3> QED
      BY <3>1
  <2>4. CASE Stored' = Stored
    BY <2>1, <2>4 DEF CostInv, Unpaid
  <2>5. CASE Stored' = ram
    BY <2>1, <2>3, <2>5 DEF CostInv, Unpaid
  <2> QED
    BY <2>1, <2>4, <2>5
<1>3. CASE BootSource
  <2>1. Once(nv) => Once(order')
    BY <1>3, OnceFacts DEF BootSource
  <2> QED
    BY <1>0, <1>3, <2>1 DEF BootSource, storeVars, envVars, CostInv
<1>4. CASE Autoboot
  <2>1. /\ pc = "autoboot" /\ pc' = "boot" /\ ram = Stored /\ ram' = ram /\ Stored' = Stored
        /\ order' = order /\ nv' = nv
    BY <1>0, <1>4 DEF Autoboot, Goto, storeVars, envVars, CostInv
  <2>2. Stored.update_boot_count <= Stored.update_boot_count
    <3>1. Stored.update_boot_count \in 0..MaxCount
      BY <1>0, BlockType
    <3> QED
      BY <3>1
  <2> QED
    BY <2>1, <2>2 DEF CostInv, Unpaid
<1>5. CASE BootSdcard \/ BootNet
  <2>1. pc = "boot" /\ order # <<>>
    BY <1>5 DEF BootSdcard, BootNet, At
  <2>2. CASE Start("sd") \/ Start("net")
    BY <2>2, CostElsewhere DEF Start, envVars
  <2>3. CASE NextEntry
    BY <1>0, <2>1, <2>3, CostNextEntry DEF NextEntry, storeVars
  <2> QED
    BY <1>5, <2>2, <2>3 DEF BootSdcard, BootNet
<1>6. CASE SelectUpdate
  <2> DEFINE n == ram.update_boot_count
  <2>1. /\ pc = "boot" /\ Tries(order, "system") /\ n > 0 /\ ram \in Value
        /\ ram' = Block(ram.update_system, n - 1, ram.active_system)
        /\ pc' = "save" /\ paid' = TRUE /\ Stored' = Stored /\ order' = order /\ nv' = nv
    BY <1>0, <1>6, OrderFacts
       DEF SelectUpdate, At, Set, Idle, envVars, BootInv, TypeOK, StoreTypeOK
  <2>2. /\ ram'.update_system = ram.update_system /\ ram'.active_system = ram.active_system
        /\ ram'.update_boot_count = n - 1
        /\ n \in 0..MaxCount /\ Stored.update_boot_count \in 0..MaxCount
    BY <1>0, <2>1, BlockType
  <2>3. n <= Stored.update_boot_count /\ (Once(nv) => n = Stored.update_boot_count)
    BY <2>1 DEF CostInv, Unpaid
  <2> HIDE DEF n
  <2>4. /\ n - 1 <= Stored.update_boot_count /\ n - 1 < Stored.update_boot_count
        /\ Once(nv) => n - 1 = Stored.update_boot_count - 1
    BY <2>2, <2>3, BootAssumption
  <2> QED
    BY <2>1, <2>2, <2>4 DEF CostInv, Unpaid
<1>7. CASE SelectActive
  BY <1>0, <1>7 DEF SelectActive, At, storeVars, envVars, CostInv, Unpaid
<1>8. CASE SaveState
  BY <1>0, <1>8 DEF SaveState, Save, Goto, envVars, CostInv, Unpaid
<1>9. CASE SaveStateDone
  BY <1>0, <1>9 DEF SaveStateDone, Goto, storeVars, envVars, CostInv, Unpaid
<1>10. CASE SaveStateFails
  BY <1>0, <1>10 DEF SaveStateFails, storeVars, envVars, CostInv, Unpaid
<1>11. CASE BootSystem
  <2>1. pc = "selected" /\ order # <<>> /\ Head(order) = "system"
    BY <1>11 DEF BootSystem, BootInv, MountInv, Trying
  <2>2. CASE Start(S)
    BY <2>2, CostElsewhere DEF Start, envVars
  <2>3. CASE NextEntry
    BY <1>0, <2>1, <2>3, CostNextEntry DEF NextEntry, storeVars
  <2> QED
    BY <1>11, <2>2, <2>3 DEF BootSystem
<1>12. CASE Restart
  BY <1>12, CostElsewhere DEF Restart, envVars
<1>13. CASE NothingBoots \/ Interrupt \/ ForceSystem0 \/ ShellSave \/ CopyImage
          \/ FetchImage \/ ImageCopied
  BY <1>13, CostElsewhere
     DEF NothingBoots, Interrupt, ForceSystem0, ShellSave, CopyImage, FetchImage, ImageCopied, Goto, envVars
<1>14. CASE \/ AppValidate \/ AppInstalled \/ AppSave \/ AppSaved
            \/ \E s \in Systems : AppInstall(s) \/ \E n \in 1..MaxCount : AppMark(s, n)
  BY <1>14, CostElsewhere
     DEF AppValidate, AppInstalled, AppSave, AppSaved, AppInstall, AppMark, Goto, envVars
<1>15. CASE UNCHANGED vars
  BY <1>0, <1>15 DEF vars, storeVars, scriptVars, envVars, CostInv, Unpaid
<1> QED
  BY <1>1, <1>2, <1>3, <1>4, <1>5, <1>6, <1>7, <1>8, <1>9, <1>10, <1>11, <1>12, <1>13,
     <1>14, <1>15
     DEF Next, Boot, App, Finish, Operator, TryAgain, PowerLoss, AppReboot, AppCrash, ShellReset

\* A board in reset has nothing to pay.
LEMMA CostInit == Init => CostInv
BY OnceFacts DEF Init, CostInv

\* Blocks that agree in their three variables are the same.
LEMMA BlockEqual ==
  ASSUME NEW v \in Value
  PROVE  v = Block(v.update_system, v.update_boot_count, v.active_system)
BY BootAssumption DEF Block

\* Only a writer changes what is stored, and what it writes is the working copy.
LEMMA StoredChange ==
  ASSUME BootInv, [Next]_vars, Stored' # Stored
  PROVE  Stored' = ram /\ ram \in Value /\ pc \in SavePcs \cup {"probe"}
<1>1. BeginWrite \/ EndWrite
  <2>1. [StoreNext]_storeVars /\ copies' # copies
    BY StepStore, StoreEffect
  <2> QED
    BY <2>1 DEF StoreNext, Load, Save, Set, Reset, storeVars
<1>2. Stored' = ram /\ todo # {}
  BY <1>1, StoreEffect
<1>3. pc \in SavePcs \cup {"probe"}
  BY <1>2 DEF BootInv, WriterInv
<1>4. ram \in Value
  BY <1>3 DEF SavePcs, BootInv, TypeOK, StoreTypeOK, WriterInv
<1> QED
  BY <1>2, <1>3, <1>4

LEMMA CountStep ==
  ASSUME BootInv, CostInv, [Next]_vars
  PROVE  CountsDown
<1> SUFFICES ASSUME Stored' # Stored, pc \notin {"appsave", "shellsave"}
             PROVE  /\ pc = "saving"
                    /\ \E n \in 0..(Stored.update_boot_count - 1) :
                         Stored' = Block(Stored.update_system, n, Stored.active_system)
                    /\ Once(nv) => Stored'.update_boot_count = Stored.update_boot_count - 1
  BY DEF CountsDown
<1> DEFINE n == ram.update_boot_count
           m == Stored.update_boot_count
<1>1. Stored' = ram /\ ram \in Value /\ Stored \in Value /\ pc = "saving"
  BY StoredChange, StoreEffect DEF SavePcs, CostInv
<1>2. /\ ram.update_system = Stored.update_system /\ ram.active_system = Stored.active_system
      /\ n <= m
      /\ Once(nv) => n = m - 1
  BY <1>1 DEF CostInv, Unpaid
<1>3. ram = Block(Stored.update_system, n, Stored.active_system)
  BY <1>1, <1>2, BlockEqual
<1>4. n # m
  BY <1>1, <1>3, BlockEqual
<1>5. n \in 0..MaxCount /\ m \in 0..MaxCount
  BY <1>1, BlockType
<1>6. Stored'.update_boot_count = n
  BY <1>1
<1> HIDE DEF n, m
<1>7. n \in 0..(m - 1)
  BY <1>2, <1>4, <1>5, BootAssumption
<1> QED
  BY <1>1, <1>2, <1>3, <1>6, <1>7 DEF m

LEMMA StartStep ==
  ASSUME BootInv, CostInv, [Next]_vars
  PROVE  StartsPaid
<1> SUFFICES ASSUME pc = "selected", pc' = "app"
             PROVE  S = Stored.active_system \/ ram # Stored \/ credits' = credits - 1
  BY DEF StartsPaid
<1>1. BootSystem
  BY DEF Next, Boot, App, Finish, Operator, LoadState, WriteCopies, BootSource, Autoboot,
         BootSdcard, SelectUpdate, SelectActive, SaveState, SaveStateDone, SaveStateFails,
         BootNet, TryAgain, NothingBoots, PowerLoss, AppReboot, AppCrash, ShellReset, Restart,
         AppValidate, AppInstall, AppMark, AppInstalled, AppSave, AppSaved, AppRuns, At,
         Interrupt, ForceSystem0, ShellSave, CopyImage, FetchImage, ImageCopied, Goto, vars, scriptVars
<1>2. CASE paid
  BY <1>1, <1>2 DEF BootSystem
<1>3. CASE ~paid
  <2>1. S = Stored.active_system \/ ram.update_boot_count < Stored.update_boot_count
    BY <1>3 DEF CostInv
  <2>2. Stored.update_boot_count \in 0..MaxCount
    BY StoreEffect, BlockType
  <2>3. ~(Stored.update_boot_count < Stored.update_boot_count)
    BY <2>2
  <2> QED
    BY <2>1, <2>3
<1> QED
  BY <1>2, <1>3

\* Coming up costs one attempt or none, wherever it is interrupted: the boot
\* entries change nothing that is stored but the count, which each pass of
\* boot/system lowers by one, and a system that is not the active one starts
\* only for an attempt that was paid or whose `state -s` failed.
THEOREM AttemptsCostOne == Spec => AttemptCost
<1> DEFINE Inv == BootInv /\ CostInv
<1>1. Init => Inv
  BY BootInit, CostInit
<1>2. Inv /\ [Next]_vars => Inv'
  BY BootNext, CostStep
<1>3. Inv /\ [Next]_vars => [CountsDown /\ StartsPaid]_vars
  BY CountStep, StartStep
<1> QED
  BY <1>1, <1>2, <1>3, PTL DEF Spec, AttemptCost

\* What a pass of boot/system is good for.
PassBrings == BootSystem => paid \/ ram # Stored \/ Excused \/ AppRuns'

\* No pass of boot/system is for nothing: it has lowered the stored count, or
\* its `state -s` has failed, or an application runs.  As the count is at most
\* MaxCount, so is the number of passes that an update which cannot run takes
\* from a board whose power stays on.  The exceptions are those of GoodActive:
\* a write of the eMMC that is half-way or has left the state naming a system
\* the new image does not have, and an order with the network after the eMMC.
THEOREM EachPassBrings == Spec => [][PassBrings]_vars
<1> DEFINE Inv == BootInv /\ CostInv
<1>1. Init => Inv
  BY BootInit, CostInit
<1>2. Inv /\ [Next]_vars => Inv'
  BY BootNext, CostStep
<1>3. ASSUME Inv, Next, BootSystem, ~paid, ram = Stored, ~Excused PROVE AppRuns'
  <2>1. Stored.update_boot_count \in 0..MaxCount
    BY <1>3, StoreEffect, BlockType
  <2>2. ~(Stored.update_boot_count < Stored.update_boot_count)
    BY <2>1
  <2>3. S = Stored.active_system
    BY <1>3, <2>2 DEF BootSystem, CostInv
  <2>4. S \in Systems /\ img[S] = "good"
    BY <1>3, <2>3 DEF BootInv, ActiveInv, GoodActive, Sound
  <2>5. Start(S)
    BY <1>3, <2>4 DEF BootSystem, Bootable
  <2> QED
    BY <2>4, <2>5 DEF Start, envVars, AppRuns
<1>4. Inv /\ [Next]_vars => [PassBrings]_vars
  BY <1>3 DEF PassBrings
<1> QED
  BY <1>1, <1>2, <1>4, PTL DEF Spec
=============================================================================
