------------------------- MODULE FrameHandOver_proof -------------------------
(***************************************************************************)
(* Proofs about FrameHandOver: its types, the exclusive copy of the node   *)
(* parameters, back-pressure, wake-ups, the order of commits and their     *)
(* time stamps, dirty marks, and that it implements FramePipeline.         *)
(***************************************************************************)
EXTENDS FrameHandOver, FiniteSetTheorems, TLAPS

USE DEF Main, Render, Thread

-----------------------------------------------------------------------------
(* The inductive invariant.                                                *)

\* What each thread is doing fits what it has been given.
TaskFits ==
    /\ job = "none" <=> pc[Render] = "idle"
    /\ job = "direct" => pc[Render] \in Committing
    /\ job = "frame" => pc[Render] # "flag"
    /\ \A t \in waiters : pc[t] = "hwWait"

\* The main thread waits for the task it posted and posts no other.
OneTask ==
    /\ pc[Render] \in {"sync", "unblock"} => posted = "none"
    /\ posted = "direct" \/ job = "direct" => pc[Main] = "joined"
    /\ pc[Main] = "joined" => \/ posted = "direct" /\ job # "direct"
                              \/ posted = "none" /\ job = "direct"
    /\ pc[Main] \in {"handOver", "blocked"} => ~doDirect
    /\ pc[Main] = "handOver" => posted = "none"

\* As long as no frame was skipped while another was drawn, a main thread
\* whose last frame was composed directly, and one that commits on its own,
\* finds the UniRender thread idle.
InTurn ==
    ~skipped =>
        /\ doDirect /\ pc[Main] = "idle" => ~RenderBusy
        /\ lastDirect /\ pc[Main] \in {"uniRender", "hwWait", "layers"}
              => ~RenderBusy
        /\ pc[Main] \in Committing => ~RenderBusy

\* The direct composition flag is up only between SetFlag and ResetFlag of a
\* direct frame, so that nobody else's commit reads it.
FlagStands ==
    ~skipped =>
        /\ directFlag <=> \/ pc[Main] \in {"read", "reset"}
                          \/ job = "direct" /\ pc[Render] \in {"read", "reset"}
        /\ pc[Main] \in {"reset", "commit"} => took[Main]
        /\ pc[Render] \in {"reset", "commit"} => (took[Render] <=> job = "direct")

\* A mark that no frame under way is about to clear is still there.
MarkStands ==
    /\ marked = "kept" => isDirty
    /\ marked = "kept" => ~BeforeClear

-----------------------------------------------------------------------------
(* Types.                                                                  *)

LEMMA InitTypes == Init => TypeOK
<1> SUFFICES ASSUME Init PROVE TypeOK
  OBVIOUS
<1>1. pc \in [Thread -> MainSteps \cup RenderSteps]
  BY DEF Init, MainSteps, RenderSteps
<1>2. pc[Main] \in MainSteps /\ pc[Render] \in RenderSteps
  BY DEF Init, MainSteps, RenderSteps
<1>3. took \in [Thread -> BOOLEAN]
  BY Zenon DEF Init
<1>4. timeouts \in 0..MaxTimeouts /\ unExecuted \in Nat
  BY MaxTimeoutsAssumption DEF Init
<1>5. hwQueue \in Seq(Commits)
  BY DEF Init
<1> QED
  BY <1>1, <1>2, <1>3, <1>4, <1>5, Zenon DEF Init, TypeOK

\* Everything but pc and took, whose types need other provers.
PlainTypes ==
    /\ posted \in {"none", "frame", "direct"}
    /\ job \in {"none", "frame", "direct"}
    /\ canUnblock \in BOOLEAN
    /\ doDirect \in BOOLEAN /\ lastDirect \in BOOLEAN /\ updated \in BOOLEAN
    /\ isDirty \in BOOLEAN /\ marked \in {"none", "kept", "raced"}
    /\ unExecuted \in Nat /\ hwQueue \in Seq(Commits) /\ hwDone \in BOOLEAN
    /\ waiters \in SUBSET Thread
    /\ directFlag \in BOOLEAN
    /\ timeouts \in 0..MaxTimeouts
    /\ skipped \in BOOLEAN

PcTypes ==
    /\ pc \in [Thread -> MainSteps \cup RenderSteps]
    /\ pc[Main] \in MainSteps /\ pc[Render] \in RenderSteps

LEMMA TypesSplit == TypeOK <=> PcTypes /\ PlainTypes /\ took \in [Thread -> BOOLEAN]
BY Zenon DEF TypeOK, PcTypes, PlainTypes
LEMMA PcNext == PcTypes /\ PlainTypes /\ [Next]_vars => PcTypes'
<1> SUFFICES ASSUME PcTypes, PlainTypes, [Next]_vars PROVE PcTypes'
  OBVIOUS
<1> USE DEF PcTypes, PlainTypes, MainSteps, RenderSteps, Committing, Goto
<1>1. CASE \E forbidden, consumed \in BOOLEAN : StartFrame(forbidden, consumed)
  BY <1>1 DEF StartFrame
<1>2. CASE MarkDirty
  BY <1>2 DEF MarkDirty
<1>3. CASE \E pick \in BOOLEAN : NothingToUpdate(pick)
  BY <1>3 DEF NothingToUpdate, MayCompose
<1>4. CASE BeginDirect
  BY <1>4 DEF BeginDirect, MayCompose
<1>5. CASE FullFrame
  BY <1>5 DEF FullFrame
<1>6. CASE PostAndWait
  BY <1>6 DEF PostAndWait
<1>7. CASE Unblocked
  BY <1>7 DEF Unblocked
<1>8. CASE CreateLayers
  BY <1>8 DEF CreateLayers
<1>9. CASE TakeTask
  BY <1>9 DEF TakeTask
<1>10. CASE Sync
  BY <1>10 DEF Sync
<1>11. CASE UnblockMainThread
  BY <1>11 DEF UnblockMainThread
<1>12. CASE DrawNothing
  BY <1>12 DEF DrawNothing
<1>13. CASE DrawSkipped
  BY <1>13 DEF DrawSkipped
<1>14. CASE DrawFrame
  BY <1>14 DEF DrawFrame
<1>15. CASE EndOfRender
  BY <1>15 DEF EndOfRender
<1>16. ASSUME NEW t \in Thread, CommitStep(t) \/ TimeOut(t) PROVE PcTypes'
  <2>1. CASE WaitHardware(t)
    BY <2>1 DEF WaitHardware, AfterWait
  <2>2. CASE TimeOut(t)
    BY <2>2 DEF TimeOut, AfterWait
  <2>3. CASE SetFlag(t)
    BY <2>3 DEF SetFlag
  <2>4. CASE ReadFlag(t)
    BY <2>4 DEF ReadFlag
  <2>5. CASE ResetFlag(t)
    BY <2>5 DEF ResetFlag
  <2>6. CASE Commit(t)
    BY <2>6 DEF Commit, IsDirect
  <2> QED
    BY <1>16, <2>1, <2>2, <2>3, <2>4, <2>5, <2>6, Zenon DEF CommitStep
<1>17. CASE Execute
  BY <1>17 DEF Execute
<1>18. CASE NotifyOne
  BY <1>18 DEF NotifyOne
<1>19. CASE UNCHANGED vars
  BY <1>19 DEF vars
<1> QED
  BY <1>1, <1>2, <1>3, <1>4, <1>5, <1>6, <1>7, <1>8, <1>9, <1>10, <1>11, <1>12, <1>13, <1>14, <1>15, <1>16, <1>17, <1>18, <1>19,
     Zenon DEF Next, MainStep, RenderStep, CommitStep, HardwareStep

LEMMA PlainNext ==
  PlainTypes /\ Len(hwQueue) = unExecuted /\ [Next]_vars => PlainTypes'
<1> SUFFICES ASSUME PlainTypes, Len(hwQueue) = unExecuted, [Next]_vars
             PROVE PlainTypes'
  OBVIOUS
<1> USE MaxTimeoutsAssumption DEF PlainTypes, mainVars, handVars, hardwareVars,
        flagVars, dirtyVars
<1>1. CASE \E forbidden, consumed \in BOOLEAN : StartFrame(forbidden, consumed)
  BY <1>1 DEF StartFrame
<1>2. CASE MarkDirty
  BY <1>2 DEF MarkDirty
<1>3. CASE \E pick \in BOOLEAN : NothingToUpdate(pick)
  <2>1. UNCHANGED <<handVars, mainVars, hardwareVars, waiters, flagVars, timeouts>>
    BY <1>3, Zenon DEF NothingToUpdate
  <2>2. isDirty' \in BOOLEAN /\ marked' \in {"none", "kept", "raced"}
    BY <1>3 DEF NothingToUpdate
  <2>3. skipped' = (skipped \/ RenderBusy)
    BY <1>3, Zenon DEF NothingToUpdate
  <2>4. skipped' \in BOOLEAN
    BY <2>3
  <2> QED
    BY <2>1, <2>2, <2>4
<1>4. CASE BeginDirect
  BY <1>4 DEF BeginDirect
<1>5. CASE FullFrame
  BY <1>5 DEF FullFrame
<1>6. CASE PostAndWait
  BY <1>6 DEF PostAndWait
<1>7. CASE Unblocked
  BY <1>7 DEF Unblocked
<1>8. CASE CreateLayers
  BY <1>8 DEF CreateLayers
<1>9. CASE TakeTask
  BY <1>9 DEF TakeTask
<1>10. CASE Sync
  BY <1>10 DEF Sync
<1>11. CASE UnblockMainThread
  BY <1>11 DEF UnblockMainThread
<1>12. CASE DrawNothing
  BY <1>12 DEF DrawNothing
<1>13. CASE DrawSkipped
  BY <1>13 DEF DrawSkipped
<1>14. CASE DrawFrame
  BY <1>14 DEF DrawFrame
<1>15. CASE EndOfRender
  BY <1>15 DEF EndOfRender
<1>16. ASSUME NEW t \in Thread, CommitStep(t) \/ TimeOut(t) PROVE PlainTypes'
  <2>1. CASE WaitHardware(t)
    <3>1. waiters' \in SUBSET Thread
      BY <2>1 DEF WaitHardware
    <3>2. UNCHANGED <<handVars, mainVars, hardwareVars, flagVars, timeouts,
                      skipped, dirtyVars>>
      BY <2>1, Zenon DEF WaitHardware
    <3> QED
      BY <3>1, <3>2
  <2>2. CASE TimeOut(t)
    <3>1. timeouts' \in 0..MaxTimeouts
      BY <2>2 DEF TimeOut
    <3>2. waiters' \in SUBSET Thread
      BY <2>2 DEF TimeOut
    <3>3. UNCHANGED <<handVars, mainVars, hardwareVars, flagVars, skipped,
                      dirtyVars>>
      BY <2>2, Zenon DEF TimeOut
    <3> QED
      BY <3>1, <3>2, <3>3
  <2>3. CASE SetFlag(t)
    BY <2>3 DEF SetFlag
  <2>4. CASE ReadFlag(t)
    BY <2>4 DEF ReadFlag
  <2>5. CASE ResetFlag(t)
    BY <2>5 DEF ResetFlag
  <2>6. CASE Commit(t)
    BY <2>6 DEF Commit, CommitTask, Commits, IsDirect
  <2> QED
    BY <1>16, <2>1, <2>2, <2>3, <2>4, <2>5, <2>6, Zenon DEF CommitStep
<1>17. CASE Execute
  BY <1>17 DEF Execute, Commits
<1>18. CASE NotifyOne
  BY <1>18 DEF NotifyOne
<1>19. CASE UNCHANGED vars
  BY <1>19 DEF vars
<1> QED
  BY <1>1, <1>2, <1>3, <1>4, <1>5, <1>6, <1>7, <1>8, <1>9, <1>10, <1>11, <1>12, <1>13, <1>14, <1>15, <1>16, <1>17, <1>18, <1>19,
     Zenon DEF Next, MainStep, RenderStep, CommitStep, HardwareStep
-----------------------------------------------------------------------------
(* The hand-over.                                                          *)

HandInv ==
    /\ PcTypes /\ PlainTypes
    /\ Len(hwQueue) = unExecuted
    /\ TaskFits /\ SyncExclusive /\ OneTask

LEMMA QueueNext ==
  PlainTypes /\ Len(hwQueue) = unExecuted /\ [Next]_vars
    => (Len(hwQueue) = unExecuted)'
<1> SUFFICES ASSUME PlainTypes, Len(hwQueue) = unExecuted, [Next]_vars
             PROVE (Len(hwQueue) = unExecuted)'
  OBVIOUS
<1> USE DEF PlainTypes, hardwareVars
<1>1. CASE \E forbidden, consumed \in BOOLEAN : StartFrame(forbidden, consumed)
  BY <1>1 DEF StartFrame
<1>2. CASE MarkDirty
  BY <1>2 DEF MarkDirty
<1>3. CASE \E pick \in BOOLEAN : NothingToUpdate(pick)
  BY <1>3 DEF NothingToUpdate
<1>4. CASE BeginDirect
  BY <1>4 DEF BeginDirect
<1>5. CASE FullFrame
  BY <1>5 DEF FullFrame
<1>6. CASE PostAndWait
  BY <1>6 DEF PostAndWait
<1>7. CASE Unblocked
  BY <1>7 DEF Unblocked
<1>8. CASE CreateLayers
  BY <1>8 DEF CreateLayers
<1>9. CASE TakeTask
  BY <1>9 DEF TakeTask
<1>10. CASE Sync
  BY <1>10 DEF Sync
<1>11. CASE UnblockMainThread
  BY <1>11 DEF UnblockMainThread
<1>12. CASE DrawNothing
  BY <1>12 DEF DrawNothing
<1>13. CASE DrawSkipped
  BY <1>13 DEF DrawSkipped
<1>14. CASE DrawFrame
  BY <1>14 DEF DrawFrame
<1>15. CASE EndOfRender
  BY <1>15 DEF EndOfRender
<1>16. ASSUME NEW t \in Thread, CommitStep(t) \/ TimeOut(t) PROVE (Len(hwQueue) = unExecuted)'
  <2>1. CASE WaitHardware(t)
    BY <2>1 DEF WaitHardware
  <2>2. CASE TimeOut(t)
    BY <2>2 DEF TimeOut
  <2>3. CASE SetFlag(t)
    BY <2>3 DEF SetFlag
  <2>4. CASE ReadFlag(t)
    BY <2>4 DEF ReadFlag
  <2>5. CASE ResetFlag(t)
    BY <2>5 DEF ResetFlag
  <2>6. CASE Commit(t)
    BY <2>6 DEF Commit
  <2> QED
    BY <1>16, <2>1, <2>2, <2>3, <2>4, <2>5, <2>6, Zenon DEF CommitStep
<1>17. CASE Execute
  BY <1>17 DEF Execute
<1>18. CASE NotifyOne
  BY <1>18 DEF NotifyOne
<1>19. CASE UNCHANGED vars
  BY <1>19 DEF vars
<1> QED
  BY <1>1, <1>2, <1>3, <1>4, <1>5, <1>6, <1>7, <1>8, <1>9, <1>10, <1>11, <1>12, <1>13, <1>14, <1>15, <1>16, <1>17, <1>18, <1>19,
     Zenon DEF Next, MainStep, RenderStep, CommitStep, HardwareStep

LEMMA HandInit == Init => TaskFits /\ SyncExclusive /\ OneTask
BY DEF Init, TaskFits, SyncExclusive, OneTask, Committing

LEMMA HandNext ==
  HandInv /\ [Next]_vars => TaskFits' /\ SyncExclusive' /\ OneTask'
<1> DEFINE P == TaskFits /\ SyncExclusive /\ OneTask
<1> SUFFICES ASSUME HandInv, [Next]_vars PROVE P'
  OBVIOUS
<1> USE DEF HandInv, PcTypes, PlainTypes, TaskFits, SyncExclusive, OneTask,
        Goto, MainSteps, RenderSteps, Committing, handVars, mainVars
<1>1. CASE \E forbidden, consumed \in BOOLEAN : StartFrame(forbidden, consumed)
  BY <1>1 DEF StartFrame
<1>2. CASE MarkDirty
  BY <1>2 DEF MarkDirty
<1>3. CASE \E pick \in BOOLEAN : NothingToUpdate(pick)
  BY <1>3 DEF NothingToUpdate, MayCompose
<1>4. CASE BeginDirect
  BY <1>4 DEF BeginDirect, MayCompose
<1>5. CASE FullFrame
  BY <1>5 DEF FullFrame
<1>6. CASE PostAndWait
  BY <1>6 DEF PostAndWait
<1>7. CASE Unblocked
  BY <1>7 DEF Unblocked
<1>8. CASE CreateLayers
  BY <1>8 DEF CreateLayers
<1>9. CASE TakeTask
  BY <1>9 DEF TakeTask
<1>10. CASE Sync
  BY <1>10 DEF Sync
<1>11. CASE UnblockMainThread
  BY <1>11 DEF UnblockMainThread
<1>12. CASE DrawNothing
  BY <1>12 DEF DrawNothing
<1>13. CASE DrawSkipped
  BY <1>13 DEF DrawSkipped
<1>14. CASE DrawFrame
  BY <1>14 DEF DrawFrame
<1>15. CASE EndOfRender
  BY <1>15 DEF EndOfRender
<1>16. ASSUME NEW t \in Thread, CommitStep(t) \/ TimeOut(t) PROVE P'
  <2>1. CASE WaitHardware(t)
    <3>1. CASE CanExecute
      <4>1. pc' = [pc EXCEPT ![t] = AfterWait(t)] /\ UNCHANGED waiters
        BY <2>1, <3>1 DEF WaitHardware
      <4>2. UNCHANGED <<posted, job, canUnblock, doDirect>>
        BY <2>1 DEF WaitHardware
      <4>3. pc[t] = "hwWait" /\ t \notin waiters
        BY <2>1 DEF WaitHardware
      <4> QED
        BY <4>1, <4>2, <4>3 DEF AfterWait
    <3>2. CASE ~CanExecute
      BY <2>1, <3>2 DEF WaitHardware
    <3> QED
      BY <3>1, <3>2
  <2>2. CASE TimeOut(t)
    BY <2>2 DEF TimeOut, AfterWait
  <2>3. CASE SetFlag(t)
    BY <2>3 DEF SetFlag
  <2>4. CASE ReadFlag(t)
    BY <2>4 DEF ReadFlag
  <2>5. CASE ResetFlag(t)
    BY <2>5 DEF ResetFlag
  <2>6. CASE Commit(t)
    BY <2>6 DEF Commit, IsDirect
  <2> QED
    BY <1>16, <2>1, <2>2, <2>3, <2>4, <2>5, <2>6, Zenon DEF CommitStep
<1>17. CASE Execute
  BY <1>17 DEF Execute
<1>18. CASE NotifyOne
  BY <1>18 DEF NotifyOne
<1>19. CASE UNCHANGED vars
  BY <1>19 DEF vars
<1> QED
  BY <1>1, <1>2, <1>3, <1>4, <1>5, <1>6, <1>7, <1>8, <1>9, <1>10, <1>11, <1>12, <1>13, <1>14, <1>15, <1>16, <1>17, <1>18, <1>19,
     Zenon DEF Next, MainStep, RenderStep, CommitStep, HardwareStep
-----------------------------------------------------------------------------
(* Back-pressure.                                                          *)

MainAdmitted == IF pc[Main] \in {"layers", "joined"} \cup Committing THEN 1 ELSE 0
RenderAdmitted == IF pc[Render] \in Committing /\ job # "direct" THEN 1 ELSE 0

\* Back-pressure without a cardinality.
Load == unExecuted + MainAdmitted + RenderAdmitted =< TaskNum + 2 + timeouts

LEMMA AdmittedCount ==
  PcTypes => Cardinality(Admitted) = MainAdmitted + RenderAdmitted
<1> SUFFICES ASSUME PcTypes
             PROVE Cardinality(Admitted) = MainAdmitted + RenderAdmitted
  OBVIOUS
<1> DEFINE InMain == pc[Main] \in {"layers", "joined"} \cup Committing
           InRender == pc[Render] \in Committing /\ job # "direct"
<1>0. pc[Render] \notin {"layers", "joined"}
  BY DEF PcTypes, RenderSteps, Committing
<1>1. Admitted = (IF InMain THEN {Main} ELSE {})
                 \cup (IF InRender THEN {Render} ELSE {})
  <2>1. Main \in Admitted <=> InMain
    BY DEF Admitted
  <2>2. Render \in Admitted <=> InRender
    BY <1>0 DEF Admitted
  <2>3. Admitted \subseteq {Main, Render}
    BY DEF Admitted
  <2> HIDE DEF InMain, InRender
  <2> QED
    BY <2>1, <2>2, <2>3
<1>2. Cardinality({Main}) = 1 /\ Cardinality({Render}) = 1
      /\ Cardinality({}) = 0
  BY FS_Singleton, FS_EmptySet
<1>3. Cardinality({Main} \cup {Render}) = 2
  <2>1. IsFiniteSet({Main}) /\ Render \notin {Main}
    BY FS_Singleton
  <2> QED
    BY <1>2, <2>1, FS_AddElement
<1>4. /\ {Main} \cup {} = {Main} /\ {} \cup {Render} = {Render}
      /\ {} \cup {} = {}
  OBVIOUS
<1>5. CASE InMain /\ InRender
  BY <1>1, <1>3, <1>5 DEF MainAdmitted, RenderAdmitted
<1>6. CASE InMain /\ ~InRender
  BY <1>1, <1>2, <1>4, <1>6 DEF MainAdmitted, RenderAdmitted
<1>7. CASE ~InMain /\ InRender
  BY <1>1, <1>2, <1>4, <1>7 DEF MainAdmitted, RenderAdmitted
<1>8. CASE ~InMain /\ ~InRender
  BY <1>1, <1>2, <1>4, <1>8 DEF MainAdmitted, RenderAdmitted
<1> QED
  BY <1>5, <1>6, <1>7, <1>8

LEMMA LoadInit == Init => Load
BY TaskNumAssumption
   DEF Init, Load, MainAdmitted, RenderAdmitted, Committing

LEMMA LoadNext == HandInv /\ Load /\ [Next]_vars => Load'
<1> SUFFICES ASSUME HandInv, Load, [Next]_vars PROVE Load'
  OBVIOUS
<1> USE TaskNumAssumption, MaxTimeoutsAssumption
    DEF HandInv, PcTypes, PlainTypes, TaskFits, OneTask, Load, MainAdmitted,
        RenderAdmitted, Goto, MainSteps, RenderSteps, Committing, handVars,
        hardwareVars
<1>1. CASE \E forbidden, consumed \in BOOLEAN : StartFrame(forbidden, consumed)
  BY <1>1 DEF StartFrame
<1>2. CASE MarkDirty
  BY <1>2 DEF MarkDirty
<1>3. CASE \E pick \in BOOLEAN : NothingToUpdate(pick)
  BY <1>3 DEF NothingToUpdate, MayCompose
<1>4. CASE BeginDirect
  BY <1>4 DEF BeginDirect, MayCompose
<1>5. CASE FullFrame
  BY <1>5 DEF FullFrame
<1>6. CASE PostAndWait
  BY <1>6 DEF PostAndWait
<1>7. CASE Unblocked
  BY <1>7 DEF Unblocked
<1>8. CASE CreateLayers
  BY <1>8 DEF CreateLayers
<1>9. CASE TakeTask
  BY <1>9 DEF TakeTask
<1>10. CASE Sync
  BY <1>10 DEF Sync
<1>11. CASE UnblockMainThread
  BY <1>11 DEF UnblockMainThread
<1>12. CASE DrawNothing
  BY <1>12 DEF DrawNothing
<1>13. CASE DrawSkipped
  BY <1>13 DEF DrawSkipped
<1>14. CASE DrawFrame
  BY <1>14 DEF DrawFrame
<1>15. CASE EndOfRender
  BY <1>15 DEF EndOfRender
<1>16. ASSUME NEW t \in Thread, CommitStep(t) \/ TimeOut(t) PROVE Load'
  <2>1. CASE WaitHardware(t)
    BY <2>1 DEF WaitHardware, AfterWait, CanExecute
  <2>2. CASE TimeOut(t)
    BY <2>2 DEF TimeOut, AfterWait, CanExecute
  <2>3. CASE SetFlag(t)
    BY <2>3 DEF SetFlag
  <2>4. CASE ReadFlag(t)
    BY <2>4 DEF ReadFlag
  <2>5. CASE ResetFlag(t)
    BY <2>5 DEF ResetFlag
  <2>6. CASE Commit(t)
    BY <2>6 DEF Commit, IsDirect
  <2> QED
    BY <1>16, <2>1, <2>2, <2>3, <2>4, <2>5, <2>6, Zenon DEF CommitStep
<1>17. CASE Execute
  BY <1>17 DEF Execute
<1>18. CASE NotifyOne
  BY <1>18 DEF NotifyOne
<1>19. CASE UNCHANGED vars
  BY <1>19 DEF vars
<1> QED
  BY <1>1, <1>2, <1>3, <1>4, <1>5, <1>6, <1>7, <1>8, <1>9, <1>10, <1>11, <1>12, <1>13, <1>14, <1>15, <1>16, <1>17, <1>18, <1>19,
     Zenon DEF Next, MainStep, RenderStep, CommitStep, HardwareStep
-----------------------------------------------------------------------------
(* The order of commits.                                                   *)

LEMMA TurnInit == Init => InTurn /\ FlagStands /\ OwnTimestampInTurn
BY DEF Init, InTurn, FlagStands, OwnTimestampInTurn, OwnTimestamp, RenderBusy,
       Committing

LEMMA InTurnNext == HandInv /\ InTurn /\ [Next]_vars => InTurn'
<1> SUFFICES ASSUME HandInv, InTurn, [Next]_vars PROVE InTurn'
  OBVIOUS
<1> USE DEF HandInv, PcTypes, PlainTypes, TaskFits, OneTask, InTurn, RenderBusy,
        Goto, MainSteps, RenderSteps, Committing, handVars, mainVars
<1>1. CASE \E forbidden, consumed \in BOOLEAN : StartFrame(forbidden, consumed)
  BY <1>1 DEF StartFrame
<1>2. CASE MarkDirty
  BY <1>2 DEF MarkDirty
<1>3. CASE \E pick \in BOOLEAN : NothingToUpdate(pick)
  BY <1>3 DEF NothingToUpdate, MayCompose
<1>4. CASE BeginDirect
  BY <1>4 DEF BeginDirect, MayCompose
<1>5. CASE FullFrame
  BY <1>5 DEF FullFrame
<1>6. CASE PostAndWait
  BY <1>6 DEF PostAndWait
<1>7. CASE Unblocked
  BY <1>7 DEF Unblocked
<1>8. CASE CreateLayers
  BY <1>8 DEF CreateLayers
<1>9. CASE TakeTask
  BY <1>9 DEF TakeTask
<1>10. CASE Sync
  BY <1>10 DEF Sync
<1>11. CASE UnblockMainThread
  BY <1>11 DEF UnblockMainThread
<1>12. CASE DrawNothing
  BY <1>12 DEF DrawNothing
<1>13. CASE DrawSkipped
  BY <1>13 DEF DrawSkipped
<1>14. CASE DrawFrame
  BY <1>14 DEF DrawFrame
<1>15. CASE EndOfRender
  BY <1>15 DEF EndOfRender
<1>16. ASSUME NEW t \in Thread, CommitStep(t) \/ TimeOut(t) PROVE InTurn'
  <2>1. CASE WaitHardware(t)
    BY <2>1 DEF WaitHardware, AfterWait
  <2>2. CASE TimeOut(t)
    BY <2>2 DEF TimeOut, AfterWait
  <2>3. CASE SetFlag(t)
    BY <2>3 DEF SetFlag
  <2>4. CASE ReadFlag(t)
    BY <2>4 DEF ReadFlag
  <2>5. CASE ResetFlag(t)
    BY <2>5 DEF ResetFlag
  <2>6. CASE Commit(t)
    BY <2>6 DEF Commit, IsDirect
  <2> QED
    BY <1>16, <2>1, <2>2, <2>3, <2>4, <2>5, <2>6, Zenon DEF CommitStep
<1>17. CASE Execute
  BY <1>17 DEF Execute
<1>18. CASE NotifyOne
  BY <1>18 DEF NotifyOne
<1>19. CASE UNCHANGED vars
  BY <1>19 DEF vars
<1> QED
  BY <1>1, <1>2, <1>3, <1>4, <1>5, <1>6, <1>7, <1>8, <1>9, <1>10, <1>11, <1>12, <1>13, <1>14, <1>15, <1>16, <1>17, <1>18, <1>19,
     Zenon DEF Next, MainStep, RenderStep, CommitStep, HardwareStep

-----------------------------------------------------------------------------
(* Dirty marks.                                                            *)

LEMMA MarkInit == Init => MarkStands
BY DEF Init, MarkStands

LEMMA MarkNext == HandInv /\ MarkStands /\ [Next]_vars => MarkStands'
<1> SUFFICES ASSUME HandInv, MarkStands, [Next]_vars PROVE MarkStands'
  OBVIOUS
<1> USE DEF HandInv, PcTypes, PlainTypes, TaskFits, OneTask, MarkStands,
        BeforeClear, Goto, MainSteps, RenderSteps, Committing, handVars,
        dirtyVars
<1>1. CASE \E forbidden, consumed \in BOOLEAN : StartFrame(forbidden, consumed)
  BY <1>1 DEF StartFrame
<1>2. CASE MarkDirty
  BY <1>2 DEF MarkDirty
<1>3. CASE \E pick \in BOOLEAN : NothingToUpdate(pick)
  BY <1>3 DEF NothingToUpdate, MayCompose
<1>4. CASE BeginDirect
  BY <1>4 DEF BeginDirect, MayCompose
<1>5. CASE FullFrame
  BY <1>5 DEF FullFrame
<1>6. CASE PostAndWait
  BY <1>6 DEF PostAndWait
<1>7. CASE Unblocked
  BY <1>7 DEF Unblocked
<1>8. CASE CreateLayers
  BY <1>8 DEF CreateLayers
<1>9. CASE TakeTask
  BY <1>9 DEF TakeTask
<1>10. CASE Sync
  BY <1>10 DEF Sync
<1>11. CASE UnblockMainThread
  BY <1>11 DEF UnblockMainThread
<1>12. CASE DrawNothing
  BY <1>12 DEF DrawNothing
<1>13. CASE DrawSkipped
  BY <1>13 DEF DrawSkipped
<1>14. CASE DrawFrame
  BY <1>14 DEF DrawFrame
<1>15. CASE EndOfRender
  BY <1>15 DEF EndOfRender
<1>16. ASSUME NEW t \in Thread, CommitStep(t) \/ TimeOut(t) PROVE MarkStands'
  <2>1. CASE WaitHardware(t)
    BY <2>1 DEF WaitHardware, AfterWait
  <2>2. CASE TimeOut(t)
    BY <2>2 DEF TimeOut, AfterWait
  <2>3. CASE SetFlag(t)
    BY <2>3 DEF SetFlag
  <2>4. CASE ReadFlag(t)
    BY <2>4 DEF ReadFlag
  <2>5. CASE ResetFlag(t)
    BY <2>5 DEF ResetFlag
  <2>6. CASE Commit(t)
    BY <2>6 DEF Commit, IsDirect
  <2> QED
    BY <1>16, <2>1, <2>2, <2>3, <2>4, <2>5, <2>6, Zenon DEF CommitStep
<1>17. CASE Execute
  BY <1>17 DEF Execute
<1>18. CASE NotifyOne
  BY <1>18 DEF NotifyOne
<1>19. CASE UNCHANGED vars
  BY <1>19 DEF vars
<1> QED
  BY <1>1, <1>2, <1>3, <1>4, <1>5, <1>6, <1>7, <1>8, <1>9, <1>10, <1>11, <1>12, <1>13, <1>14, <1>15, <1>16, <1>17, <1>18, <1>19,
     Zenon DEF Next, MainStep, RenderStep, CommitStep, HardwareStep

LEMMA DirtyStep ==
  HandInv /\ MarkStands /\ [Next]_vars
    => [pc[Main] = "uniRender" /\ pc'[Main] \in {"idle", "hwWait"}
        => marked # "kept"]_vars
<1> DEFINE A == pc[Main] = "uniRender" /\ pc'[Main] \in {"idle", "hwWait"}
                => marked # "kept"
<1> SUFFICES ASSUME HandInv, MarkStands, [Next]_vars PROVE A
  OBVIOUS
<1> USE DEF HandInv, PcTypes, PlainTypes, TaskFits, OneTask, MarkStands, Goto,
        MainSteps, RenderSteps, Committing
<1>1. CASE \E forbidden, consumed \in BOOLEAN : StartFrame(forbidden, consumed)
  BY <1>1 DEF StartFrame
<1>2. CASE MarkDirty
  BY <1>2 DEF MarkDirty
<1>3. CASE \E pick \in BOOLEAN : NothingToUpdate(pick)
  BY <1>3 DEF NothingToUpdate, MayCompose
<1>4. CASE BeginDirect
  BY <1>4 DEF BeginDirect, MayCompose
<1>5. CASE FullFrame
  BY <1>5 DEF FullFrame
<1>6. CASE PostAndWait
  BY <1>6 DEF PostAndWait
<1>7. CASE Unblocked
  BY <1>7 DEF Unblocked
<1>8. CASE CreateLayers
  BY <1>8 DEF CreateLayers
<1>9. CASE TakeTask
  BY <1>9 DEF TakeTask
<1>10. CASE Sync
  BY <1>10 DEF Sync
<1>11. CASE UnblockMainThread
  BY <1>11 DEF UnblockMainThread
<1>12. CASE DrawNothing
  BY <1>12 DEF DrawNothing
<1>13. CASE DrawSkipped
  BY <1>13 DEF DrawSkipped
<1>14. CASE DrawFrame
  BY <1>14 DEF DrawFrame
<1>15. CASE EndOfRender
  BY <1>15 DEF EndOfRender
<1>16. ASSUME NEW t \in Thread, CommitStep(t) \/ TimeOut(t) PROVE A
  <2>1. CASE WaitHardware(t)
    BY <2>1 DEF WaitHardware, AfterWait
  <2>2. CASE TimeOut(t)
    BY <2>2 DEF TimeOut, AfterWait
  <2>3. CASE SetFlag(t)
    BY <2>3 DEF SetFlag
  <2>4. CASE ReadFlag(t)
    BY <2>4 DEF ReadFlag
  <2>5. CASE ResetFlag(t)
    BY <2>5 DEF ResetFlag
  <2>6. CASE Commit(t)
    BY <2>6 DEF Commit, IsDirect
  <2> QED
    BY <1>16, <2>1, <2>2, <2>3, <2>4, <2>5, <2>6, Zenon DEF CommitStep
<1>17. CASE Execute
  BY <1>17 DEF Execute
<1>18. CASE NotifyOne
  BY <1>18 DEF NotifyOne
<1>19. CASE UNCHANGED vars
  BY <1>19 DEF vars
<1> QED
  BY <1>1, <1>2, <1>3, <1>4, <1>5, <1>6, <1>7, <1>8, <1>9, <1>10, <1>11, <1>12, <1>13, <1>14, <1>15, <1>16, <1>17, <1>18, <1>19,
     Zenon DEF Next, MainStep, RenderStep, CommitStep, HardwareStep
-----------------------------------------------------------------------------
(* Time stamps.                                                            *)

TookTypes == took \in [Thread -> BOOLEAN]

LEMMA TookNext == TookTypes /\ PlainTypes /\ [Next]_vars => TookTypes'
<1> SUFFICES ASSUME TookTypes, PlainTypes, [Next]_vars PROVE TookTypes'
  OBVIOUS
<1>0. directFlag \in BOOLEAN
  BY Zenon DEF PlainTypes
<1> USE DEF TookTypes, flagVars
<1>1. CASE \E forbidden, consumed \in BOOLEAN : StartFrame(forbidden, consumed)
  BY <1>1, Zenon DEF StartFrame
<1>2. CASE MarkDirty
  BY <1>2, Zenon DEF MarkDirty
<1>3. CASE \E pick \in BOOLEAN : NothingToUpdate(pick)
  BY <1>3, Zenon DEF NothingToUpdate
<1>4. CASE BeginDirect
  BY <1>4, Zenon DEF BeginDirect
<1>5. CASE FullFrame
  BY <1>5, Zenon DEF FullFrame
<1>6. CASE PostAndWait
  BY <1>6, Zenon DEF PostAndWait
<1>7. CASE Unblocked
  BY <1>7, Zenon DEF Unblocked
<1>8. CASE CreateLayers
  BY <1>8, Zenon DEF CreateLayers
<1>9. CASE TakeTask
  BY <1>9, Zenon DEF TakeTask
<1>10. CASE Sync
  BY <1>10, Zenon DEF Sync
<1>11. CASE UnblockMainThread
  BY <1>11, Zenon DEF UnblockMainThread
<1>12. CASE DrawNothing
  BY <1>12, Zenon DEF DrawNothing
<1>13. CASE DrawSkipped
  BY <1>13, Zenon DEF DrawSkipped
<1>14. CASE DrawFrame
  BY <1>14, Zenon DEF DrawFrame
<1>15. CASE EndOfRender
  BY <1>15, Zenon DEF EndOfRender
<1>16. ASSUME NEW t \in Thread, CommitStep(t) \/ TimeOut(t) PROVE TookTypes'
  <2>1. CASE WaitHardware(t)
    BY <2>1, <1>0, Zenon DEF WaitHardware
  <2>2. CASE TimeOut(t)
    BY <2>2, <1>0, Zenon DEF TimeOut
  <2>3. CASE SetFlag(t)
    BY <2>3, <1>0, Zenon DEF SetFlag
  <2>4. CASE ReadFlag(t)
    BY <2>4, <1>0, Zenon DEF ReadFlag
  <2>5. CASE ResetFlag(t)
    BY <2>5, <1>0, Zenon DEF ResetFlag
  <2>6. CASE Commit(t)
    BY <2>6, <1>0, Zenon DEF Commit
  <2> QED
    BY <1>16, <2>1, <2>2, <2>3, <2>4, <2>5, <2>6, Zenon DEF CommitStep
<1>17. CASE Execute
  BY <1>17, Zenon DEF Execute
<1>18. CASE NotifyOne
  BY <1>18, Zenon DEF NotifyOne
<1>19. CASE UNCHANGED vars
  BY <1>19, Zenon DEF vars
<1> QED
  BY <1>1, <1>2, <1>3, <1>4, <1>5, <1>6, <1>7, <1>8, <1>9, <1>10, <1>11, <1>12, <1>13, <1>14, <1>15, <1>16, <1>17, <1>18, <1>19,
     Zenon DEF Next, MainStep, RenderStep, CommitStep, HardwareStep

LEMMA FlagStandsNext ==
  HandInv /\ TookTypes /\ InTurn /\ FlagStands /\ [Next]_vars => FlagStands'
<1> SUFFICES ASSUME HandInv, TookTypes, InTurn, FlagStands, [Next]_vars
             PROVE FlagStands'
  OBVIOUS
<1> USE DEF HandInv, PcTypes, PlainTypes, TaskFits, OneTask, InTurn, RenderBusy,
        TookTypes, FlagStands, Goto, MainSteps, RenderSteps, Committing,
        handVars, flagVars
<1>1. CASE \E forbidden, consumed \in BOOLEAN : StartFrame(forbidden, consumed)
  BY <1>1 DEF StartFrame
<1>2. CASE MarkDirty
  BY <1>2 DEF MarkDirty
<1>3. CASE \E pick \in BOOLEAN : NothingToUpdate(pick)
  BY <1>3 DEF NothingToUpdate, MayCompose
<1>4. CASE BeginDirect
  BY <1>4 DEF BeginDirect, MayCompose
<1>5. CASE FullFrame
  BY <1>5 DEF FullFrame
<1>6. CASE PostAndWait
  BY <1>6 DEF PostAndWait
<1>7. CASE Unblocked
  BY <1>7 DEF Unblocked
<1>8. CASE CreateLayers
  BY <1>8 DEF CreateLayers
<1>9. CASE TakeTask
  BY <1>9 DEF TakeTask
<1>10. CASE Sync
  BY <1>10 DEF Sync
<1>11. CASE UnblockMainThread
  BY <1>11 DEF UnblockMainThread
<1>12. CASE DrawNothing
  BY <1>12 DEF DrawNothing
<1>13. CASE DrawSkipped
  BY <1>13 DEF DrawSkipped
<1>14. CASE DrawFrame
  BY <1>14 DEF DrawFrame
<1>15. CASE EndOfRender
  BY <1>15 DEF EndOfRender
<1>16. ASSUME NEW t \in Thread, CommitStep(t) \/ TimeOut(t) PROVE FlagStands'
  <2>1. CASE WaitHardware(t)
    BY <2>1 DEF WaitHardware, AfterWait
  <2>2. CASE TimeOut(t)
    BY <2>2 DEF TimeOut, AfterWait
  <2>3. CASE SetFlag(t)
    BY <2>3 DEF SetFlag
  <2>4. CASE ReadFlag(t)
    BY <2>4 DEF ReadFlag
  <2>5. CASE ResetFlag(t)
    BY <2>5 DEF ResetFlag
  <2>6. CASE Commit(t)
    BY <2>6 DEF Commit, IsDirect
  <2> QED
    BY <1>16, <2>1, <2>2, <2>3, <2>4, <2>5, <2>6, Zenon DEF CommitStep
<1>17. CASE Execute
  BY <1>17 DEF Execute
<1>18. CASE NotifyOne
  BY <1>18 DEF NotifyOne
<1>19. CASE UNCHANGED vars
  BY <1>19 DEF vars
<1> QED
  BY <1>1, <1>2, <1>3, <1>4, <1>5, <1>6, <1>7, <1>8, <1>9, <1>10, <1>11, <1>12, <1>13, <1>14, <1>15, <1>16, <1>17, <1>18, <1>19,
     Zenon DEF Next, MainStep, RenderStep, CommitStep, HardwareStep
LEMMA StampNext ==
  /\ HandInv /\ TookTypes /\ FlagStands /\ OwnTimestampInTurn /\ [Next]_vars
  => OwnTimestampInTurn'
<1> SUFFICES ASSUME HandInv, TookTypes, FlagStands, OwnTimestampInTurn,
                    [Next]_vars
             PROVE OwnTimestampInTurn'
  OBVIOUS
<1>0. hwQueue \in Seq(Commits)
  BY DEF HandInv, PlainTypes
<1>1. ASSUME hwQueue' = hwQueue, skipped => skipped' PROVE OwnTimestampInTurn'
  BY <1>1 DEF OwnTimestampInTurn, OwnTimestamp
<1>2. ASSUME NEW t \in Thread, Commit(t) PROVE OwnTimestampInTurn'
  <2>1. SUFFICES ASSUME ~skipped, NEW i \in DOMAIN hwQueue'
                 PROVE hwQueue'[i].direct <=> hwQueue'[i].from = Main
    BY <1>2 DEF OwnTimestampInTurn, OwnTimestamp, Commit
  <2>2. pc[t] = "commit" /\ hwQueue' = Append(hwQueue, CommitTask(t))
    BY <1>2 DEF Commit
  <2>3. took[t] <=> IsDirect(t)
    BY <2>1, <2>2 DEF FlagStands, IsDirect
  <2>4. CommitTask(t).direct <=> CommitTask(t).from = Main
    BY <2>3 DEF CommitTask, IsDirect
  <2>5. CASE i = Len(hwQueue) + 1
    BY <1>0, <2>2, <2>4, <2>5
  <2>6. CASE i # Len(hwQueue) + 1
    <3>1. i \in DOMAIN hwQueue /\ hwQueue'[i] = hwQueue[i]
      BY <1>0, <2>2, <2>6
    <3> QED
      BY <2>1, <3>1 DEF OwnTimestampInTurn, OwnTimestamp
  <2> QED
    BY <2>5, <2>6
<1>3. CASE Execute
  <2>1. SUFFICES ASSUME ~skipped, NEW i \in DOMAIN hwQueue'
                 PROVE hwQueue'[i].direct <=> hwQueue'[i].from = Main
    BY <1>3 DEF OwnTimestampInTurn, OwnTimestamp, Execute
  <2>2. i + 1 \in DOMAIN hwQueue /\ hwQueue'[i] = hwQueue[i + 1]
    BY <1>0, <1>3 DEF Execute
  <2> QED
    BY <2>1, <2>2 DEF OwnTimestampInTurn, OwnTimestamp
<1> DEFINE Kept == hwQueue' = hwQueue /\ (skipped => skipped')
<1>4. ASSUME \/ \E forbidden, consumed \in BOOLEAN :
                  StartFrame(forbidden, consumed)
             \/ MarkDirty
      PROVE Kept
  BY <1>4 DEF StartFrame, MarkDirty, hardwareVars
<1>5. ASSUME MainStep PROVE Kept
  <2>1. skipped \in BOOLEAN
    BY DEF HandInv, PlainTypes
  <2>2. ASSUME NEW pick \in BOOLEAN, NothingToUpdate(pick) PROVE Kept
    BY <2>1, <2>2 DEF NothingToUpdate, RenderBusy, hardwareVars
  <2>3. ASSUME BeginDirect \/ FullFrame \/ PostAndWait \/ Unblocked \/ CreateLayers
        PROVE Kept
    BY <2>3 DEF BeginDirect, FullFrame, PostAndWait, Unblocked, CreateLayers,
                hardwareVars
  <2> QED
    BY <1>5, <2>2, <2>3, Zenon DEF MainStep
<1>6. ASSUME RenderStep PROVE Kept
  BY <1>6 DEF RenderStep, TakeTask, Sync, UnblockMainThread, DrawNothing,
              DrawSkipped, DrawFrame, EndOfRender, hardwareVars
<1>7. ASSUME NEW t \in Thread,
             \/ WaitHardware(t) \/ TimeOut(t) \/ SetFlag(t) \/ ReadFlag(t)
             \/ ResetFlag(t)
      PROVE Kept
  BY <1>7 DEF WaitHardware, TimeOut, SetFlag, ReadFlag, ResetFlag, hardwareVars
<1>8. ASSUME NotifyOne PROVE Kept
  BY <1>8 DEF NotifyOne
<1>9. ASSUME UNCHANGED vars PROVE Kept
  BY <1>9 DEF vars, hardwareVars
<1> QED
  BY <1>1, <1>2, <1>3, <1>4, <1>5, <1>6, <1>7, <1>8, <1>9
     DEF Next, CommitStep, HardwareStep
-----------------------------------------------------------------------------
(* Wake-ups.                                                               *)

LEMMA WakeInit == Init => SleepersWoken
<1> SUFFICES ASSUME Init PROVE Cardinality(waiters) =< WakeUpsToCome
  BY DEF SleepersWoken
<1>1. Cardinality(waiters) = 0
  BY FS_EmptySet DEF Init
<1>2. WakeUpsToCome = 0
  BY TaskNumAssumption DEF Init, WakeUpsToCome, CanExecute
<1> QED
  BY <1>1, <1>2

\* At most both threads sleep.
LEMMA WaitersFew ==
  ASSUME NEW S \in SUBSET Thread
  PROVE  IsFiniteSet(S) /\ Cardinality(S) \in 0..2
<1>1. IsFiniteSet({Main}) /\ Cardinality({Main}) = 1 /\ Render \notin {Main}
  BY FS_Singleton
<1>2. Cardinality({Main} \cup {Render}) = 2 /\ IsFiniteSet({Main} \cup {Render})
  BY <1>1, FS_AddElement
<1>3. {Main} \cup {Render} = Thread
  OBVIOUS
<1> HIDE DEF Thread
<1>4. IsFiniteSet(S) /\ Cardinality(S) =< 2
  BY <1>2, <1>3, FS_Subset
<1> QED
  BY <1>4, FS_CardinalityType

\* A thread falls asleep only when every wake-up is still to come, a new
\* commit brings its own, and one that is spent has woken a thread.
LEMMA WakeNext == HandInv /\ SleepersWoken /\ [Next]_vars => SleepersWoken'
<1> SUFFICES ASSUME HandInv, SleepersWoken, [Next]_vars, TaskNum >= 1
             PROVE Cardinality(waiters') =< WakeUpsToCome'
  BY DEF SleepersWoken
<1> DEFINE Awake == Cardinality(waiters') =< WakeUpsToCome'
           Same == UNCHANGED <<unExecuted, hwDone, waiters>>
<1>0. /\ waiters \in SUBSET Thread /\ IsFiniteSet(waiters)
      /\ Cardinality(waiters) \in 0..2 /\ Cardinality(waiters) =< WakeUpsToCome
      /\ unExecuted \in Nat /\ Len(hwQueue) = unExecuted /\ hwDone \in BOOLEAN
      /\ hwQueue \in Seq(Commits) /\ TaskNum \in Nat
  BY WaitersFew, TaskNumAssumption DEF HandInv, PlainTypes, SleepersWoken
<1>1. ASSUME Same PROVE Awake
  BY <1>0, <1>1 DEF WakeUpsToCome, CanExecute
<1>2. ASSUME NEW t \in waiters PROVE Cardinality(waiters \ {t}) = Cardinality(waiters) - 1
  BY <1>0, <1>2, FS_RemoveElement
<1>3. ASSUME \/ \E forbidden, consumed \in BOOLEAN :
                  StartFrame(forbidden, consumed)
             \/ MarkDirty
      PROVE Same
  BY <1>3 DEF StartFrame, MarkDirty, hardwareVars
<1>4. ASSUME MainStep PROVE Same
  BY <1>4 DEF MainStep, NothingToUpdate, BeginDirect, FullFrame, PostAndWait,
              Unblocked, CreateLayers, hardwareVars
<1>5. ASSUME RenderStep PROVE Same
  BY <1>5 DEF RenderStep, TakeTask, Sync, UnblockMainThread, DrawNothing,
              DrawSkipped, DrawFrame, EndOfRender, hardwareVars
<1>6. ASSUME NEW t \in Thread, WaitHardware(t) PROVE Awake
  <2>1. CASE CanExecute
    BY <1>1, <1>6, <2>1 DEF WaitHardware, hardwareVars
  <2>2. CASE ~CanExecute
    <3>1. waiters' \in SUBSET Thread /\ UNCHANGED hardwareVars
      BY <1>0, <1>6, <2>2 DEF WaitHardware
    <3>2. Cardinality(waiters') \in 0..2
      BY <3>1, WaitersFew
    <3>3. WakeUpsToCome' = TaskNum + 1
      BY <1>0, <2>2, <3>1 DEF WakeUpsToCome, CanExecute, hardwareVars
    <3> QED
      BY <1>0, <3>2, <3>3
  <2> QED
    BY <2>1, <2>2
<1>7. ASSUME NEW t \in Thread, TimeOut(t) PROVE Awake
  <2>1. Cardinality(waiters') = Cardinality(waiters) - 1
    BY <1>2, <1>7 DEF TimeOut
  <2>2. WakeUpsToCome' = WakeUpsToCome
    BY <1>7 DEF TimeOut, hardwareVars, WakeUpsToCome, CanExecute
  <2>3. WakeUpsToCome \in Nat
    BY <1>0 DEF WakeUpsToCome
  <2> QED
    BY <1>0, <2>1, <2>2, <2>3
<1>8. ASSUME NEW t \in Thread, SetFlag(t) \/ ReadFlag(t) \/ ResetFlag(t) PROVE Same
  BY <1>8 DEF SetFlag, ReadFlag, ResetFlag, hardwareVars
<1>9. ASSUME NEW t \in Thread, Commit(t) PROVE Awake
  <2>1. unExecuted' = unExecuted + 1 /\ UNCHANGED <<hwDone, waiters>>
    BY <1>9 DEF Commit
  <2> QED
    BY <1>0, <2>1 DEF WakeUpsToCome, CanExecute
<1>10. ASSUME Execute PROVE Awake
  <2>1. /\ ~hwDone /\ hwDone' /\ unExecuted >= 1
        /\ unExecuted' = unExecuted - 1 /\ UNCHANGED waiters
    BY <1>0, <1>10 DEF Execute
  <2> QED
    BY <1>0, <2>1 DEF WakeUpsToCome, CanExecute
<1>11. ASSUME NotifyOne PROVE Awake
  <2>1. hwDone /\ ~hwDone' /\ UNCHANGED unExecuted
    BY <1>11 DEF NotifyOne
  <2>2. CASE ~CanExecute
    <3>1. UNCHANGED waiters
      BY <1>11, <2>2 DEF NotifyOne
    <3> QED
      BY <1>0, <2>1, <2>2, <3>1 DEF WakeUpsToCome, CanExecute
  <2>3. CASE CanExecute
    <3>1. WakeUpsToCome' = WakeUpsToCome - 1 /\ WakeUpsToCome' \in Nat
      BY <1>0, <2>1, <2>3 DEF WakeUpsToCome, CanExecute
    <3>2. WakeUpsToCome \in Nat
      BY <1>0 DEF WakeUpsToCome
    <3>3. CASE waiters = {}
      <4>1. waiters' = {}
        BY <1>11, <3>3 DEF NotifyOne
      <4> QED
        BY <3>1, <4>1, FS_EmptySet
    <3>4. CASE waiters # {}
      <4>1. PICK t \in waiters : waiters' = waiters \ {t}
        BY <1>11, <2>3, <3>4 DEF NotifyOne
      <4> QED
        BY <1>0, <1>2, <3>1, <3>2, <4>1
    <3> QED
      BY <3>3, <3>4
  <2> QED
    BY <2>2, <2>3
<1>12. ASSUME UNCHANGED vars PROVE Same
  BY <1>12 DEF vars, hardwareVars
<1> HIDE DEF Awake, Same
<1> QED
  BY <1>1, <1>3, <1>4, <1>5, <1>6, <1>7, <1>8, <1>9, <1>10, <1>11, <1>12, Zenon
     DEF Next, CommitStep, HardwareStep, Awake
-----------------------------------------------------------------------------
(* The refinement.                                                         *)

LEMMA PipelineInit == Init => Pipeline!PInit
BY DEF Init, Pipeline!PInit, MainView, RenderView, Committing

LEMMA PipelineNext ==
  HandInv /\ Load /\ [Next]_vars => [Pipeline!PNext]_(Pipeline!pipeVars)
<1> DEFINE Maps == Pipeline!PNext \/ UNCHANGED Pipeline!pipeVars
<1> SUFFICES ASSUME HandInv, Load, [Next]_vars PROVE Maps
  OBVIOUS
<1> USE TaskNumAssumption, MaxTimeoutsAssumption
    DEF HandInv, PcTypes, PlainTypes, TaskFits, SyncExclusive, OneTask, Load,
        MainAdmitted, RenderAdmitted, Goto, MainSteps, RenderSteps, Committing,
        handVars, mainVars, hardwareVars, MainView, RenderView
<1>1. CASE \E forbidden, consumed \in BOOLEAN : StartFrame(forbidden, consumed)
  <2>1. PICK forbidden, consumed \in BOOLEAN : StartFrame(forbidden, consumed)
    BY <1>1
  <2>2. Pipeline!Start(forbidden, consumed)
    BY <2>1 DEF StartFrame, Pipeline!Start
  <2> QED
    BY <2>2 DEF Pipeline!PNext
<1>2. CASE MarkDirty
  BY <1>2 DEF MarkDirty, Pipeline!pipeVars
<1>3. CASE \E pick \in BOOLEAN : NothingToUpdate(pick)
  BY <1>3 DEF NothingToUpdate, MayCompose, Pipeline!Skip, Pipeline!PNext
<1>4. CASE BeginDirect
  BY <1>4 DEF BeginDirect, MayCompose, Pipeline!Direct, Pipeline!PNext
<1>5. CASE FullFrame
  BY <1>5 DEF FullFrame, Pipeline!HandOver, Pipeline!PNext
<1>6. CASE PostAndWait
  BY <1>6 DEF PostAndWait, Pipeline!pipeVars
<1>7. CASE Unblocked
  BY <1>7 DEF Unblocked, Pipeline!pipeVars
<1>8. CASE CreateLayers
  BY <1>8 DEF CreateLayers, Pipeline!MakeLayers, Pipeline!PNext
<1>9. CASE TakeTask
  BY <1>9 DEF TakeTask, Pipeline!pipeVars
<1>10. CASE Sync
  BY <1>10 DEF Sync, Pipeline!TakeOver, Pipeline!PNext
<1>11. CASE UnblockMainThread
  BY <1>11 DEF UnblockMainThread, Pipeline!pipeVars
<1>12. CASE DrawNothing
  BY <1>12 DEF DrawNothing, Pipeline!NotDrawn, Pipeline!PNext
<1>13. CASE DrawSkipped
  BY <1>13 DEF DrawSkipped, Pipeline!Draw, Pipeline!PNext
<1>14. CASE DrawFrame
  BY <1>14 DEF DrawFrame, Pipeline!Draw, Pipeline!PNext
<1>15. CASE EndOfRender
  BY <1>15 DEF EndOfRender, Pipeline!Release, Pipeline!PNext
<1>16. ASSUME NEW t \in Thread, CommitStep(t) \/ TimeOut(t) PROVE Maps
  <2>1. CASE WaitHardware(t)
    BY <2>1 DEF WaitHardware, AfterWait, Pipeline!pipeVars
  <2>2. CASE TimeOut(t)
    BY <2>2 DEF TimeOut, AfterWait, Pipeline!pipeVars
  <2>3. CASE SetFlag(t)
    BY <2>3 DEF SetFlag, Pipeline!pipeVars
  <2>4. CASE ReadFlag(t)
    BY <2>4 DEF ReadFlag, Pipeline!pipeVars
  <2>5. CASE ResetFlag(t)
    BY <2>5 DEF ResetFlag, Pipeline!pipeVars
  <2>6. CASE Commit(t)
    BY <2>6 DEF Commit, IsDirect, Pipeline!CommitDrawn, Pipeline!CommitDirect,
               Pipeline!PNext
  <2> QED
    BY <1>16, <2>1, <2>2, <2>3, <2>4, <2>5, <2>6, Zenon DEF CommitStep
<1>17. CASE Execute
  BY <1>17 DEF Execute, Pipeline!ExecuteCommit, Pipeline!PNext
<1>18. CASE NotifyOne
  BY <1>18 DEF NotifyOne, Pipeline!pipeVars
<1>19. CASE UNCHANGED vars
  BY <1>19 DEF vars, Pipeline!pipeVars
<1> QED
  BY <1>1, <1>2, <1>3, <1>4, <1>5, <1>6, <1>7, <1>8, <1>9, <1>10, <1>11, <1>12, <1>13, <1>14, <1>15, <1>16, <1>17, <1>18, <1>19,
     Zenon DEF Next, MainStep, RenderStep, CommitStep, HardwareStep
-----------------------------------------------------------------------------
(* The theorems.                                                           *)

\* The inductive invariant: every part is kept with the help of the parts
\* named before it.
IInv ==
    /\ HandInv /\ Load /\ SleepersWoken
    /\ TookTypes /\ InTurn /\ FlagStands /\ OwnTimestampInTurn
    /\ MarkStands

LEMMA InitIInv == Init => IInv
<1> SUFFICES ASSUME Init PROVE IInv
  OBVIOUS
<1>1. PcTypes /\ PlainTypes /\ TookTypes
  BY InitTypes, TypesSplit DEF TookTypes
<1>2. Len(hwQueue) = unExecuted
  BY DEF Init
<1> QED
  BY <1>1, <1>2, HandInit, LoadInit, WakeInit, TurnInit, MarkInit
     DEF IInv, HandInv

LEMMA NextIInv == IInv /\ [Next]_vars => IInv'
<1> SUFFICES ASSUME IInv, [Next]_vars PROVE IInv'
  OBVIOUS
<1>1. HandInv'
  BY PcNext, PlainNext, QueueNext, HandNext DEF IInv, HandInv
<1>2. Load' /\ SleepersWoken'
  BY LoadNext, WakeNext DEF IInv
<1>3. TookTypes' /\ FlagStands'
  BY TookNext, FlagStandsNext DEF IInv, HandInv
<1>4. InTurn' /\ MarkStands'
  BY InTurnNext, MarkNext DEF IInv
<1>5. OwnTimestampInTurn'
  BY StampNext DEF IInv
<1> QED
  BY <1>1, <1>2, <1>3, <1>4, <1>5 DEF IInv

LEMMA Invariance == Spec => []IInv
BY InitIInv, NextIInv, PTL DEF Spec

\* The variables keep their types, for any limit of the hardware thread and
\* any number of waits given up.
THEOREM HandOverTypes == Spec => []TypeOK
<1>1. IInv => TypeOK
  BY TypesSplit DEF IInv, HandInv, TookTypes
<1> QED
  BY <1>1, Invariance, PTL

\* The UniRender thread copies the nodes only while the main thread is blocked
\* and nothing lets it go (RSDrawFrame::PostAndWait).
THEOREM CopiesAlone == Spec => []SyncExclusive
<1>1. IInv => SyncExclusive
  BY DEF IInv, HandInv
<1> QED
  BY <1>1, Invariance, PTL

\* The hardware thread is never further behind than its limit, one task for
\* each of the two threads and one for each wait given up
\* (WaitHardwareThreadTaskExecute).
THEOREM CommitsHeldBack == Spec => []BackPressure
<1>1. IInv => BackPressure
  <2> SUFFICES ASSUME IInv PROVE BackPressure
    OBVIOUS
  <2>1. Cardinality(Admitted) = MainAdmitted + RenderAdmitted
    BY AdmittedCount DEF IInv, HandInv
  <2>2. unExecuted \in Nat
    BY DEF IInv, HandInv, PlainTypes
  <2> QED
    BY <2>1, <2>2 DEF IInv, Load, BackPressure, MainAdmitted, RenderAdmitted
<1> QED
  BY <1>1, Invariance, PTL

\* No wake-up of a thread that waits for the hardware thread is lost, whatever
\* the limit, provided it is not zero (NotifyHardwareThreadCanExecuteTask).
THEOREM NobodySleepsOn == Spec => []SleepersWoken
<1>1. IInv => SleepersWoken
  BY DEF IInv
<1> QED
  BY <1>1, Invariance, PTL

\* As long as no frame was skipped while another was drawn, the main thread
\* commits on its own only when the UniRender thread has no frame in hand: a
\* frame does not overtake the one before it (DoDirectComposition's waitForRT).
CommitsInTurn == ~skipped /\ pc[Main] \in Committing => ~RenderBusy

THEOREM CommitsDoNotOvertake == Spec => []CommitsInTurn
<1>1. IInv => CommitsInTurn
  BY DEF IInv, InTurn, CommitsInTurn
<1> QED
  BY <1>1, Invariance, PTL

\* ... and every commit then carries the time stamp and the rate of its own
\* frame, although the flag that tells whose is shared (GetRefreshRateParam).
THEOREM TimestampsOwn == Spec => []OwnTimestampInTurn
<1>1. IInv => OwnTimestampInTurn
  BY DEF IInv
<1> QED
  BY <1>1, Invariance, PTL

\* A dirty mark set when no frame is about to clear it is not passed over by a
\* frame that is skipped or composed directly (SetDirtyFlag, UniRender).
THEOREM DirtyMarksHeeded == Spec => DirtyFrameDrawn
<1>1. IInv /\ [Next]_vars
      => [pc[Main] = "uniRender" /\ pc'[Main] \in {"idle", "hwWait"}
          => marked # "kept"]_vars
  BY DirtyStep DEF IInv
<1> QED
  BY <1>1, Invariance, PTL DEF Spec, DirtyFrameDrawn

\* The threads, with their locks, queues and wake-ups, implement the pipeline
\* the buffers are passed along, for every limit.
THEOREM HandOverImplementsPipeline == Spec => ImplementsPipeline
<1>1. Init => Pipeline!PInit
  BY PipelineInit
<1>2. IInv /\ [Next]_vars => [Pipeline!PNext]_(Pipeline!pipeVars)
  BY PipelineNext DEF IInv
<1> QED
  BY <1>1, <1>2, Invariance, PTL DEF Spec, ImplementsPipeline, Pipeline!PSpec
=============================================================================
