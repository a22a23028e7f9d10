---------------------------- MODULE FrameHandOver ----------------------------
(***************************************************************************)
(* How a frame of the render service passes through its three threads.     *)
(*                                                                         *)
(* The main thread consumes buffers, applies commands and decides how the  *)
(* frame is shown (RSMainThread::UniRender): not at all, by direct         *)
(* composition (DoDirectComposition: the layers go to the hardware thread  *)
(* without drawing) or by a full frame, for which it posts a task to the   *)
(* UniRender thread and waits until that thread has copied the node        *)
(* parameters (RSDrawFrame::PostAndWait).  Layers are committed by         *)
(* RSHardwareThread::CommitAndReleaseLayers, called by either thread; it   *)
(* posts a task to the hardware thread and counts it, and before           *)
(* committing both threads wait, at most three seconds, until few tasks    *)
(* are left (WaitHardwareThreadTaskExecute).                               *)
(*                                                                         *)
(* What a frame draws is left out: whether something forbids direct        *)
(* composition, whether a hardware layer got a buffer and whether the      *)
(* UniRender thread has something to commit are free choices.  The         *)
(* parallel types SYNC and SINGLE_THREAD and a stopped render service are  *)
(* left out too.                                                           *)
(***************************************************************************)
EXTENDS Naturals, Sequences, FiniteSets

CONSTANTS
    TaskNum,      \* HARDWARE_THREAD_TASK_NUM
    MaxTimeouts   \* bound: how many waits for the hardware thread time out

ASSUME TaskNumAssumption == TaskNum \in Nat
ASSUME MaxTimeoutsAssumption == MaxTimeouts \in Nat

VARIABLES
    pc,            \* where each of the two threads is in its frame
    posted,        \* the task that waits in the UniRender thread's queue
    job,           \* the task the UniRender thread runs
    canUnblock,    \* RSDrawFrame::canUnblockMainThread
    doDirect,      \* RSMainThread::doDirectComposition_
    lastDirect,    \* RSMainThread::isLastFrameDirectComposition_
    updated,       \* RSMainThread::isHardwareEnabledBufferUpdated_
    isDirty,       \* RSMainThread::isDirty_
    unExecuted,    \* RSHardwareThread::unExecuteTaskNum_
    hwQueue,       \* commit tasks in the hardware thread's queue
    hwDone,        \* the hardware thread is about to compare unExecuted
    waiters,       \* threads asleep on hardwareThreadTaskCond_
    directFlag,    \* HgmCore's direct composition flag
    took,          \* what each thread has read from it for its commit
    timeouts,      \* waits that have timed out
    skipped,       \* history: a frame was skipped while another was drawn
    marked         \* history: the fate of the last SetDirtyFlag

mainVars == <<doDirect, lastDirect, updated>>
handVars == <<posted, job, canUnblock>>
hardwareVars == <<unExecuted, hwQueue, hwDone>>
flagVars == <<directFlag, took>>
dirtyVars == <<isDirty, marked>>
vars == <<pc, handVars, mainVars, hardwareVars, waiters, flagVars, timeouts,
          skipped, dirtyVars>>

Main == "main"
Render == "render"
Thread == {Main, Render}

\* The steps of a commit; "flag" only for direct composition.
Committing == {"flag", "read", "reset", "commit"}

MainSteps == {"idle", "uniRender", "hwWait", "layers", "handOver", "blocked",
              "joined"} \cup Committing
RenderSteps == {"idle", "sync", "unblock", "draw", "hwWait", "release"}
               \cup Committing

\* The frame a commit of thread t shows is composed directly.
IsDirect(t) == t = Main \/ job = "direct"

\* The task CommitAndReleaseLayers posts: whether its frame is composed
\* directly, and whose time stamp and rate it carries: those of the main
\* thread's frame (HgmCore) or those handed to the UniRender thread.
CommitTask(t) ==
    [direct |-> IsDirect(t), from |-> IF took[t] THEN Main ELSE Render]

Commits == [direct : BOOLEAN, from : Thread]

Goto(t, step) == pc' = [pc EXCEPT ![t] = step]

Init ==
    /\ pc = [t \in Thread |-> "idle"]
    /\ posted = "none" /\ job = "none" /\ canUnblock = FALSE
    /\ doDirect = TRUE /\ lastDirect = FALSE /\ updated = FALSE
    /\ isDirty = FALSE /\ marked = "none"
    /\ unExecuted = 0 /\ hwQueue = <<>> /\ hwDone = FALSE
    /\ waiters = {} /\ timeouts = 0
    /\ directFlag = FALSE /\ took = [t \in Thread |-> FALSE]
    /\ skipped = FALSE

-----------------------------------------------------------------------------
(* The main thread.                                                        *)

\* From the start of mainLoop_ to UniRender.  Whether a node, a command or
\* an animation forbids direct composition (forbidden) and whether a node
\* on the tree that can be a hardware layer consumed a buffer is open.
StartFrame(forbidden, consumed) ==
    /\ pc[Main] = "idle"
    /\ lastDirect' = doDirect
    /\ doDirect' = ~forbidden
    /\ updated' = consumed
    /\ Goto(Main, "uniRender")
    /\ UNCHANGED <<handVars, hardwareVars, waiters, flagVars, timeouts,
                   skipped, dirtyVars>>

\* A UniRender frame that has not cleared isDirty_ yet is under way.
BeforeClear ==
    \/ pc[Main] = "handOver"
    \/ posted = "frame"
    \/ job = "frame" /\ pc[Render] \in {"sync", "unblock", "draw"}

\* The UniRender thread has a frame in hand.
RenderBusy == posted # "none" \/ job # "none"

\* SetDirtyFlag: by a task of the main thread or by another thread.
MarkDirty ==
    /\ isDirty' = TRUE
    /\ marked' = IF BeforeClear THEN "raced" ELSE "kept"
    /\ UNCHANGED <<pc, handVars, mainVars, hardwareVars, waiters, flagVars,
                   timeouts, skipped>>

MayCompose == pc[Main] = "uniRender" /\ doDirect /\ ~isDirty

\* UniRender returns early: no layer changed.  doDirectComposition_ stays
\* true.  When a colour is to be picked it marks the screen dirty on its way.
NothingToUpdate(pick) ==
    /\ MayCompose
    /\ ~updated
    /\ Goto(Main, "idle")
    /\ skipped' = (skipped \/ RenderBusy)
    /\ IF pick THEN /\ isDirty' = TRUE
                    /\ marked' = IF BeforeClear THEN "raced" ELSE "kept"
               ELSE UNCHANGED dirtyVars
    /\ UNCHANGED <<handVars, mainVars, hardwareVars, waiters, flagVars,
                   timeouts>>

\* DoDirectComposition, up to its wait for the hardware thread.
BeginDirect ==
    /\ MayCompose
    /\ updated
    /\ Goto(Main, "hwWait")
    /\ UNCHANGED <<handVars, mainVars, hardwareVars, waiters, flagVars,
                   timeouts, skipped, dirtyVars>>

\* The tree is traversed for a full frame: direct composition is forbidden,
\* fails (no screen), or something else forces the update.
FullFrame ==
    /\ pc[Main] = "uniRender"
    /\ doDirect' = FALSE
    /\ marked' = "none"
    /\ Goto(Main, "handOver")
    /\ UNCHANGED <<handVars, lastDirect, updated, hardwareVars, waiters,
                   flagVars, timeouts, skipped, isDirty>>

\* Mutant: what an earlier frame left in canUnblockMainThread is not reset.
PostAndWaitStale ==
    /\ pc[Main] = "handOver"
    /\ posted' = "frame"
    /\ Goto(Main, "blocked")
    /\ UNCHANGED <<job, canUnblock, mainVars, hardwareVars, waiters, flagVars,
                   timeouts, skipped, dirtyVars>>

\* RSDrawFrame::PostAndWait, under frameMutex_ up to the wait.
PostAndWait ==
    /\ pc[Main] = "handOver"
    /\ canUnblock' = FALSE
    /\ posted' = "frame"
    /\ Goto(Main, "blocked")
    /\ UNCHANGED <<job, mainVars, hardwareVars, waiters, flagVars, timeouts,
                   skipped, dirtyVars>>

\* Mutant: the main thread does not wait for the copy of its nodes.
UnblockedEarly ==
    /\ pc[Main] = "blocked"
    /\ Goto(Main, "idle")
    /\ UNCHANGED <<handVars, mainVars, hardwareVars, waiters, flagVars,
                   timeouts, skipped, dirtyVars>>

\* The wait on frameCV_ ends, and with it the frame.
Unblocked ==
    /\ pc[Main] = "blocked"
    /\ canUnblock
    /\ Goto(Main, "idle")
    /\ UNCHANGED <<handVars, mainVars, hardwareVars, waiters, flagVars,
                   timeouts, skipped, dirtyVars>>

\* Mutant: the main thread commits every direct frame itself.
CreateLayersAlone ==
    /\ pc[Main] = "layers"
    /\ Goto(Main, "flag")
    /\ UNCHANGED <<handVars, mainVars, hardwareVars, waiters, flagVars,
                   timeouts, skipped, dirtyVars>>

\* The layers of a direct frame.  The commit is left to the UniRender thread,
\* and waited for, unless the frame before was composed directly too.
CreateLayers ==
    /\ pc[Main] = "layers"
    /\ IF lastDirect THEN Goto(Main, "flag") /\ UNCHANGED posted
                     ELSE Goto(Main, "joined") /\ posted' = "direct"
    /\ UNCHANGED <<job, canUnblock, mainVars, hardwareVars, waiters, flagVars,
                   timeouts, skipped, dirtyVars>>

-----------------------------------------------------------------------------
(* The UniRender thread.                                                   *)

TakeTask ==
    /\ job = "none" /\ posted # "none"
    /\ job' = posted
    /\ posted' = "none"
    /\ Goto(Render, IF posted = "frame" THEN "sync" ELSE "flag")
    /\ UNCHANGED <<canUnblock, mainVars, hardwareVars, waiters, flagVars,
                   timeouts, skipped, dirtyVars>>

\* RSDrawFrame::Sync and what else reads the main thread's nodes.
Sync ==
    /\ pc[Render] = "sync"
    /\ Goto(Render, "unblock")
    /\ UNCHANGED <<handVars, mainVars, hardwareVars, waiters, flagVars,
                   timeouts, skipped, dirtyVars>>

UnblockMainThread ==
    /\ pc[Render] = "unblock"
    /\ canUnblock' = TRUE
    /\ Goto(Render, "draw")
    /\ UNCHANGED <<posted, job, mainVars, hardwareVars, waiters, flagVars,
                   timeouts, skipped, dirtyVars>>

\* OnDraw returns without committing: the screen is off, no buffer could be
\* requested, or nothing is to be shown and no commit is forced.
DrawNothing ==
    /\ pc[Render] = "draw"
    /\ Goto(Render, "release")
    /\ UNCHANGED <<handVars, mainVars, hardwareVars, waiters, flagVars,
                   timeouts, skipped, dirtyVars>>

\* CheckDisplayNodeSkip: nothing to draw, the hardware layers are committed.
DrawSkipped ==
    /\ pc[Render] = "draw"
    /\ ~isDirty
    /\ Goto(Render, "hwWait")
    /\ UNCHANGED <<handVars, mainVars, hardwareVars, waiters, flagVars,
                   timeouts, skipped, dirtyVars>>

\* The whole of OnDraw up to its wait for the hardware thread.
DrawFrame ==
    /\ pc[Render] = "draw"
    /\ isDirty' = FALSE
    /\ Goto(Render, "hwWait")
    /\ UNCHANGED <<handVars, mainVars, hardwareVars, waiters, flagVars,
                   timeouts, skipped, marked>>

\* Mutant: the dirty mark is cleared at the end of the frame.
EndOfRenderClearing ==
    /\ pc[Render] = "release"
    /\ job' = "none"
    /\ isDirty' = FALSE
    /\ Goto(Render, "idle")
    /\ UNCHANGED <<posted, canUnblock, mainVars, hardwareVars, waiters,
                   flagVars, timeouts, skipped, marked>>

\* ReleaseSelfDrawingNodeBuffer and the end of RenderFrame.
EndOfRender ==
    /\ pc[Render] = "release"
    /\ job' = "none"
    /\ Goto(Render, "idle")
    /\ UNCHANGED <<posted, canUnblock, mainVars, hardwareVars, waiters,
                   flagVars, timeouts, skipped, dirtyVars>>

-----------------------------------------------------------------------------
(* What both threads do.                                                   *)

\* Where thread t goes on after its wait for the hardware thread.
AfterWait(t) == IF t = Main THEN "layers" ELSE "read"

\* Mutant: one task more.
CanExecuteMore == unExecuted =< TaskNum + 1

CanExecute == unExecuted =< TaskNum

\* WaitHardwareThreadTaskExecute: go on, or fall asleep.
WaitHardware(t) ==
    /\ pc[t] = "hwWait" /\ t \notin waiters
    /\ IF CanExecute THEN Goto(t, AfterWait(t)) /\ UNCHANGED waiters
                     ELSE waiters' = waiters \cup {t} /\ UNCHANGED pc
    /\ UNCHANGED <<handVars, mainVars, hardwareVars, flagVars, timeouts,
                   skipped, dirtyVars>>

\* The wait times out and the caller only logs it.
TimeOut(t) ==
    /\ t \in waiters
    /\ timeouts < MaxTimeouts
    /\ timeouts' = timeouts + 1
    /\ waiters' = waiters \ {t}
    /\ Goto(t, AfterWait(t))
    /\ UNCHANGED <<handVars, mainVars, hardwareVars, flagVars, skipped,
                   dirtyVars>>

\* SetDirectCompositionFlag(true), before a direct frame is committed.
SetFlag(t) ==
    /\ pc[t] = "flag"
    /\ directFlag' = TRUE
    /\ Goto(t, "read")
    /\ UNCHANGED <<handVars, mainVars, hardwareVars, waiters, took, timeouts,
                   skipped, dirtyVars>>

\* GetRefreshRateParam reads the flag and, if it is set, resets it.
ReadFlag(t) ==
    /\ pc[t] = "read"
    /\ took' = [took EXCEPT ![t] = directFlag]
    /\ Goto(t, IF directFlag THEN "reset" ELSE "commit")
    /\ UNCHANGED <<handVars, mainVars, hardwareVars, waiters, directFlag,
                   timeouts, skipped, dirtyVars>>

ResetFlag(t) ==
    /\ pc[t] = "reset"
    /\ directFlag' = FALSE
    /\ Goto(t, "commit")
    /\ UNCHANGED <<handVars, mainVars, hardwareVars, waiters, took, timeouts,
                   skipped, dirtyVars>>

\* The rest of CommitAndReleaseLayers, and where its caller goes on: the main
\* thread ends its frame, a direct job also ends the main thread's wait.
Commit(t) ==
    /\ pc[t] = "commit"
    /\ unExecuted' = unExecuted + 1
    /\ hwQueue' = Append(hwQueue, CommitTask(t))
    /\ IF IsDirect(t)
       THEN pc' = IF t = Main THEN [pc EXCEPT ![Main] = "idle"]
                              ELSE [u \in Thread |-> "idle"]
       ELSE Goto(t, "release")
    /\ job' = IF t = Render /\ job = "direct" THEN "none" ELSE job
    /\ took' = [took EXCEPT ![t] = FALSE]
    /\ UNCHANGED <<posted, canUnblock, mainVars, hwDone, waiters, directFlag,
                   timeouts, skipped, dirtyVars>>

-----------------------------------------------------------------------------
(* The hardware thread.                                                    *)

\* A commit task, up to the decrement of unExecuteTaskNum_.
Execute ==
    /\ ~hwDone /\ hwQueue # <<>>
    /\ hwQueue' = Tail(hwQueue)
    /\ unExecuted' = unExecuted - 1
    /\ hwDone' = TRUE
    /\ UNCHANGED <<pc, handVars, mainVars, waiters, flagVars, timeouts,
                   skipped, dirtyVars>>

\* Mutant: a wake-up only when the limit is crossed.
NotifyOneAtLimit ==
    /\ hwDone
    /\ hwDone' = FALSE
    /\ IF unExecuted = TaskNum /\ waiters # {}
       THEN \E t \in waiters : waiters' = waiters \ {t}
       ELSE UNCHANGED waiters
    /\ UNCHANGED <<pc, handVars, mainVars, unExecuted, hwQueue, flagVars,
                   timeouts, skipped, dirtyVars>>

\* Mutant: the task is counted off a second time.
NotifyOneCounting ==
    /\ hwDone
    /\ hwDone' = FALSE
    /\ unExecuted' = unExecuted - 1
    /\ IF CanExecute /\ waiters # {}
       THEN \E t \in waiters : waiters' = waiters \ {t}
       ELSE UNCHANGED waiters
    /\ UNCHANGED <<pc, handVars, mainVars, hwQueue, flagVars, timeouts,
                   skipped, dirtyVars>>

\* Its end: the comparison, and notify_one when it holds.
NotifyOne ==
    /\ hwDone
    /\ hwDone' = FALSE
    /\ IF CanExecute /\ waiters # {}
       THEN \E t \in waiters : waiters' = waiters \ {t}
       ELSE UNCHANGED waiters
    /\ UNCHANGED <<pc, handVars, mainVars, unExecuted, hwQueue, flagVars,
                   timeouts, skipped, dirtyVars>>

-----------------------------------------------------------------------------
MainStep ==
    \/ \E pick \in BOOLEAN : NothingToUpdate(pick)
    \/ BeginDirect \/ FullFrame \/ PostAndWait \/ Unblocked \/ CreateLayers

RenderStep ==
    \/ TakeTask \/ Sync \/ UnblockMainThread
    \/ DrawNothing \/ DrawSkipped \/ DrawFrame \/ EndOfRender

CommitStep(t) ==
    WaitHardware(t) \/ SetFlag(t) \/ ReadFlag(t) \/ ResetFlag(t) \/ Commit(t)

HardwareStep == Execute \/ NotifyOne

Next ==
    \/ \E forbidden, consumed \in BOOLEAN : StartFrame(forbidden, consumed)
    \/ MarkDirty
    \/ MainStep
    \/ RenderStep
    \/ \E t \in Thread : CommitStep(t) \/ TimeOut(t)
    \/ HardwareStep

\* Every thread goes on with the frame it is in.  Nothing obliges a frame to
\* start, the screen to be marked dirty or a wait to time out.
Fairness ==
    /\ WF_vars(MainStep \/ CommitStep(Main))
    /\ WF_vars(RenderStep \/ CommitStep(Render))
    /\ WF_vars(HardwareStep)

Spec == Init /\ [][Next]_vars /\ Fairness

-----------------------------------------------------------------------------
TypeOK ==
    /\ pc \in [Thread -> MainSteps \cup RenderSteps]
    /\ pc[Main] \in MainSteps /\ pc[Render] \in RenderSteps
    /\ posted \in {"none", "frame", "direct"}
    /\ job \in {"none", "frame", "direct"}
    /\ canUnblock \in BOOLEAN
    /\ doDirect \in BOOLEAN /\ lastDirect \in BOOLEAN /\ updated \in BOOLEAN
    /\ isDirty \in BOOLEAN /\ marked \in {"none", "kept", "raced"}
    /\ unExecuted \in Nat /\ hwQueue \in Seq(Commits) /\ hwDone \in BOOLEAN
    /\ waiters \in SUBSET Thread
    /\ directFlag \in BOOLEAN /\ took \in [Thread -> BOOLEAN]
    /\ timeouts \in 0..MaxTimeouts
    /\ skipped \in BOOLEAN

\* While the UniRender thread copies the nodes' parameters, or has yet to
\* begin, the main thread that owns them is blocked in PostAndWait, and
\* nothing lets it go (RSDrawFrame::PostAndWait, RenderFrame).
SyncExclusive ==
    posted = "frame" \/ pc[Render] \in {"sync", "unblock"} =>
        pc[Main] = "blocked" /\ ~canUnblock

\* Threads that have passed the wait and have not committed yet.
Admitted ==
    {t \in Thread : pc[t] \in {"layers", "joined"} \cup Committing
                    /\ ~(t = Render /\ job = "direct")}

\* Back-pressure: the hardware thread is never further behind than its limit,
\* one task for each of the two threads that pass the wait at the same time,
\* and one for each wait given up (WaitHardwareThreadTaskExecute).
BackPressure ==
    unExecuted + Cardinality(Admitted) =< TaskNum + 2 + timeouts

\* How often the hardware thread calls notify_one for the commits it has.
WakeUpsToCome ==
    (IF CanExecute THEN unExecuted ELSE TaskNum + 1)
    + (IF hwDone /\ CanExecute THEN 1 ELSE 0)

\* No wake-up is lost: as many are to come as threads sleep, though a commit
\* wakes one at most, both threads may sleep, and the limit is tested again
\* outside the lock after further commits may have arrived.  One that sleeps
\* when the last commit has run would rest on its time-out.
SleepersWoken == TaskNum >= 1 => Cardinality(waiters) =< WakeUpsToCome

\* Every commit carries the time stamp and the rate of its own frame: those
\* of the main thread exactly if the frame is composed directly
\* ("Temporary sync the timestamp to fix the duplicate time stamp issue").
OwnTimestamp ==
    \A i \in DOMAIN hwQueue : hwQueue[i].direct <=> hwQueue[i].from = Main

\* The same, as long as no frame was skipped while another was drawn.
OwnTimestampInTurn == ~skipped => OwnTimestamp

\* A screen marked dirty when no frame is about to clear the mark is drawn by
\* the next frame that is not forbidden to: that frame is neither skipped nor
\* composed directly (SetDirtyFlag, UniRender, OnDraw).
DirtyFrameDrawn ==
    [][pc[Main] = "uniRender" /\ pc'[Main] \in {"idle", "hwWait"}
       => marked # "kept"]_vars

\* How FramePipeline sees the threads: a wait for the hardware thread is part
\* of what is waited for, and the main thread is free again once the node
\* parameters are copied.
MainView ==
    CASE pc[Main] = "uniRender" -> "frame"
      [] pc[Main] \in {"hwWait", "layers"} -> "direct"
      [] pc[Main] = "joined" -> "joined"
      [] pc[Main] \in Committing -> "commit"
      [] pc[Main] = "handOver" \/ posted = "frame" \/ pc[Render] = "sync"
            -> "handed"
      [] OTHER -> "idle"

RenderView ==
    IF job # "frame" THEN "idle"
    ELSE CASE pc[Render] = "sync" -> "idle"
           [] pc[Render] \in {"unblock", "draw"} -> "draw"
           [] pc[Render] \in {"hwWait"} \cup Committing -> "commit"
           [] OTHER -> "release"

Pipeline == INSTANCE FramePipeline
              WITH Capacity <- TaskNum + 2 + MaxTimeouts,
                   main <- MainView, render <- RenderView,
                   lastDirect <- lastDirect /\ MainView \in {"frame", "direct"},
                   updated <- updated /\ MainView = "frame",
                   behind <- unExecuted

\* The three threads, with their locks, queues and wake-ups, keep the promises
\* of FramePipeline: parameters are copied while the main thread stands still,
\* a joined commit comes after what the UniRender thread has in hand, and the
\* hardware thread is never further behind than its capacity.
ImplementsPipeline == Pipeline!PSpec

\* Every frame the main thread starts ends: it is never left waiting for the
\* UniRender thread or, time-outs aside, for the hardware thread.
FrameEnds == pc[Main] # "idle" ~> pc[Main] = "idle"

\* A task the UniRender thread has begun is done to its end, as long as no
\* frame was skipped meanwhile: after that, frames the main thread commits on
\* its own can take the hardware thread's place again and again while the
\* UniRender thread wakes up for it.
RenderEnds == job # "none" ~> job = "none" \/ skipped
=============================================================================
