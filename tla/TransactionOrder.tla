-------------------------- MODULE TransactionOrder --------------------------
(***************************************************************************)
(* How the transactions of the clients reach the render tree: the proxy    *)
(* numbers and sends parcels, the binder threads of the render service     *)
(* take small ones in place and hand large ones to RSUnmarshalThread, and  *)
(* the main thread collects both at a vsync, orders them by index and      *)
(* executes them.  Source: src/rosen/modules/render_service/core           *)
(* (RSMainThread, RSUnmarshalThread, RSRenderServiceConnectionStub) and    *)
(* the proxy in render_service_base.                                       *)
(*                                                                         *)
(* A transaction is its index; what its commands do is left out.  No       *)
(* command is put off for a window that a sub-thread draws: nothing fills  *)
(* subThreadNodes_ in this version (rs_main_thread.cpp:1914).  Vsync is    *)
(* reduced to what VSyncChannel shows of it: a request, made at most once, *)
(* is answered by one pulse.  Time is counted in refresh periods between   *)
(* pulses.                                                                 *)
(***************************************************************************)
EXTENDS Integers, Sequences, SequencesExt, FiniteSetsExt

CONSTANTS
  Process,     \* clients with a connection
  Barrier,     \* the task unmarshalBarrierTask_
  Sizes,       \* for each client, the sizes of its parcels
  MaxIndex,    \* for each client, bound: parcels it sends
  MaxLost,     \* for each client, bound: parcels it gives up sending
  ParallelFlags, \* values GetUnmarshParallelFlag() may have
  UiDvsyncFlags, \* values IsUiDvsyncOn() may have; TRUE for the emulator's build
  SKIP_COMMAND_FREQ_LIMIT

\* "inPlace": unmarshalled by the binder thread; "posted": by
\* RSUnmarshalThread; "pending": so large that vsync is asked for afterwards.
Size == {"inPlace", "posted", "pending"}

ASSUME BoundAssumption ==
  /\ Sizes \in [Process -> SUBSET Size]
  /\ MaxIndex \in [Process -> Nat]
  /\ MaxLost \in [Process -> Nat]
  /\ ParallelFlags \subseteq BOOLEAN
  /\ SKIP_COMMAND_FREQ_LIMIT \in Nat
  /\ UiDvsyncFlags \subseteq BOOLEAN
ASSUME BarrierAssumption ==
  Barrier \notin [pid : Process, idx : Nat, pending : BOOLEAN]

VARIABLES
  \* clients and the binder threads of their connections
  index,       \* transactionDataIndex_ of the last parcel handled or lost
  lost,        \* indices whose SendRequest failed every time
  ipc,         \* what the binder thread is about to do
  \* vsync of the render service
  asked,       \* RNVFlag_ of the receiver
  pulse,       \* an event is on its way to the main thread
  tooNew,      \* parcels stamped no earlier than that event or this frame
  \* RSUnmarshalThread
  parallel,    \* GetUnmarshParallelFlag(), read once
  uiDvsyncOn,  \* IsUiDvsyncOn(), FALSE unless a build with DVsync switches it on
  tasks,       \* posted tasks
  unmarshalled,\* cachedTransactionDataMap_ of the thread
  willHaveCachedData,
  cachedDeps,  \* cachedDeps_
  umAsks,      \* a task is about to ask for vsync
  \* RSMainThread
  pc,          \* "idle", "check", "wait", "deps", "process", "render"
  needWait,    \* needWaitUnmarshalFinished_
  finished,    \* unmarshalFinishedCount_
  deps,        \* what Wait() waits for
  cached,      \* cachedTransactionDataMap_ of the main thread
  known,       \* clients in effectiveTransactionDataIndexMap_
  lastIndex,   \* .first of their entries
  effective,   \* .second of their entries
  waited,      \* periods since transactionDataLastWaitTime_, or NoWait
  \* history
  applied,     \* indices of the transactions executed
  skipped,     \* clients an index was skipped for
  putOff       \* clients whose next transaction was too new for the last
               \* frame, which did not ask for another

clientVars == <<index, lost, ipc>>
vsyncVars == <<asked, pulse, tooNew>>
switches == <<parallel, uiDvsyncOn>>
unmarshalVars == <<switches, tasks, unmarshalled, willHaveCachedData, cachedDeps, umAsks>>
frameVars == <<pc, needWait, finished, deps>>
dataVars == <<cached, known, lastIndex, effective, waited>>
historyVars == <<applied, skipped, putOff>>
vars == <<clientVars, vsyncVars, unmarshalVars, frameVars, dataVars, historyVars>>

NoWait == -1                             \* the wait time is 0 or not there
MaxWait == SKIP_COMMAND_FREQ_LIMIT + 1   \* longer waits are as good
Idle == [at |-> "idle", idx |-> 0, pending |-> FALSE]

Parcel == [pid : Process, idx : Nat, pending : BOOLEAN]
Nothing == [p \in Process |-> {}]

TypeOK ==
  /\ index \in [Process -> Nat]
  /\ lost \in [Process -> SUBSET Nat]
  /\ ipc \in [Process -> [at : {"idle", "mark", "ask"}, idx : Nat, pending : BOOLEAN]]
  /\ asked \in BOOLEAN
  /\ pulse \in BOOLEAN
  /\ tooNew \subseteq Process \X Nat
  /\ parallel \in BOOLEAN
  /\ uiDvsyncOn \in BOOLEAN
  /\ tasks \in Seq(Parcel \cup {Barrier})
  /\ unmarshalled \in [Process -> SUBSET Nat]
  /\ willHaveCachedData \in BOOLEAN
  /\ cachedDeps \subseteq Process \X Nat
  /\ umAsks \in BOOLEAN
  /\ pc \in {"idle", "check", "wait", "deps", "process", "render"}
  /\ needWait \in BOOLEAN
  /\ finished \in Nat
  /\ deps \subseteq Process \X Nat
  /\ cached \in [Process -> SUBSET Nat]
  /\ known \subseteq Process
  /\ lastIndex \in [Process -> Nat]
  /\ effective \in [Process -> SUBSET Nat]
  /\ waited \in [Process -> {NoWait} \cup 0..MaxWait]
  /\ applied \in [Process -> SUBSET Nat]
  /\ skipped \subseteq Process
  /\ putOff \subseteq Process

Init ==
  /\ index = [p \in Process |-> 0]
  /\ lost = Nothing
  /\ ipc = [p \in Process |-> Idle]
  /\ asked = FALSE
  /\ pulse = FALSE
  /\ tooNew = {}
  /\ parallel \in ParallelFlags
  /\ uiDvsyncOn \in UiDvsyncFlags
  /\ tasks = <<>>
  /\ unmarshalled = Nothing
  /\ willHaveCachedData = FALSE
  /\ cachedDeps = {}
  /\ umAsks = FALSE
  /\ pc = "idle"
  /\ needWait = TRUE
  /\ finished = 0
  /\ deps = {}
  /\ cached = Nothing
  /\ known = Process
  /\ lastIndex = [p \in Process |-> 0]
  /\ effective = Nothing
  /\ waited = [p \in Process |-> NoWait]
  /\ applied = Nothing
  /\ skipped = {}
  /\ putOff = {}

-----------------------------------------------------------------------------
(* Clients and binder threads.  The proxy numbers the parcels of a         *)
(* transaction while it marshals them and then sends them.  One-way calls  *)
(* of a connection are handled one by one, in the order they were sent, so *)
(* that nothing is lost by sending a parcel when it is handled; a client   *)
(* that has died may still have parcels to be handled.                     *)

\* A command may carry the stamp of the very pulse that the main thread has
\* yet to handle, or is handling: the client was woken by the same one.
Stamp(p, i) ==
  \E new \in SUBSET {<<p, i>>} :
    /\ new # {} => pulse \/ pc # "idle"
    /\ tooNew' = tooNew \cup new

NextParcel(p, size) ==
  /\ size \in Sizes[p]
  /\ ipc[p] = Idle
  /\ index[p] < MaxIndex[p]
  /\ index' = [index EXCEPT ![p] = @ + 1]
  /\ Stamp(p, index[p] + 1)

\* SendRequest failed MAX_RETRY_COUNT times.  The loop ends before its error
\* path, which leaves the function, is reached: the next parcel is sent.
LoseParcel(p) ==
  /\ index[p] < MaxIndex[p]
  /\ Cardinality(lost[p]) < MaxLost[p]
  /\ index' = [index EXCEPT ![p] = @ + 1]
  /\ lost' = [lost EXCEPT ![p] = @ \cup {index[p] + 1}]
  /\ UNCHANGED <<ipc, vsyncVars, unmarshalVars, frameVars, dataVars, historyVars>>

\* A small parcel: RSMainThread::RecvRSTransactionData, up to RequestNextVSync.
RecvRSTransactionData(p) ==
  /\ NextParcel(p, "inPlace")
  /\ cached' = [cached EXCEPT ![p] = @ \cup {index[p] + 1}]
  /\ ipc' = [ipc EXCEPT ![p].at = "ask"]
  /\ UNCHANGED <<lost, asked, pulse, unmarshalVars, frameVars, known, lastIndex, effective,
                 waited, historyVars>>

\* RSUnmarshalThread::RecvParcel posts the task before it notes that it did.
RecvParcel(p, size) ==
  /\ NextParcel(p, size)
  /\ LET i == index[p] + 1
         pending == size = "pending"
     IN /\ tasks' = Append(tasks, [pid |-> p, idx |-> i, pending |-> pending])
        /\ ipc' = [ipc EXCEPT ![p] = [at |-> "mark", idx |-> i, pending |-> pending]]
  /\ UNCHANGED <<lost, asked, pulse, switches, unmarshalled, willHaveCachedData, cachedDeps,
                 umAsks, frameVars, dataVars, historyVars>>

MarkCachedData(p) ==
  /\ ipc[p].at = "mark"
  /\ willHaveCachedData' = TRUE
  /\ cachedDeps' = IF parallel THEN cachedDeps \cup {<<p, ipc[p].idx>>} ELSE cachedDeps
  /\ ipc' = [ipc EXCEPT ![p] = IF ipc[p].pending THEN Idle ELSE [Idle EXCEPT !.at = "ask"]]
  /\ UNCHANGED <<index, lost, vsyncVars, switches, tasks, unmarshalled, umAsks,
                 frameVars, dataVars, historyVars>>

RequestNextVSync(p) ==
  /\ ipc[p].at = "ask"
  /\ asked' = TRUE
  /\ ipc' = [ipc EXCEPT ![p] = Idle]
  /\ UNCHANGED <<index, lost, pulse, tooNew, unmarshalVars, frameVars, dataVars, historyVars>>

-----------------------------------------------------------------------------
(* RSUnmarshalThread, or with the parallel flag the workers of ffrt.       *)

\* Mutant: the data replaces what waits there.
MergedOver(from) ==
  [p \in Process |-> IF p \in known /\ from[p] # {} THEN from[p] ELSE effective[p]]

\* The data of the client is added to what the main thread merged before; a
\* client that is not known any more is skipped.
Merged(from) ==
  [p \in Process |-> IF p \in known THEN effective[p] \cup from[p] ELSE effective[p]]

\* The thread runs its tasks in order and one by one.
Runnable(k) ==
  /\ k \in DOMAIN tasks
  /\ ~parallel => k = 1 /\ ~umAsks

Unmarshal(k) ==
  /\ Runnable(k)
  /\ tasks[k] # Barrier
  /\ LET p == tasks[k].pid
     IN unmarshalled' = [unmarshalled EXCEPT ![p] = @ \cup {tasks[k].idx}]
  /\ umAsks' = (umAsks \/ tasks[k].pending)
  /\ tasks' = RemoveAt(tasks, k)
  /\ UNCHANGED <<clientVars, vsyncVars, switches, willHaveCachedData, cachedDeps,
                 frameVars, dataVars, historyVars>>

UnmarshalAsks ==
  /\ umAsks
  /\ umAsks' = FALSE
  /\ asked' = TRUE
  /\ UNCHANGED <<clientVars, pulse, tooNew, switches, tasks, unmarshalled,
                 willHaveCachedData, cachedDeps, frameVars, dataVars, historyVars>>

\* GetCachedTransactionData, then MergeToEffectiveTransactionDataMap.
TakeUnmarshalled ==
  /\ unmarshalled' = Nothing
  /\ willHaveCachedData' = FALSE
  /\ effective' = Merged(unmarshalled)

RunBarrier ==
  /\ Runnable(1)
  /\ tasks[1] = Barrier
  /\ TakeUnmarshalled
  /\ tasks' = Tail(tasks)
  /\ finished' = finished + 1
  /\ UNCHANGED <<clientVars, vsyncVars, switches, cachedDeps, umAsks, pc, needWait,
                 deps, cached, known, lastIndex, waited, historyVars>>

-----------------------------------------------------------------------------
(* Vsync and the main thread.                                              *)

\* A request is answered n periods after the last pulse.
Pulse(n) ==
  /\ asked
  /\ ~pulse
  /\ pulse' = TRUE
  /\ tooNew' = {}
  /\ waited' = [p \in Process |-> IF waited[p] = NoWait THEN NoWait
                                 ELSE Min({MaxWait, waited[p] + n})]
  /\ UNCHANGED <<clientVars, asked, unmarshalVars, frameVars, cached, known,
                 lastIndex, effective, historyVars>>

\* Animations, buffers and touch ask as well.
OtherRequest ==
  /\ asked' = TRUE
  /\ UNCHANGED <<clientVars, pulse, tooNew, unmarshalVars, frameVars, dataVars, historyVars>>

OnVsync ==
  /\ pc = "idle"
  /\ pulse
  /\ pulse' = FALSE
  /\ asked' = FALSE
  /\ effective' = Merged(cached)
  /\ cached' = Nothing
  /\ pc' = "check"
  /\ UNCHANGED <<clientVars, tooNew, unmarshalVars, needWait, finished, deps,
                 known, lastIndex, waited, historyVars>>

CachedTransactionDataEmpty == unmarshalled = Nothing /\ ~willHaveCachedData

\* Mutant: what is unmarshalled already needs no barrier.
PostBarrierIfComing ==
  tasks' = IF parallel \/ ~willHaveCachedData THEN tasks ELSE Append(tasks, Barrier)

PostBarrier == tasks' = IF parallel THEN tasks ELSE Append(tasks, Barrier)

CheckUnmarshalled ==
  /\ pc = "check"
  /\ IF CachedTransactionDataEmpty
     THEN needWait' = FALSE /\ UNCHANGED tasks
     ELSE PostBarrier /\ UNCHANGED needWait
  /\ pc' = "wait"
  /\ UNCHANGED <<clientVars, vsyncVars, switches, unmarshalled, willHaveCachedData,
                 cachedDeps, umAsks, finished, deps, dataVars, historyVars>>

\* A task of the main thread that runs a frame without a pulse; the clock it
\* sets forward for the frame is left out.
ForceRefreshForUni ==
  /\ pc = "idle"
  /\ effective' = Merged(cached)
  /\ cached' = Nothing
  /\ PostBarrier
  /\ pc' = "wait"
  /\ UNCHANGED <<clientVars, vsyncVars, switches, unmarshalled, willHaveCachedData,
                 cachedDeps, umAsks, needWait, finished, deps, known, lastIndex, waited, historyVars>>

(* WaitUntilUnmarshallingTaskFinished. *)

\* Mutant: the flag is left as it is.
NoNeedToWaitAgain ==
  /\ pc = "wait"
  /\ ~needWait
  /\ pc' = "process"
  /\ UNCHANGED <<clientVars, vsyncVars, unmarshalVars, needWait, finished, deps, dataVars, historyVars>>

NoNeedToWait ==
  /\ pc = "wait"
  /\ ~needWait
  /\ needWait' = TRUE
  /\ pc' = "process"
  /\ UNCHANGED <<clientVars, vsyncVars, unmarshalVars, finished, deps, dataVars, historyVars>>

\* Mutant: the wait has no predicate.
BarrierWoken ==
  /\ pc = "wait"
  /\ needWait /\ ~parallel
  /\ finished' = finished - 1
  /\ pc' = "process"
  /\ UNCHANGED <<clientVars, vsyncVars, unmarshalVars, needWait, deps, dataVars, historyVars>>

BarrierPassed ==
  /\ pc = "wait"
  /\ needWait /\ ~parallel
  /\ finished > 0
  /\ finished' = finished - 1
  /\ pc' = "process"
  /\ UNCHANGED <<clientVars, vsyncVars, unmarshalVars, needWait, deps, dataVars, historyVars>>

TakeDeps ==
  /\ pc = "wait"
  /\ needWait /\ parallel
  /\ deps' = cachedDeps
  /\ cachedDeps' = {}
  /\ pc' = "deps"
  /\ UNCHANGED <<clientVars, vsyncVars, switches, tasks, unmarshalled,
                 willHaveCachedData, umAsks, needWait, finished, dataVars, historyVars>>

DepsDone ==
  /\ pc = "deps"
  /\ \A k \in DOMAIN tasks : <<tasks[k].pid, tasks[k].idx>> \notin deps
  /\ TakeUnmarshalled
  /\ deps' = {}
  /\ pc' = "process"
  /\ UNCHANGED <<clientVars, vsyncVars, switches, tasks, cachedDeps, umAsks, needWait,
                 finished, cached, known, lastIndex, waited, historyVars>>

-----------------------------------------------------------------------------
(* ProcessCommandForUniRender.                                             *)

\* CheckAndUpdateTransactionIndex looks at the data in order of index: "last"
\* is the index reached, "stop" that of the data it breaks at.
Begin(p) == [last |-> lastIndex[p], wait |-> waited[p], stop |-> MaxIndex[p] + 1,
             skip |-> FALSE, late |-> FALSE]
Goes(w, p) == w.stop > MaxIndex[p]

TakeNext(w, p, i) ==
  IF <<p, i>> \in tooNew THEN [w EXCEPT !.stop = i, !.late = TRUE]
  ELSE [w EXCEPT !.last = i]
\* Mutant: each frame starts the wait anew.
TakeAfterGapAnew(w, i) ==
  IF w.wait > SKIP_COMMAND_FREQ_LIMIT
  THEN [w EXCEPT !.last = i, !.wait = NoWait, !.skip = TRUE]
  ELSE [w EXCEPT !.stop = i, !.wait = 0]

\* Mutant: the wait is not taken back when an index is skipped.
TakeAfterGapKeepingWait(w, i) ==
  LET wait == IF w.wait = NoWait THEN 0 ELSE w.wait
  IN IF wait > SKIP_COMMAND_FREQ_LIMIT
     THEN [w EXCEPT !.last = i, !.skip = TRUE]
     ELSE [w EXCEPT !.stop = i, !.wait = wait]

\* Data before it is missing, or came after it was skipped.
TakeAfterGap(w, i) ==
  LET wait == IF w.wait = NoWait THEN 0 ELSE w.wait
  IN IF wait > SKIP_COMMAND_FREQ_LIMIT
     THEN [w EXCEPT !.last = i, !.wait = NoWait, !.skip = TRUE]
     ELSE [w EXCEPT !.stop = i, !.wait = wait]

\* Mutant: any later index is the next one.
VisitLater(w, p, i) ==
  IF i > w.last THEN TakeNext(w, p, i) ELSE TakeAfterGap(w, i)

Visit(w, p, i) ==
  IF i = w.last + 1 THEN TakeNext(w, p, i) ELSE TakeAfterGap(w, i)

Advance(w, p, i) ==
  IF Goes(w, p) /\ i \in effective[p] THEN Visit(w, p, i) ELSE w

Walk(p) ==
  LET walk[i \in 0..MaxIndex[p]] ==
        IF i = 0 THEN Begin(p) ELSE Advance(walk[i - 1], p, i)
  IN walk[MaxIndex[p]]

\* Mutant: whoever sent the command asks for vsync again.
NoRequestForCachedCommand(walk) == UNCHANGED asked

RequestNextVsyncForCachedCommand(walk) ==
  asked' = (asked \/ (uiDvsyncOn /\ \E p \in Process : walk[p].late))

ProcessCommand ==
  /\ pc = "process"
  /\ LET walk == [p \in Process |-> Walk(p)]
         passed == [p \in Process |-> {i \in effective[p] : i < walk[p].stop}]
     IN /\ effective' = [p \in Process |-> effective[p] \ passed[p]]
        /\ lastIndex' = [p \in Process |-> walk[p].last]
        /\ waited' = [p \in Process |-> walk[p].wait]
        /\ applied' = [p \in Process |-> applied[p] \cup passed[p]]
        /\ skipped' = skipped \cup {p \in Process : walk[p].skip}
        /\ putOff' = {p \in Process : walk[p].late /\ ~uiDvsyncOn}
        /\ RequestNextVsyncForCachedCommand(walk)
  /\ pc' = "render"
  /\ UNCHANGED <<clientVars, pulse, tooNew, unmarshalVars, needWait, finished, deps,
                 cached, known>>

\* The rest of the frame.  Unless the next pulse is on its way it will be later
\* than all stamps there are.
Render ==
  /\ pc = "render"
  /\ tooNew' = IF pulse THEN tooNew ELSE {}
  /\ pc' = "idle"
  /\ UNCHANGED <<clientVars, asked, pulse, unmarshalVars, needWait, finished, deps, dataVars,
                 historyVars>>

\* A task of CleanAll: the client has died.
ClearTransactionDataPidInfo(p) ==
  /\ pc = "idle"
  /\ p \in known
  /\ known' = known \ {p}
  /\ effective' = [effective EXCEPT ![p] = {}]
  /\ lastIndex' = [lastIndex EXCEPT ![p] = 0]
  /\ waited' = [waited EXCEPT ![p] = NoWait]
  /\ UNCHANGED <<clientVars, vsyncVars, unmarshalVars, frameVars, cached, historyVars>>

-----------------------------------------------------------------------------
BinderStep(p) ==
  \/ RecvRSTransactionData(p)
  \/ \E size \in {"posted", "pending"} : RecvParcel(p, size)
  \/ MarkCachedData(p)
  \/ RequestNextVSync(p)

UnmarshalStep ==
  \/ \E k \in DOMAIN tasks : Unmarshal(k)
  \/ RunBarrier
  \/ UnmarshalAsks

FrameStep ==
  \/ CheckUnmarshalled
  \/ NoNeedToWait
  \/ BarrierPassed
  \/ TakeDeps
  \/ DepsDone
  \/ ProcessCommand
  \/ Render

Next ==
  \/ \E p \in Process : LoseParcel(p) \/ BinderStep(p)
  \/ UnmarshalStep
  \/ \E n \in 1..MaxWait : Pulse(n)
  \/ OtherRequest
  \/ OnVsync
  \/ ForceRefreshForUni
  \/ FrameStep
  \/ \E p \in Process : ClearTransactionDataPidInfo(p)

Spec == Init /\ [][Next]_vars

\* Threads run on, and a pulse follows a request.
\* The main looper serves the socket again and again between posted tasks.
Fairness ==
  /\ \A p \in Process : WF_vars(MarkCachedData(p) \/ RequestNextVSync(p))
  /\ WF_vars(UnmarshalStep)
  /\ WF_vars(\E n \in 1..MaxWait : Pulse(n))
  /\ SF_vars(OnVsync)
  /\ WF_vars(FrameStep)

FairSpec == Spec /\ Fairness

-----------------------------------------------------------------------------
(* Properties.                                                             *)

Posted(p) == {tasks[k].idx : k \in {j \in DOMAIN tasks : tasks[j] # Barrier /\ tasks[j].pid = p}}

Places(p) == <<lost[p], Posted(p), unmarshalled[p], cached[p], effective[p], applied[p]>>

\* Every transaction a connected client has sent is in one place at a time: it is
\* neither dropped nor executed twice, whichever of the two maps it comes
\* through, and however they are emptied.
EachInOnePlace ==
  \A p \in known :
    /\ UNION {Places(p)[k] : k \in 1..6} = 1..index[p]
    /\ \A j, k \in 1..6 : j # k => Places(p)[j] \cap Places(p)[k] = {}

Barriers == {k \in DOMAIN tasks : tasks[k] = Barrier}

\* The main thread waits for a barrier when, and only when, one is posted or has
\* been passed: a count left over would let a later frame go on before its data
\* is there, a missing one would stop the main thread for good.
BarrierMatches ==
  finished + Cardinality(Barriers)
    = IF pc = "wait" /\ needWait /\ ~parallel THEN 1 ELSE 0

\* Until an index is skipped, what has been executed of a client is all it sent
\* up to the index reached: nothing is executed before what was sent before it,
\* though threads and sizes of parcels make it come in any order.
InOrderUntilSkip ==
  \A p \in known \ skipped : applied[p] = 1..lastIndex[p]

\* What the service has of a client and has not executed.
Here(p) ==
  effective[p] \cup
    IF p \in known THEN Posted(p) \cup unmarshalled[p] \cup cached[p] ELSE {}

Service == INSTANCE TransactionService
  WITH Client <- Process, connected <- known, sent <- index,
       here <- [p \in Process |-> Here(p)], done <- applied, reached <- lastIndex,
       overdue <- {p \in Process : waited[p] > SKIP_COMMAND_FREQ_LIMIT}

\* The binder threads, RSUnmarshalThread and the main thread, with their maps,
\* barriers and waits, keep the promises of TransactionService: nothing handed
\* over is dropped, changed or executed twice, nothing is kept of a client that
\* is gone, and a frame leaves no gap but one, for a client whose wait is over.
ImplementsService == Service!Spec

\* A client that is gone leaves nothing behind that another transaction of it,
\* still on its way, would add to.
GoneIsForgotten ==
  \A p \in Process \ known : effective[p] = {} /\ waited[p] = NoWait

\* A frame that has begun ends: the main thread never waits for a barrier, or
\* for tasks, in vain.
FrameEnds == []<>(pc = "idle")

\* All transactions up to i are with the main thread or done.
Deliverable(p, i) ==
  /\ p \in known
  /\ 1..i \subseteq cached[p] \cup effective[p] \cup applied[p]

\* p's next transaction was too new for the last frame, no vsync was asked for
\* again, and nothing else brings one.
WaitsForVsync(p) == p \in putOff /\ ~pulse

\* They are executed, without any further transaction, touch or animation to
\* wake the main thread: who hands one over asks for vsync.  A frame for which
\* one is too new (stamped as late as the frame) asks again, but only with DVsync
\* on, or in the emulator; otherwise the one put off is executed only if it does
\* not wait for ever for a frame that something else brings.
DeliverableApplied ==
  \A p \in Process :
    []<>~WaitsForVsync(p) =>
      \A i \in 1..MaxIndex[p] :
        Deliverable(p, i) ~> i \in applied[p] \/ p \notin known \/ p \in skipped

\* As long as vsync goes on, what waits for a missing index does not wait for
\* ever: the wait is counted from frame to frame until the gap is skipped.
GapEnds ==
  []<>pulse =>
    \A p \in Process : \A i \in 1..MaxIndex[p] : []<>(i \notin effective[p])

\* CachedTransactionDataEmpty: "we need consider both whether
\* cachedTransactionDataMap_ is empty now and whether cachedTransactionDataMap_
\* will be empty later" (rs_unmarshal_thread.cpp:124), so that a frame waits for
\* data that is about to come.  Then a frame follows all data unmarshalled: one
\* is running, on its way, or about to be asked for.
UnmarshalledHasFrame ==
  \A p \in known : unmarshalled[p] # {} =>
    \/ asked \/ pulse \/ umAsks \/ pc # "idle"
    \/ \E q \in Process : ipc[q] # Idle
=============================================================================
