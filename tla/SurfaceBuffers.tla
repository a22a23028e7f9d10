--------------------------- MODULE SurfaceBuffers ---------------------------
(***************************************************************************)
(* The buffers of one surface node that can be a hardware layer, passed    *)
(* along the three threads whose hand-over FramePipeline describes.        *)
(*                                                                         *)
(* The main thread acquires a buffer from the node's queue; the buffer it  *)
(* replaces has to be released, once and not before the screen shows the   *)
(* new one.  The replaced buffer is named in up to four places: the node's *)
(* RSSurfaceHandler, its staging parameters, its render parameters and the *)
(* layer of a commit.  It is released by the hardware thread after the     *)
(* commit that carries it (HdiOutput::ReleaseLayers), or, when the node is *)
(* drawn by the GPU or got no layer, by the UniRender thread at the end of *)
(* a frame (ReleaseSelfDrawingNodeBuffer), at once or through the hardware *)
(* thread's queue.                                                         *)
(*                                                                         *)
(* The buffer queue itself is external: releasing a buffer that is not     *)
(* acquired fails and changes nothing.  Left out are buffers held back     *)
(* (hold buffer, buffer cache), buffers cleared on OnCleanCache, dropped   *)
(* frames and nodes whose synchronisation UIFirst skips.                   *)
(***************************************************************************)
EXTENDS FramePipeline, Sequences, Functions

CONSTANTS
    Buffer,        \* the buffers of the node's queue
    None,          \* a null pointer
    ReleaseTasks,  \* RELEASE_IN_HARDWARE_THREAD_TASK_NUM
    MaxOthers      \* bound: direct frames in which only other nodes changed

ASSUME BufferAssumption ==
    None \notin Buffer /\ ReleaseTasks \in Nat /\ MaxOthers \in Nat

VARIABLES
    free,       \* buffers that are the producer's
    queue,      \* buffers filled and not acquired yet, oldest first
    handler,    \* RSSurfaceHandler's buffer_ and preBuffer_
    node,       \* what the node itself remembers
    staged,     \* its staging parameters
    drawn,      \* its render parameters, the UniRender thread's
    ownLayer,   \* the node's layer in a direct frame not yet committed
    drawnLayer, \* the same in a drawn frame
    work,       \* the hardware thread's queue, with its release tasks
    shown,      \* the buffer of the layer the screen shows
    others,     \* direct frames in which only other nodes changed
    reused,     \* history: a buffer replaced earlier was put in a layer again
    disordered  \* history: a frame handed over was not drawn, or committed
                \* after a later one

history == <<others, reused, disordered>>
bufferVars == <<free, queue, handler, node, staged, drawn, ownLayer, drawnLayer,
                work, shown, history>>
vars == <<pipeVars, bufferVars>>

NullLayer == [buffer |-> None, pre |-> None]

Acquired == Buffer \ (free \cup Range(queue))

\* What IConsumerSurface::ReleaseBuffer leaves free.
Released(b) == IF b \in Acquired THEN free \cup {b} ELSE free

Init ==
    /\ PInit
    /\ free = Buffer /\ queue = <<>>
    /\ handler = NullLayer
    /\ node = [onTree |-> FALSE, enabled |-> FALSE]
    /\ staged = [pre |-> None, dirty |-> FALSE, lastEnabled |-> FALSE]
    /\ drawn = [buffer |-> None, pre |-> None, listed |-> FALSE,
                enabled |-> FALSE, lastEnabled |-> FALSE, created |-> FALSE,
                tasks |-> 0]
    /\ ownLayer = NullLayer /\ drawnLayer = NullLayer
    /\ work = <<>> /\ shown = None
    /\ others = 0 /\ reused = FALSE /\ disordered = FALSE

-----------------------------------------------------------------------------
\* The producer fills a buffer and gives it back.
FlushBuffer(b) ==
    /\ b \in free
    /\ free' = free \ {b}
    /\ queue' = Append(queue, b)
    /\ UNCHANGED <<pipeVars, handler, node, staged, drawn, ownLayer,
                   drawnLayer, work, shown, history>>

\* The node is one of hardwareEnabledNodes_: on the tree, with a buffer.
Listed == node.onTree /\ handler.buffer # None

\* The start of a frame for this node.  A buffer that is there is acquired,
\* its predecessor goes to the handler's preBuffer_ and the staging
\* parameters (ConsumeAndUpdateAllNodes); commands may put the node on the
\* tree or take it off, which forbids direct composition; then
\* CollectInfoForHardwareComposer looks at it: a consumed buffer must be drawn
\* if the node is no layer (whatever else forbids direct composition is left
\* open), and off the tree the node stops being one.
StartFrame(forbidden, other, onTree) ==
    LET consumed == queue # <<>>
        offTree == consumed /\ ~onTree
        onlyOther == other /\ ~forbidden /\ ~(onTree /\ consumed)
    IN  /\ others' = others + IF onlyOther THEN 1 ELSE 0
        /\ others' =< MaxOthers
        /\ offTree \/ (consumed /\ ~node.enabled) \/ onTree # node.onTree
           => forbidden
        /\ Start(forbidden, other \/ (onTree /\ consumed))
        /\ queue' = IF consumed THEN Tail(queue) ELSE queue
        /\ handler' = IF consumed
                      THEN [buffer |-> Head(queue), pre |-> handler.buffer]
                      ELSE handler
        /\ node' = [onTree |-> onTree, enabled |-> node.enabled /\ ~offTree]
        /\ staged' =
             [pre |-> IF consumed THEN handler.buffer ELSE staged.pre,
              dirty |-> staged.dirty \/ consumed,
              lastEnabled |-> IF offTree THEN node.enabled
                                         ELSE staged.lastEnabled]
        /\ UNCHANGED <<free, drawn, ownLayer, drawnLayer, work, shown, reused,
                       disordered>>

\* QuickPrepare of a full frame decides anew whether the node is a layer
\* (UpdateHwcNodeLayerInfo).
FullFrame(enabled) ==
    /\ HandOver
    /\ IF Listed
       THEN /\ node' = [node EXCEPT !.enabled = enabled]
            /\ staged' = [staged EXCEPT !.lastEnabled = node.enabled]
       ELSE ~enabled /\ UNCHANGED <<node, staged>>
    /\ UNCHANGED <<free, queue, handler, drawn, ownLayer, drawnLayer, work,
                   shown, history>>

\* The node's layer in a direct frame: its buffers are the handler's, and what
\* the staging parameters name as replaced is forgotten
\* (RSUniRenderProcessor::CreateLayer).
CreateLayer ==
    /\ MakeLayers
    /\ IF Listed /\ node.enabled
       THEN /\ ownLayer' = handler
            /\ staged' = [staged EXCEPT !.pre = None, !.dirty = TRUE]
            /\ reused' = \/ reused
                         \/ /\ handler.pre # None
                            /\ ~(staged.dirty /\ staged.pre = handler.pre)
       ELSE /\ ownLayer' = NullLayer
            /\ UNCHANGED <<staged, reused>>
    /\ UNCHANGED <<free, queue, handler, node, drawn, drawnLayer, work, shown,
                   others, disordered>>

\* RSSurfaceRenderParams::OnSync
OnSync ==
    /\ TakeOver
    /\ drawn' = [drawn EXCEPT
                   !.buffer = IF staged.dirty THEN handler.buffer ELSE @,
                   !.pre = IF staged.dirty THEN staged.pre ELSE @,
                   !.listed = Listed,
                   !.enabled = node.enabled,
                   !.lastEnabled = staged.lastEnabled]
    /\ staged' = [staged EXCEPT !.dirty = FALSE]
    /\ UNCHANGED <<free, queue, handler, node, ownLayer, drawnLayer, work,
                   shown, history>>

\* Mutant: it returns before it marks them.
DrawNothingUnmarked ==
    /\ NotDrawn
    /\ disordered' = TRUE
    /\ UNCHANGED <<free, queue, handler, node, staged, drawn, ownLayer,
                   drawnLayer, work, shown, others, reused>>

\* OnDraw first marks the listed nodes as having no layer, then returns.
DrawNothing ==
    /\ NotDrawn
    /\ drawn' = [drawn EXCEPT !.created = @ /\ ~drawn.listed]
    /\ disordered' = TRUE
    /\ UNCHANGED <<free, queue, handler, node, staged, ownLayer, drawnLayer,
                   work, shown, others, reused>>

\* Mutant: the render parameters still name the buffer the layer replaces.
OnDrawKeepingPre ==
    /\ Draw
    /\ IF drawn.listed /\ drawn.enabled /\ drawn.buffer # None
       THEN /\ drawnLayer' = [buffer |-> drawn.buffer, pre |-> drawn.pre]
            /\ drawn' = [drawn EXCEPT !.created = TRUE]
       ELSE /\ drawnLayer' = NullLayer
            /\ drawn' = [drawn EXCEPT !.created = @ /\ ~drawn.listed]
    /\ UNCHANGED <<free, queue, handler, node, staged, ownLayer, work, shown,
                   history>>

\* The node becomes a layer (CreateLayerForRenderThread) or the GPU draws it.
OnDraw ==
    /\ Draw
    /\ IF drawn.listed /\ drawn.enabled /\ drawn.buffer # None
       THEN /\ drawnLayer' = [buffer |-> drawn.buffer, pre |-> drawn.pre]
            /\ drawn' = [drawn EXCEPT !.pre = None, !.created = TRUE]
       ELSE /\ drawnLayer' = NullLayer
            /\ drawn' = [drawn EXCEPT !.created = @ /\ ~drawn.listed]
    /\ UNCHANGED <<free, queue, handler, node, staged, ownLayer, work, shown,
                   history>>

CommitOf(layer) ==
    [kind |-> "commit", pre |-> layer.pre, buffer |-> layer.buffer]
ReleaseOf(b) == [kind |-> "release", pre |-> b, buffer |-> None]

\* Mutant: the number below is not renewed.
TaskNumKept(gpu) == drawn.tasks

\* How many more releases of the node's buffers go through the hardware
\* thread's queue: as many as the frames that may still wait in it when the
\* node stops being a layer.
TaskNumFor(gpu) ==
    IF gpu /\ drawn.lastEnabled THEN ReleaseTasks ELSE drawn.tasks

\* Mutant: counted below zero.
CountedFurther(n) == n - 1

CountedDown(n) == IF n > 0 THEN n - 1 ELSE n

\* The end of a frame: the replaced buffer of a node the GPU draws, or of one
\* that got no layer.
ReleaseSelfDrawingNodeBuffer ==
    LET need == drawn.buffer # None /\ (~drawn.enabled \/ ~drawn.created)
        tasks == TaskNumFor(need)
        release == need /\ drawn.pre # None
    IN  /\ Release
        /\ drawn' = [drawn EXCEPT
                       !.listed = FALSE,
                       !.pre = IF need THEN None ELSE @,
                       !.tasks = IF need THEN CountedDown(tasks) ELSE @]
        /\ work' = IF release /\ tasks > 0
                   THEN Append(work, ReleaseOf(drawn.pre)) ELSE work
        /\ free' = IF release /\ tasks = 0 THEN Released(drawn.pre) ELSE free
        /\ UNCHANGED <<queue, handler, node, staged, ownLayer, drawnLayer,
                       shown, history>>

CommitDirectFrame ==
    /\ CommitDirect
    /\ work' = Append(work, CommitOf(ownLayer))
    /\ ownLayer' = NullLayer
    /\ disordered' = (disordered \/ render # "idle")
    /\ UNCHANGED <<free, queue, handler, node, staged, drawn, drawnLayer,
                   shown, others, reused>>

CommitDrawnFrame ==
    /\ CommitDrawn
    /\ work' = Append(work, CommitOf(drawnLayer))
    /\ drawnLayer' = NullLayer
    /\ UNCHANGED <<free, queue, handler, node, staged, drawn, ownLayer, shown,
                   history>>

\* The hardware thread shows the layers, then releases what they replace.
Execute ==
    /\ work # <<>> /\ Head(work).kind = "commit"
    /\ ExecuteCommit
    /\ shown' = Head(work).buffer
    /\ free' = Released(Head(work).pre)
    /\ work' = Tail(work)
    /\ UNCHANGED <<queue, handler, node, staged, drawn, ownLayer, drawnLayer,
                   history>>

\* The hardware thread runs a task of ReleaseSelfDrawingNodeBuffer.
ExecuteRelease ==
    /\ work # <<>> /\ Head(work).kind = "release"
    /\ free' = Released(Head(work).pre)
    /\ work' = Tail(work)
    /\ UNCHANGED <<pipeVars, queue, handler, node, staged, drawn, ownLayer,
                   drawnLayer, shown, history>>

Next ==
    \/ \E b \in Buffer : FlushBuffer(b)
    \/ \E forbidden, other, onTree \in BOOLEAN :
           StartFrame(forbidden, other, onTree)
    \/ (Skip \/ Direct) /\ UNCHANGED bufferVars
    \/ \E enabled \in BOOLEAN : FullFrame(enabled)
    \/ CreateLayer \/ OnSync \/ DrawNothing \/ OnDraw
    \/ ReleaseSelfDrawingNodeBuffer \/ CommitDirectFrame \/ CommitDrawnFrame
    \/ Execute \/ ExecuteRelease

Spec == Init /\ [][Next]_vars

-----------------------------------------------------------------------------
MaybeBuffer == Buffer \cup {None}
Layer == [buffer : MaybeBuffer, pre : MaybeBuffer]

NodeState == [onTree : BOOLEAN, enabled : BOOLEAN]
StagingParams == [pre : MaybeBuffer, dirty : BOOLEAN, lastEnabled : BOOLEAN]
RenderParams ==
    [buffer : MaybeBuffer, pre : MaybeBuffer, listed : BOOLEAN,
     enabled : BOOLEAN, lastEnabled : BOOLEAN, created : BOOLEAN,
     tasks : 0..ReleaseTasks]
Task == [kind : {"commit", "release"}, buffer : MaybeBuffer, pre : MaybeBuffer]

TypeOK ==
    /\ PTypeOK
    /\ free \in SUBSET Buffer /\ queue \in Seq(Buffer)
    /\ handler \in Layer /\ node \in NodeState /\ staged \in StagingParams
    /\ drawn \in RenderParams /\ ownLayer \in Layer /\ drawnLayer \in Layer
    /\ work \in Seq(Task) /\ shown \in MaybeBuffer
    /\ others \in 0..MaxOthers /\ reused \in BOOLEAN /\ disordered \in BOOLEAN

\* Where something will still release a buffer that was replaced.
AwaitsRelease ==
    {ownLayer.pre, drawnLayer.pre, drawn.pre}
    \cup {work[i].pre : i \in DOMAIN work}
    \cup (IF staged.dirty THEN {staged.pre} ELSE {})

\* No buffer is lost to the producer: one that is acquired is the node's
\* current buffer or is named where it will be released, whatever path the
\* frames take ("do not return before layer created set false, otherwise will
\* result in buffer not released").
NoBufferLost == Acquired \subseteq {handler.buffer} \cup AwaitsRelease

\* A buffer is not released twice: the node's current buffer is never given
\* back to the producer by a release that was meant for its earlier use ("to
\* avoid releasing the same buffer next frame in some situations").
CurrentHeld == handler.buffer # None => handler.buffer \in Acquired

\* The same, as long as no replaced buffer was put in a second layer.
CurrentHeldUnlessReused == ~reused => CurrentHeld

\* What the screen shows as a layer and what the GPU draws is not the
\* producer's to write: it stays acquired until another commit took its place.
\* Not so once a buffer was put in a second layer, a frame released its
\* buffers without a commit, or frames were committed out of order
\* (ReleaseLayers, releaseInHardwareThreadTaskNum_).
ShownHeld ==
    ~(reused \/ disordered) =>
        /\ shown # None => shown \in Acquired
        /\ render \in {"draw", "commit"} /\ drawn.buffer # None
           => drawn.buffer \in Acquired
=============================================================================
