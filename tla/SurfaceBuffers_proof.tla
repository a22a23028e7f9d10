------------------------ MODULE SurfaceBuffers_proof ------------------------
(***************************************************************************)
(* Proof that no buffer is lost to its producer (SurfaceBuffers), and that *)
(* none is released twice until a replaced one is put in a layer again,    *)
(* for any number of buffers, capacity of the hardware thread, number of   *)
(* release tasks and bound on the other nodes' frames.                     *)
(***************************************************************************)
EXTENDS SurfaceBuffers, TLAPS

-----------------------------------------------------------------------------
(* Sequences.                                                              *)

LEMMA RangeAppend ==
  ASSUME NEW S, NEW s \in Seq(S), NEW e
  PROVE  Range(Append(s, e)) = Range(s) \cup {e}
<1>1. ASSUME NEW x \in Range(Append(s, e)) PROVE x \in Range(s) \cup {e}
  <2>1. PICK i \in 1..(Len(s) + 1) : x = Append(s, e)[i]
    BY DEF Range
  <2>2. CASE i = Len(s) + 1
    BY <2>1, <2>2
  <2>3. CASE i # Len(s) + 1
    BY <2>1, <2>3 DEF Range
  <2> QED
    BY <2>2, <2>3
<1>2. ASSUME NEW x \in Range(s) PROVE x \in Range(Append(s, e))
  <2>1. PICK i \in 1..Len(s) : x = s[i]
    BY DEF Range
  <2>2. Append(s, e)[i] = x /\ i \in DOMAIN Append(s, e)
    BY <2>1
  <2> QED
    BY <2>2 DEF Range
<1>3. e \in Range(Append(s, e))
  <2>1. Append(s, e)[Len(s) + 1] = e /\ Len(s) + 1 \in DOMAIN Append(s, e)
    OBVIOUS
  <2> QED
    BY <2>1 DEF Range
<1> QED
  BY <1>1, <1>2, <1>3

LEMMA RangeTail ==
  ASSUME NEW S, NEW s \in Seq(S), s # <<>>
  PROVE  Range(s) = Range(Tail(s)) \cup {Head(s)}
<1>1. ASSUME NEW x \in Range(s) PROVE x \in Range(Tail(s)) \cup {Head(s)}
  <2>1. PICK i \in 1..Len(s) : x = s[i]
    BY DEF Range
  <2>2. CASE i = 1
    BY <2>1, <2>2
  <2>3. CASE i # 1
    <3>1. i - 1 \in DOMAIN Tail(s) /\ Tail(s)[i - 1] = x
      BY <2>1, <2>3
    <3> QED
      BY <3>1 DEF Range
  <2> QED
    BY <2>2, <2>3
<1>2. ASSUME NEW x \in Range(Tail(s)) PROVE x \in Range(s)
  <2>1. PICK i \in DOMAIN Tail(s) : x = Tail(s)[i]
    BY DEF Range
  <2>2. i + 1 \in DOMAIN s /\ s[i + 1] = x
    BY <2>1
  <2> QED
    BY <2>2 DEF Range
<1>3. Head(s) \in Range(s)
  <2>1. 1 \in DOMAIN s /\ s[1] = Head(s)
    OBVIOUS
  <2> QED
    BY <2>1 DEF Range
<1> QED
  BY <1>1, <1>2, <1>3
-----------------------------------------------------------------------------
(* Which steps change what.                                                *)

LEMMA FreeChanges ==
  [Next]_vars /\ free' # free =>
    \/ \E b \in Buffer : FlushBuffer(b)
    \/ ReleaseSelfDrawingNodeBuffer
    \/ Execute
    \/ ExecuteRelease
BY DEF Next, vars, bufferVars, history, StartFrame, FullFrame, CreateLayer,
       OnSync, DrawNothing, OnDraw, CommitDirectFrame, CommitDrawnFrame

LEMMA QueueChanges ==
  [Next]_vars /\ queue' # queue =>
    \/ \E b \in Buffer : FlushBuffer(b)
    \/ \E forbidden, other, onTree \in BOOLEAN :
          StartFrame(forbidden, other, onTree)
BY DEF Next, vars, bufferVars, history, FullFrame, CreateLayer, OnSync,
       DrawNothing, OnDraw, ReleaseSelfDrawingNodeBuffer, CommitDirectFrame,
       CommitDrawnFrame, Execute, ExecuteRelease

LEMMA HandlerChanges ==
  [Next]_vars /\ handler' # handler =>
    \/ \E forbidden, other, onTree \in BOOLEAN :
          StartFrame(forbidden, other, onTree)
BY DEF Next, vars, bufferVars, history, FlushBuffer, FullFrame, CreateLayer,
       OnSync, DrawNothing, OnDraw, ReleaseSelfDrawingNodeBuffer,
       CommitDirectFrame, CommitDrawnFrame, Execute, ExecuteRelease

LEMMA NodeChanges ==
  [Next]_vars /\ node' # node =>
    \/ \E forbidden, other, onTree \in BOOLEAN :
          StartFrame(forbidden, other, onTree)
    \/ \E enabled \in BOOLEAN : FullFrame(enabled)
BY DEF Next, vars, bufferVars, history, FlushBuffer, CreateLayer, OnSync,
       DrawNothing, OnDraw, ReleaseSelfDrawingNodeBuffer, CommitDirectFrame,
       CommitDrawnFrame, Execute, ExecuteRelease

LEMMA StagedChanges ==
  [Next]_vars /\ staged' # staged =>
    \/ \E forbidden, other, onTree \in BOOLEAN :
          StartFrame(forbidden, other, onTree)
    \/ \E enabled \in BOOLEAN : FullFrame(enabled)
    \/ CreateLayer
    \/ OnSync
BY DEF Next, vars, bufferVars, history, FlushBuffer, DrawNothing, OnDraw,
       ReleaseSelfDrawingNodeBuffer, CommitDirectFrame, CommitDrawnFrame,
       Execute, ExecuteRelease

LEMMA DrawnChanges ==
  [Next]_vars /\ drawn' # drawn =>
    \/ OnSync
    \/ DrawNothing
    \/ OnDraw
    \/ ReleaseSelfDrawingNodeBuffer
BY DEF Next, vars, bufferVars, history, FlushBuffer, StartFrame, FullFrame,
       CreateLayer, CommitDirectFrame, CommitDrawnFrame, Execute,
       ExecuteRelease

LEMMA OwnLayerChanges ==
  [Next]_vars /\ ownLayer' # ownLayer =>
    \/ CreateLayer
    \/ CommitDirectFrame
BY DEF Next, vars, bufferVars, history, FlushBuffer, StartFrame, FullFrame,
       OnSync, DrawNothing, OnDraw, ReleaseSelfDrawingNodeBuffer,
       CommitDrawnFrame, Execute, ExecuteRelease

LEMMA DrawnLayerChanges ==
  [Next]_vars /\ drawnLayer' # drawnLayer =>
    \/ OnDraw
    \/ CommitDrawnFrame
BY DEF Next, vars, bufferVars, history, FlushBuffer, StartFrame, FullFrame,
       CreateLayer, OnSync, DrawNothing, ReleaseSelfDrawingNodeBuffer,
       CommitDirectFrame, Execute, ExecuteRelease

LEMMA WorkChanges ==
  [Next]_vars /\ work' # work =>
    \/ ReleaseSelfDrawingNodeBuffer
    \/ CommitDirectFrame
    \/ CommitDrawnFrame
    \/ Execute
    \/ ExecuteRelease
BY DEF Next, vars, bufferVars, history, FlushBuffer, StartFrame, FullFrame,
       CreateLayer, OnSync, DrawNothing, OnDraw

LEMMA ShownChanges ==
  [Next]_vars /\ shown' # shown =>
    \/ Execute
BY DEF Next, vars, bufferVars, history, FlushBuffer, StartFrame, FullFrame,
       CreateLayer, OnSync, DrawNothing, OnDraw, ReleaseSelfDrawingNodeBuffer,
       CommitDirectFrame, CommitDrawnFrame, ExecuteRelease

LEMMA OthersChanges ==
  [Next]_vars /\ others' # others =>
    \/ \E forbidden, other, onTree \in BOOLEAN :
          StartFrame(forbidden, other, onTree)
BY DEF Next, vars, bufferVars, history, FlushBuffer, FullFrame, CreateLayer,
       OnSync, DrawNothing, OnDraw, ReleaseSelfDrawingNodeBuffer,
       CommitDirectFrame, CommitDrawnFrame, Execute, ExecuteRelease

LEMMA ReusedChanges ==
  [Next]_vars /\ reused' # reused =>
    \/ CreateLayer
BY DEF Next, vars, bufferVars, history, FlushBuffer, StartFrame, FullFrame,
       OnSync, DrawNothing, OnDraw, ReleaseSelfDrawingNodeBuffer,
       CommitDirectFrame, CommitDrawnFrame, Execute, ExecuteRelease

LEMMA DisorderedChanges ==
  [Next]_vars /\ disordered' # disordered =>
    \/ DrawNothing
    \/ CommitDirectFrame
BY DEF Next, vars, bufferVars, history, FlushBuffer, StartFrame, FullFrame,
       CreateLayer, OnSync, OnDraw, ReleaseSelfDrawingNodeBuffer,
       CommitDrawnFrame, Execute, ExecuteRelease

-----------------------------------------------------------------------------
(* Types.                                                                  *)

LEMMA InitTypes == Init => TypeOK
<1> SUFFICES ASSUME Init PROVE TypeOK
  OBVIOUS
<1>1. PTypeOK
  <2>1. PInit
    BY Zenon DEF Init
  <2>2. 0 \in 0..Capacity
    BY CapacityAssumption
  <2> QED
    BY <2>1, <2>2, Zenon DEF PInit, PTypeOK
<1> USE BufferAssumption DEF Init, MaybeBuffer
<1>2. free \in SUBSET Buffer /\ queue \in Seq(Buffer) /\ work \in Seq(Task)
  OBVIOUS
<1>3. node \in NodeState /\ staged \in StagingParams
  BY DEF NodeState, StagingParams
<1>4. drawn \in RenderParams
  BY DEF RenderParams
<1>5. handler \in Layer /\ ownLayer \in Layer /\ drawnLayer \in Layer
  BY DEF NullLayer, Layer
<1>6. others \in 0..MaxOthers
  <2>1. others = 0
    BY Zenon
  <2> HIDE DEF Init
  <2> QED
    BY <2>1
<1>7. shown \in MaybeBuffer /\ reused \in BOOLEAN /\ disordered \in BOOLEAN
  BY Zenon
<1> HIDE DEF Init, MaybeBuffer
<1> QED
  BY <1>1, <1>2, <1>3, <1>4, <1>5, <1>6, <1>7 DEF TypeOK

LEMMA PipeNext == PTypeOK /\ [Next]_vars => PTypeOK'
<1> SUFFICES ASSUME PTypeOK, [Next]_vars PROVE PTypeOK'
  OBVIOUS
<1> USE CapacityAssumption DEF PTypeOK, pipeVars
<1>1. ASSUME NEW b \in Buffer, FlushBuffer(b) PROVE PTypeOK'
  BY <1>1 DEF FlushBuffer
<1>2. ASSUME NEW forbidden \in BOOLEAN, NEW other \in BOOLEAN,
             NEW onTree \in BOOLEAN, StartFrame(forbidden, other, onTree)
      PROVE PTypeOK'
  BY <1>2 DEF StartFrame, Start
<1>3. CASE (Skip \/ Direct) /\ UNCHANGED bufferVars
  BY <1>3 DEF Skip, Direct
<1>4. ASSUME NEW enabled \in BOOLEAN, FullFrame(enabled) PROVE PTypeOK'
  BY <1>4 DEF FullFrame, HandOver
<1>5. CASE CreateLayer
  BY <1>5 DEF CreateLayer, MakeLayers
<1>6. CASE OnSync
  BY <1>6 DEF OnSync, TakeOver
<1>7. CASE DrawNothing
  BY <1>7 DEF DrawNothing, NotDrawn
<1>8. CASE OnDraw
  BY <1>8 DEF OnDraw, Draw
<1>9. CASE ReleaseSelfDrawingNodeBuffer
  BY <1>9 DEF ReleaseSelfDrawingNodeBuffer, Release
<1>10. CASE CommitDirectFrame
  BY <1>10 DEF CommitDirectFrame, CommitDirect
<1>11. CASE CommitDrawnFrame
  BY <1>11 DEF CommitDrawnFrame, CommitDrawn
<1>12. CASE Execute
  BY <1>12 DEF Execute, ExecuteCommit
<1>13. CASE ExecuteRelease
  BY <1>13 DEF ExecuteRelease
<1>14. CASE UNCHANGED vars
  BY <1>14 DEF vars
<1> QED
  BY <1>1, <1>2, <1>3, <1>4, <1>5, <1>6, <1>7, <1>8, <1>9, <1>10, <1>11, <1>12,
     <1>13, <1>14, Zenon DEF Next

LEMMA FreeType == TypeOK /\ [Next]_vars => free' \in SUBSET Buffer
<1> SUFFICES ASSUME TypeOK, [Next]_vars, free' # free
             PROVE free' \in SUBSET Buffer
  BY DEF TypeOK
<1> USE BufferAssumption DEF TypeOK, Released, Acquired
<1>1. ASSUME NEW b \in Buffer,
             FlushBuffer(b)
      PROVE free' \in SUBSET Buffer
  BY <1>1 DEF FlushBuffer
<1>2. CASE ReleaseSelfDrawingNodeBuffer
  BY <1>2 DEF ReleaseSelfDrawingNodeBuffer
<1>3. CASE Execute
  BY <1>3 DEF Execute
<1>4. CASE ExecuteRelease
  BY <1>4 DEF ExecuteRelease
<1> QED
  BY <1>1, <1>2, <1>3, <1>4, FreeChanges

LEMMA QueueType == TypeOK /\ [Next]_vars => queue' \in Seq(Buffer)
<1> SUFFICES ASSUME TypeOK, [Next]_vars, queue' # queue
             PROVE queue' \in Seq(Buffer)
  BY DEF TypeOK
<1> USE BufferAssumption DEF TypeOK
<1>1. ASSUME NEW b \in Buffer,
             FlushBuffer(b)
      PROVE queue' \in Seq(Buffer)
  BY <1>1 DEF FlushBuffer
<1>2. ASSUME NEW forbidden \in BOOLEAN, NEW other \in BOOLEAN,
             NEW onTree \in BOOLEAN,
             StartFrame(forbidden, other, onTree)
      PROVE queue' \in Seq(Buffer)
  BY <1>2 DEF StartFrame
<1> QED
  BY <1>1, <1>2, QueueChanges

LEMMA HandlerType == TypeOK /\ [Next]_vars => handler' \in Layer
<1> SUFFICES ASSUME TypeOK, [Next]_vars, handler' # handler
             PROVE handler' \in Layer
  BY DEF TypeOK
<1> USE BufferAssumption DEF TypeOK, Layer, MaybeBuffer
<1>1. ASSUME NEW forbidden \in BOOLEAN, NEW other \in BOOLEAN,
             NEW onTree \in BOOLEAN,
             StartFrame(forbidden, other, onTree)
      PROVE handler' \in Layer
  BY <1>1 DEF StartFrame
<1> QED
  BY <1>1, HandlerChanges

LEMMA NodeType == TypeOK /\ [Next]_vars => node' \in NodeState
<1> SUFFICES ASSUME TypeOK, [Next]_vars, node' # node
             PROVE node' \in NodeState
  BY DEF TypeOK
<1> USE BufferAssumption DEF TypeOK, NodeState
<1>1. ASSUME NEW forbidden \in BOOLEAN, NEW other \in BOOLEAN,
             NEW onTree \in BOOLEAN,
             StartFrame(forbidden, other, onTree)
      PROVE node' \in NodeState
  BY <1>1 DEF StartFrame
<1>2. ASSUME NEW enabled \in BOOLEAN,
             FullFrame(enabled)
      PROVE node' \in NodeState
  BY <1>2 DEF FullFrame
<1> QED
  BY <1>1, <1>2, NodeChanges

LEMMA StagedType == TypeOK /\ [Next]_vars => staged' \in StagingParams
<1> SUFFICES ASSUME TypeOK, [Next]_vars, staged' # staged
             PROVE staged' \in StagingParams
  BY DEF TypeOK
<1> USE BufferAssumption
    DEF TypeOK, StagingParams, Layer, MaybeBuffer, NodeState
<1>1. ASSUME NEW forbidden \in BOOLEAN, NEW other \in BOOLEAN,
             NEW onTree \in BOOLEAN,
             StartFrame(forbidden, other, onTree)
      PROVE staged' \in StagingParams
  BY <1>1 DEF StartFrame
<1>2. ASSUME NEW enabled \in BOOLEAN,
             FullFrame(enabled)
      PROVE staged' \in StagingParams
  BY <1>2 DEF FullFrame
<1>3. CASE CreateLayer
  BY <1>3 DEF CreateLayer
<1>4. CASE OnSync
  BY <1>4 DEF OnSync
<1> QED
  BY <1>1, <1>2, <1>3, <1>4, StagedChanges

LEMMA DrawnType == TypeOK /\ [Next]_vars => drawn' \in RenderParams
<1> SUFFICES ASSUME TypeOK, [Next]_vars, drawn' # drawn
             PROVE drawn' \in RenderParams
  BY DEF TypeOK
<1> USE BufferAssumption
    DEF TypeOK, RenderParams, StagingParams, Layer, MaybeBuffer, NodeState,
        Listed, TaskNumFor, CountedDown
<1>1. CASE OnSync
  BY <1>1 DEF OnSync
<1>2. CASE DrawNothing
  BY <1>2 DEF DrawNothing
<1>3. CASE OnDraw
  <2>1. drawn \in RenderParams
    BY DEF TypeOK
  <2>2. \/ drawn' = [drawn EXCEPT !.pre = None, !.created = TRUE]
        \/ drawn' = [drawn EXCEPT !.created = @ /\ ~drawn.listed]
    BY <1>3, Zenon DEF OnDraw
  <2> QED
    BY <2>1, <2>2
<1>4. CASE ReleaseSelfDrawingNodeBuffer
  <2>1. PICK need \in BOOLEAN, n \in 0..ReleaseTasks :
          drawn' = [drawn EXCEPT !.listed = FALSE,
                                 !.pre = IF need THEN None ELSE @,
                                 !.tasks = IF need THEN CountedDown(n) ELSE @]
    <3> DEFINE need == drawn.buffer # None /\ (~drawn.enabled \/ ~drawn.created)
    <3>1. need \in BOOLEAN
      OBVIOUS
    <3>2. TaskNumFor(need) \in 0..ReleaseTasks
      OBVIOUS
    <3> QED
      BY <1>4, <3>1, <3>2, Zenon DEF ReleaseSelfDrawingNodeBuffer
  <2>2. CountedDown(n) \in 0..ReleaseTasks
    OBVIOUS
  <2> HIDE DEF CountedDown
  <2> QED
    BY <2>1, <2>2
<1> QED
  BY <1>1, <1>2, <1>3, <1>4, DrawnChanges

LEMMA OwnLayerType == TypeOK /\ [Next]_vars => ownLayer' \in Layer
<1> SUFFICES ASSUME TypeOK, [Next]_vars, ownLayer' # ownLayer
             PROVE ownLayer' \in Layer
  BY DEF TypeOK
<1> USE BufferAssumption DEF TypeOK, Layer, MaybeBuffer, NullLayer
<1>1. CASE CreateLayer
  <2>1. ownLayer' = handler \/ ownLayer' = NullLayer
    BY <1>1, Zenon DEF CreateLayer
  <2> QED
    BY <2>1
<1>2. CASE CommitDirectFrame
  BY <1>2 DEF CommitDirectFrame
<1> QED
  BY <1>1, <1>2, OwnLayerChanges

LEMMA DrawnLayerType == TypeOK /\ [Next]_vars => drawnLayer' \in Layer
<1> SUFFICES ASSUME TypeOK, [Next]_vars, drawnLayer' # drawnLayer
             PROVE drawnLayer' \in Layer
  BY DEF TypeOK
<1> USE BufferAssumption DEF TypeOK, Layer, RenderParams, MaybeBuffer, NullLayer
<1>1. CASE OnDraw
  BY <1>1 DEF OnDraw
<1>2. CASE CommitDrawnFrame
  BY <1>2 DEF CommitDrawnFrame
<1> QED
  BY <1>1, <1>2, DrawnLayerChanges

LEMMA WorkType == TypeOK /\ [Next]_vars => work' \in Seq(Task)
<1> SUFFICES ASSUME TypeOK, [Next]_vars, work' # work
             PROVE work' \in Seq(Task)
  BY DEF TypeOK
<1> USE BufferAssumption
    DEF TypeOK, Task, CommitOf, ReleaseOf, Layer, RenderParams, MaybeBuffer
<1>1. CASE ReleaseSelfDrawingNodeBuffer
  <2>1. work' = work \/ work' = Append(work, ReleaseOf(drawn.pre))
    BY <1>1, Zenon DEF ReleaseSelfDrawingNodeBuffer
  <2>2. ReleaseOf(drawn.pre) \in Task
    OBVIOUS
  <2>3. work \in Seq(Task)
    OBVIOUS
  <2> HIDE DEF TypeOK, Task, ReleaseOf
  <2> QED
    BY <2>1, <2>2, <2>3
<1>2. CASE CommitDirectFrame
  BY <1>2 DEF CommitDirectFrame
<1>3. CASE CommitDrawnFrame
  BY <1>3 DEF CommitDrawnFrame
<1>4. CASE Execute
  BY <1>4 DEF Execute
<1>5. CASE ExecuteRelease
  BY <1>5 DEF ExecuteRelease
<1> QED
  BY <1>1, <1>2, <1>3, <1>4, <1>5, WorkChanges

LEMMA ShownType == TypeOK /\ [Next]_vars => shown' \in MaybeBuffer
<1> SUFFICES ASSUME TypeOK, [Next]_vars, shown' # shown
             PROVE shown' \in MaybeBuffer
  BY DEF TypeOK
<1> USE BufferAssumption DEF TypeOK, Task
<1>1. CASE Execute
  <2>1. work # <<>> /\ shown' = Head(work).buffer
    BY <1>1, Zenon DEF Execute
  <2>2. Head(work) \in Task
    <3>1. work \in Seq(Task)
      OBVIOUS
    <3> HIDE DEF TypeOK, Task
    <3> QED
      BY <2>1, <3>1
  <2> QED
    BY <2>1, <2>2
<1> QED
  BY <1>1, ShownChanges

LEMMA OthersType == TypeOK /\ [Next]_vars => others' \in 0..MaxOthers
<1> SUFFICES ASSUME TypeOK, [Next]_vars, others' # others
             PROVE others' \in 0..MaxOthers
  BY DEF TypeOK
<1> USE BufferAssumption DEF TypeOK
<1>1. ASSUME NEW forbidden \in BOOLEAN, NEW other \in BOOLEAN,
             NEW onTree \in BOOLEAN,
             StartFrame(forbidden, other, onTree)
      PROVE others' \in 0..MaxOthers
  BY <1>1 DEF StartFrame
<1> QED
  BY <1>1, OthersChanges

LEMMA ReusedType == TypeOK /\ [Next]_vars => reused' \in BOOLEAN
<1> SUFFICES ASSUME TypeOK, [Next]_vars, reused' # reused
             PROVE reused' \in BOOLEAN
  BY DEF TypeOK
<1> USE BufferAssumption DEF TypeOK
<1>1. CASE CreateLayer
  BY <1>1 DEF CreateLayer
<1> QED
  BY <1>1, ReusedChanges

LEMMA DisorderedType == TypeOK /\ [Next]_vars => disordered' \in BOOLEAN
<1> SUFFICES ASSUME TypeOK, [Next]_vars, disordered' # disordered
             PROVE disordered' \in BOOLEAN
  BY DEF TypeOK
<1> USE BufferAssumption DEF TypeOK
<1>1. CASE DrawNothing
  BY <1>1 DEF DrawNothing
<1>2. CASE CommitDirectFrame
  BY <1>2 DEF CommitDirectFrame
<1> QED
  BY <1>1, <1>2, DisorderedChanges

LEMMA TypesNext == TypeOK /\ [Next]_vars => TypeOK'
<1> SUFFICES ASSUME TypeOK, [Next]_vars PROVE TypeOK'
  OBVIOUS
<1>1. PTypeOK'
  BY PipeNext DEF TypeOK
<1> QED
  BY <1>1, FreeType, QueueType, HandlerType, NodeType, StagedType, DrawnType,
     OwnLayerType, DrawnLayerType, WorkType, ShownType, OthersType, ReusedType,
     DisorderedType DEF TypeOK
-----------------------------------------------------------------------------
(* What has been replaced is followed from place to place.                 *)

\* The staging parameters name a buffer that has still to be released.
Pending == staged.dirty /\ staged.pre # None

\* No place is overwritten while it names a buffer: a layer is made when there
\* is none, the staging parameters are handed on with the frame that filled
\* them, and the render parameters are emptied before the frame ends.
Followed ==
    /\ main \notin {"joined", "commit"} => ownLayer = NullLayer
    /\ render # "commit" => drawnLayer = NullLayer
    /\ Pending =>
         /\ main \in {"frame", "direct", "handed"}
         /\ staged.pre = handler.pre /\ handler.buffer # None
         /\ node.onTree \/ ~node.enabled
         /\ main = "frame" /\ doDirect => node.onTree /\ node.enabled /\ updated
         /\ main = "direct" => node.onTree /\ node.enabled
    /\ drawn.pre # None =>
         /\ render # "idle" /\ drawn.buffer # None
         /\ render = "draw" => drawn.listed \/ ~drawn.enabled
         /\ render \in {"commit", "release"} => ~drawn.enabled \/ ~drawn.created

LEMMA FollowedInit == Init => Followed
BY DEF Init, PInit, Followed, Pending

\* The types Followed needs.
Params ==
    /\ PTypeOK
    /\ queue \in Seq(Buffer)
    /\ handler \in Layer /\ node \in NodeState /\ staged \in StagingParams
    /\ drawn \in RenderParams

LEMMA FollowedNext == TypeOK /\ Followed /\ [Next]_vars => Followed'
<1> SUFFICES ASSUME TypeOK, Followed, [Next]_vars PROVE Followed'
  OBVIOUS
<1>0. Params /\ None \notin Buffer
  BY BufferAssumption DEF TypeOK, Params
<1> USE DEF Params, PTypeOK, Followed, Pending, NodeState, StagingParams,
        RenderParams, Layer, MaybeBuffer, NullLayer
<1>1. ASSUME NEW b \in Buffer, FlushBuffer(b) PROVE Followed'
  BY <1>0, <1>1 DEF FlushBuffer, pipeVars
<1>2. ASSUME NEW forbidden \in BOOLEAN, NEW other \in BOOLEAN,
             NEW onTree \in BOOLEAN, StartFrame(forbidden, other, onTree)
      PROVE Followed'
  BY <1>0, <1>2 DEF StartFrame, Start
<1>3. CASE (Skip \/ Direct) /\ UNCHANGED bufferVars
  BY <1>0, <1>3 DEF Skip, Direct, bufferVars
<1>4. ASSUME NEW enabled \in BOOLEAN, FullFrame(enabled) PROVE Followed'
  BY <1>0, <1>4 DEF FullFrame, HandOver, Listed
<1>5. CASE CreateLayer
  BY <1>0, <1>5 DEF CreateLayer, MakeLayers, Listed
<1>6. CASE OnSync
  BY <1>0, <1>6 DEF OnSync, TakeOver, Listed
<1>7. CASE DrawNothing
  BY <1>0, <1>7 DEF DrawNothing, NotDrawn
<1>8. CASE OnDraw
  BY <1>0, <1>8 DEF OnDraw, Draw
<1>9. CASE ReleaseSelfDrawingNodeBuffer
  BY <1>0, <1>9 DEF ReleaseSelfDrawingNodeBuffer, Release
<1>10. CASE CommitDirectFrame
  BY <1>0, <1>10 DEF CommitDirectFrame, CommitDirect
<1>11. CASE CommitDrawnFrame
  BY <1>0, <1>11 DEF CommitDrawnFrame, CommitDrawn
<1>12. CASE Execute
  BY <1>0, <1>12 DEF Execute, ExecuteCommit
<1>13. CASE ExecuteRelease
  BY <1>0, <1>13 DEF ExecuteRelease, pipeVars
<1>14. CASE UNCHANGED vars
  BY <1>0, <1>14 DEF vars, pipeVars, bufferVars
<1> QED
  BY <1>1, <1>2, <1>3, <1>4, <1>5, <1>6, <1>7, <1>8, <1>9, <1>10, <1>11, <1>12, <1>13, <1>14, Zenon DEF Next

-----------------------------------------------------------------------------
(* No buffer is lost.                                                      *)

Named(q) == {q[i].pre : i \in DOMAIN q}

LEMMA NamedAppend ==
  ASSUME NEW q \in Seq(Task), NEW e \in Task
  PROVE  Named(Append(q, e)) = Named(q) \cup {e.pre}
<1>1. ASSUME NEW x \in Named(Append(q, e)) PROVE x \in Named(q) \cup {e.pre}
  <2>1. PICK i \in 1..(Len(q) + 1) : x = Append(q, e)[i].pre
    BY DEF Named
  <2>2. CASE i = Len(q) + 1
    BY <2>1, <2>2
  <2>3. CASE i # Len(q) + 1
    BY <2>1, <2>3 DEF Named
  <2> QED
    BY <2>2, <2>3
<1>2. ASSUME NEW x \in Named(q) PROVE x \in Named(Append(q, e))
  <2>1. PICK i \in 1..Len(q) : x = q[i].pre
    BY DEF Named
  <2>2. Append(q, e)[i] = q[i] /\ i \in DOMAIN Append(q, e)
    BY <2>1
  <2> QED
    BY <2>1, <2>2 DEF Named
<1>3. e.pre \in Named(Append(q, e))
  <2>1. Append(q, e)[Len(q) + 1] = e /\ Len(q) + 1 \in DOMAIN Append(q, e)
    OBVIOUS
  <2> QED
    BY <2>1 DEF Named
<1> QED
  BY <1>1, <1>2, <1>3

LEMMA NamedTail ==
  ASSUME NEW q \in Seq(Task), q # <<>>
  PROVE  Named(q) \subseteq Named(Tail(q)) \cup {Head(q).pre}
<1> SUFFICES ASSUME NEW x \in Named(q)
             PROVE x \in Named(Tail(q)) \cup {Head(q).pre}
  OBVIOUS
<1>1. PICK i \in 1..Len(q) : x = q[i].pre
  BY DEF Named
<1>2. CASE i = 1
  BY <1>1, <1>2
<1>3. CASE i # 1
  <2>1. i - 1 \in DOMAIN Tail(q) /\ Tail(q)[i - 1] = q[i]
    BY <1>1, <1>3
  <2> QED
    BY <1>1, <2>1 DEF Named
<1> QED
  BY <1>2, <1>3

\* NoBufferLost of one buffer.
Kept(b) ==
    \/ b \in free \/ b \in Range(queue) \/ b = handler.buffer
    \/ b = ownLayer.pre \/ b = drawnLayer.pre \/ b = drawn.pre
    \/ b \in Named(work) \/ (staged.dirty /\ b = staged.pre)

LEMMA KeptIsNotLost == NoBufferLost <=> \A b \in Buffer : Kept(b)
BY DEF NoBufferLost, AwaitsRelease, Acquired, Kept, Named
LEMMA KeptNext ==
  ASSUME TypeOK, Followed, [Next]_vars, NEW c \in Buffer, Kept(c)
  PROVE  Kept(c)'
<1>0. /\ queue \in Seq(Buffer) /\ work \in Seq(Task)
      /\ staged \in StagingParams /\ drawn \in RenderParams
      /\ handler \in Layer /\ ownLayer \in Layer /\ drawnLayer \in Layer
      /\ None \notin Buffer
  BY BufferAssumption DEF TypeOK
<1>1. ASSUME NEW b \in Buffer, FlushBuffer(b) PROVE Kept(c)'
  <2>1. Range(queue)' = Range(queue) \cup {b} /\ free' = free \ {b}
    BY <1>0, <1>1, RangeAppend DEF FlushBuffer
  <2>2. UNCHANGED <<handler, staged, drawn, ownLayer, drawnLayer, work>>
    BY <1>1 DEF FlushBuffer
  <2> QED
    BY <2>1, <2>2 DEF Kept
<1>2. ASSUME NEW forbidden \in BOOLEAN, NEW other \in BOOLEAN,
             NEW onTree \in BOOLEAN, StartFrame(forbidden, other, onTree)
      PROVE Kept(c)'
  <2>1. CASE queue # <<>>
    <3>1. Range(queue) = Range(queue') \cup {handler'.buffer}
      BY <1>0, <1>2, <2>1, RangeTail DEF StartFrame
    <3>2. staged'.dirty /\ staged'.pre = handler.buffer
      BY <1>2, <2>1 DEF StartFrame
    <3>3. ~Pending
      BY <1>2 DEF StartFrame, Start, Followed
    <3>4. UNCHANGED <<free, drawn, ownLayer, drawnLayer, work>>
      BY <1>2 DEF StartFrame
    <3> QED
      BY <1>0, <3>1, <3>2, <3>3, <3>4 DEF Kept, Pending
  <2>2. CASE queue = <<>>
    <3>1. UNCHANGED <<queue, handler, free, drawn, ownLayer, drawnLayer, work>>
      BY <1>2, <2>2 DEF StartFrame
    <3>2. staged'.dirty = staged.dirty /\ staged'.pre = staged.pre
      BY <1>0, <1>2, <2>2 DEF StartFrame, StagingParams
    <3> QED
      BY <3>1, <3>2 DEF Kept
  <2> QED
    BY <2>1, <2>2
<1>3. CASE (Skip \/ Direct) /\ UNCHANGED bufferVars
  <2>1. UNCHANGED <<free, queue, handler, staged, drawn, ownLayer, drawnLayer,
                    work>>
    BY <1>3 DEF bufferVars
  <2> QED
    BY <2>1 DEF Kept
<1>4. ASSUME NEW enabled \in BOOLEAN, FullFrame(enabled) PROVE Kept(c)'
  <2>1. UNCHANGED <<queue, handler, free, drawn, ownLayer, drawnLayer, work>>
    BY <1>4 DEF FullFrame
  <2>2. staged'.dirty = staged.dirty /\ staged'.pre = staged.pre
    BY <1>0, <1>4 DEF FullFrame, StagingParams
  <2> QED
    BY <2>1, <2>2 DEF Kept
<1>5. CASE CreateLayer
  <2>1. ownLayer.pre = None /\ main = "direct"
    BY <1>5 DEF CreateLayer, MakeLayers, Followed, NullLayer
  <2>2. UNCHANGED <<queue, handler, free, drawn, drawnLayer, work>>
    BY <1>5 DEF CreateLayer
  <2>3. CASE Listed /\ node.enabled
    BY <1>0, <1>5, <2>1, <2>2, <2>3 DEF CreateLayer, Followed, Pending, Kept
  <2>4. CASE ~(Listed /\ node.enabled)
    BY <1>0, <1>5, <2>1, <2>2, <2>4 DEF CreateLayer, Kept
  <2> QED
    BY <2>3, <2>4
<1>6. CASE OnSync
  <2>1. drawn.pre = None
    BY <1>6 DEF OnSync, TakeOver, Followed
  <2>2. drawn'.pre = IF staged.dirty THEN staged.pre ELSE drawn.pre
    BY <1>0, <1>6 DEF OnSync, RenderParams
  <2>3. UNCHANGED <<queue, handler, free, ownLayer, drawnLayer, work>>
    BY <1>6 DEF OnSync
  <2> QED
    BY <1>0, <2>1, <2>2, <2>3 DEF Kept
<1>7. CASE DrawNothing
  <2>1. drawn'.pre = drawn.pre
    BY <1>0, <1>7 DEF DrawNothing, RenderParams
  <2>2. UNCHANGED <<queue, handler, free, staged, ownLayer, drawnLayer, work>>
    BY <1>7 DEF DrawNothing
  <2> QED
    BY <2>1, <2>2 DEF Kept
<1>8. CASE OnDraw
  <2>1. drawnLayer.pre = None
    BY <1>8 DEF OnDraw, Draw, Followed, NullLayer
  <2>2. UNCHANGED <<queue, handler, free, staged, ownLayer, work>>
    BY <1>8 DEF OnDraw
  <2>3. drawnLayer'.pre = drawn.pre \/ drawn'.pre = drawn.pre
    BY <1>0, <1>8 DEF OnDraw, RenderParams
  <2> QED
    BY <1>0, <2>1, <2>2, <2>3 DEF Kept
<1>9. CASE ReleaseSelfDrawingNodeBuffer
  <2>1. UNCHANGED <<queue, handler, staged, ownLayer, drawnLayer>>
    BY <1>9 DEF ReleaseSelfDrawingNodeBuffer
  <2>2. \/ drawn'.pre = drawn.pre /\ work' = work /\ free' = free
        \/ drawn.pre = None /\ work' = work /\ free' = free
        \/ work' = Append(work, ReleaseOf(drawn.pre)) /\ free' = free
        \/ free' = Released(drawn.pre) /\ work' = work
    <3>1. CASE drawn.pre = None
      BY <1>9, <3>1 DEF ReleaseSelfDrawingNodeBuffer
    <3>2. CASE drawn.pre # None
      <4> DEFINE need == drawn.buffer # None /\ (~drawn.enabled \/ ~drawn.created)
      <4>1. need
        BY <1>9, <3>2 DEF ReleaseSelfDrawingNodeBuffer, Release, Followed
      <4>2. TaskNumFor(need) > 0 \/ TaskNumFor(need) = 0
        BY <1>0, BufferAssumption DEF TaskNumFor, RenderParams
      <4>3. CASE TaskNumFor(need) > 0
        BY <1>9, <3>2, <4>1, <4>3 DEF ReleaseSelfDrawingNodeBuffer
      <4>4. CASE TaskNumFor(need) = 0
        BY <1>9, <3>2, <4>1, <4>4 DEF ReleaseSelfDrawingNodeBuffer
      <4> QED
        BY <4>2, <4>3, <4>4
    <3> QED
      BY <3>1, <3>2
  <2>3. CASE drawn'.pre = drawn.pre /\ work' = work /\ free' = free
    BY <2>1, <2>3 DEF Kept
  <2>4. CASE drawn.pre = None /\ work' = work /\ free' = free
    BY <1>0, <2>1, <2>4 DEF Kept
  <2>5. CASE work' = Append(work, ReleaseOf(drawn.pre)) /\ free' = free
    <3>1. ReleaseOf(drawn.pre) \in Task /\ ReleaseOf(drawn.pre).pre = drawn.pre
      BY <1>0 DEF ReleaseOf, Task, RenderParams, MaybeBuffer
    <3>2. Named(work') = Named(work) \cup {drawn.pre}
      BY <1>0, <2>5, <3>1, NamedAppend
    <3> QED
      BY <2>1, <2>5, <3>2 DEF Kept
  <2>6. CASE free' = Released(drawn.pre) /\ work' = work
    BY <2>1, <2>6 DEF Kept, Released, Acquired
  <2> QED
    BY <2>2, <2>3, <2>4, <2>5, <2>6
<1>10. CASE CommitDirectFrame
  <2>1. CommitOf(ownLayer) \in Task /\ CommitOf(ownLayer).pre = ownLayer.pre
    BY <1>0 DEF CommitOf, Task, Layer, MaybeBuffer
  <2>2. Named(work') = Named(work) \cup {ownLayer.pre}
    BY <1>0, <1>10, <2>1, NamedAppend DEF CommitDirectFrame
  <2>3. UNCHANGED <<queue, handler, free, staged, drawn, drawnLayer>>
    BY <1>10 DEF CommitDirectFrame
  <2> QED
    BY <2>2, <2>3 DEF Kept
<1>11. CASE CommitDrawnFrame
  <2>1. CommitOf(drawnLayer) \in Task /\ CommitOf(drawnLayer).pre = drawnLayer.pre
    BY <1>0 DEF CommitOf, Task, Layer, MaybeBuffer
  <2>2. Named(work') = Named(work) \cup {drawnLayer.pre}
    BY <1>0, <1>11, <2>1, NamedAppend DEF CommitDrawnFrame
  <2>3. UNCHANGED <<queue, handler, free, staged, drawn, ownLayer>>
    BY <1>11 DEF CommitDrawnFrame
  <2> QED
    BY <2>2, <2>3 DEF Kept
<1>12. CASE Execute
  <2>1. Named(work) \subseteq Named(work') \cup {Head(work).pre}
    BY <1>0, <1>12, NamedTail DEF Execute
  <2>2. free' = Released(Head(work).pre)
    BY <1>12 DEF Execute
  <2>3. UNCHANGED <<queue, handler, staged, drawn, ownLayer, drawnLayer>>
    BY <1>12 DEF Execute
  <2> QED
    BY <2>1, <2>2, <2>3 DEF Kept, Released, Acquired
<1>13. CASE ExecuteRelease
  <2>1. Named(work) \subseteq Named(work') \cup {Head(work).pre}
    BY <1>0, <1>13, NamedTail DEF ExecuteRelease
  <2>2. free' = Released(Head(work).pre)
    BY <1>13 DEF ExecuteRelease
  <2>3. UNCHANGED <<queue, handler, staged, drawn, ownLayer, drawnLayer>>
    BY <1>13 DEF ExecuteRelease
  <2> QED
    BY <2>1, <2>2, <2>3 DEF Kept, Released, Acquired
<1>14. CASE UNCHANGED vars
  <2>1. UNCHANGED <<free, queue, handler, staged, drawn, ownLayer, drawnLayer,
                    work>>
    BY <1>14 DEF vars, bufferVars
  <2> QED
    BY <2>1 DEF Kept
<1> QED
  BY <1>1, <1>2, <1>3, <1>4, <1>5, <1>6, <1>7, <1>8, <1>9, <1>10, <1>11, <1>12, <1>13, <1>14, Zenon DEF Next

-----------------------------------------------------------------------------
(* Each buffer is in one place, until a replaced one is put in a layer again. *)

QueuedOnce(b) ==
    \A i, j \in DOMAIN queue : queue[i] = b /\ queue[j] = b => i = j

NamedOnce(q, b) ==
    \A i, j \in DOMAIN q : q[i].pre = b /\ q[j].pre = b => i = j

InStaging(b) == staged.dirty /\ b = staged.pre

InRelease(b) ==
    \/ b = ownLayer.pre \/ b = drawnLayer.pre \/ b = drawn.pre
    \/ b \in Named(work) \/ InStaging(b)

\* At most one of the places of Kept has buffer b, and has it once.
InOnePlace(b) ==
    /\ QueuedOnce(b) /\ NamedOnce(work, b)
    /\ b \in free => b \notin Range(queue) /\ b # handler.buffer /\ ~InRelease(b)
    /\ b \in Range(queue) => b # handler.buffer /\ ~InRelease(b)
    /\ b = handler.buffer => ~InRelease(b)
    /\ b = ownLayer.pre
       => /\ b # drawnLayer.pre /\ b # drawn.pre
          /\ b \notin Named(work) /\ ~InStaging(b)
    /\ b = drawnLayer.pre
       => b # drawn.pre /\ b \notin Named(work) /\ ~InStaging(b)
    /\ b = drawn.pre => b \notin Named(work) /\ ~InStaging(b)
    /\ b \in Named(work) => ~InStaging(b)

Separate == ~reused => \A b \in Buffer : InOnePlace(b)

LEMMA QueuedOnceAppend ==
  ASSUME queue \in Seq(Buffer), NEW e \in Buffer, NEW b,
         queue' = Append(queue, e), QueuedOnce(b), e = b => b \notin Range(queue)
  PROVE  QueuedOnce(b)'
<1> SUFFICES ASSUME NEW i \in DOMAIN queue', NEW j \in DOMAIN queue',
                    queue'[i] = b, queue'[j] = b
             PROVE  i = j
  BY DEF QueuedOnce
<1>1. i \in 1..(Len(queue) + 1) /\ j \in 1..(Len(queue) + 1)
  OBVIOUS
<1>2. \A k \in 1..Len(queue) : queue'[k] = queue[k] /\ queue[k] \in Range(queue)
  BY DEF Range
<1>3. queue'[Len(queue) + 1] = e
  OBVIOUS
<1> QED
  BY <1>1, <1>2, <1>3 DEF QueuedOnce

LEMMA QueuedOnceTail ==
  ASSUME queue \in Seq(Buffer), queue # <<>>, NEW b,
         queue' = Tail(queue), QueuedOnce(b)
  PROVE  QueuedOnce(b)' /\ (b = Head(queue) => b \notin Range(queue'))
<1>1. \A k \in DOMAIN queue' : k + 1 \in DOMAIN queue /\ queue'[k] = queue[k + 1]
  OBVIOUS
<1>2. DOMAIN queue' \subseteq Nat \ {0} /\ 1 \in DOMAIN queue
  OBVIOUS
<1>3. QueuedOnce(b)'
  <2> SUFFICES ASSUME NEW i \in DOMAIN queue', NEW j \in DOMAIN queue',
                      queue'[i] = b, queue'[j] = b
               PROVE  i = j
    BY DEF QueuedOnce
  <2>1. i + 1 = j + 1
    BY <1>1 DEF QueuedOnce
  <2> QED
    BY <1>2, <2>1
<1>4. ASSUME b = Head(queue), b \in Range(queue') PROVE FALSE
  <2>1. PICK k \in DOMAIN queue' : queue'[k] = b
    BY <1>4 DEF Range
  <2>2. k + 1 = 1
    BY <1>1, <1>2, <1>4, <2>1 DEF QueuedOnce
  <2> QED
    BY <1>2, <2>2
<1> QED
  BY <1>3, <1>4

LEMMA NamedOnceAppend ==
  ASSUME NEW q \in Seq(Task), NEW e \in Task, NEW b,
         NamedOnce(q, b), e.pre = b => b \notin Named(q)
  PROVE  NamedOnce(Append(q, e), b)
<1> DEFINE r == Append(q, e)
<1> SUFFICES ASSUME NEW i \in DOMAIN r, NEW j \in DOMAIN r,
                    r[i].pre = b, r[j].pre = b
             PROVE  i = j
  BY DEF NamedOnce
<1>1. i \in 1..(Len(q) + 1) /\ j \in 1..(Len(q) + 1)
  OBVIOUS
<1>2. \A k \in 1..Len(q) : r[k] = q[k] /\ q[k].pre \in Named(q)
  BY DEF Named
<1>3. r[Len(q) + 1] = e
  OBVIOUS
<1> HIDE DEF r
<1> QED
  BY <1>1, <1>2, <1>3 DEF NamedOnce

LEMMA NamedOnceTail ==
  ASSUME NEW q \in Seq(Task), q # <<>>, NEW b, NamedOnce(q, b)
  PROVE  /\ NamedOnce(Tail(q), b)
         /\ b = Head(q).pre => b \notin Named(Tail(q))
         /\ Named(q) = Named(Tail(q)) \cup {Head(q).pre}
<1> DEFINE r == Tail(q)
<1>1. \A k \in DOMAIN r : k + 1 \in DOMAIN q /\ r[k] = q[k + 1]
  OBVIOUS
<1>2. DOMAIN r \subseteq Nat \ {0} /\ 1 \in DOMAIN q /\ q[1] = Head(q)
  OBVIOUS
<1> HIDE DEF r
<1>3. NamedOnce(r, b)
  <2> SUFFICES ASSUME NEW i \in DOMAIN r, NEW j \in DOMAIN r,
                      r[i].pre = b, r[j].pre = b
               PROVE  i = j
    BY DEF NamedOnce
  <2>1. i + 1 = j + 1
    BY <1>1 DEF NamedOnce
  <2> QED
    BY <1>2, <2>1
<1>4. ASSUME b = Head(q).pre, b \in Named(r) PROVE FALSE
  <2>1. PICK k \in DOMAIN r : r[k].pre = b
    BY <1>4 DEF Named
  <2>2. k + 1 = 1
    BY <1>1, <1>2, <1>4, <2>1 DEF NamedOnce
  <2> QED
    BY <1>2, <2>2
<1>5. Named(r) \subseteq Named(q) /\ Head(q).pre \in Named(q)
  BY <1>1, <1>2 DEF Named
<1>6. Named(q) \subseteq Named(r) \cup {Head(q).pre}
  BY NamedTail DEF r
<1> QED
  BY <1>3, <1>4, <1>5, <1>6 DEF r

\* Where a buffer is depends only on these.
LEMMA OnePlaceStays ==
  ASSUME NEW c, InOnePlace(c), queue' = queue, handler' = handler,
         free' = free, work' = work, ownLayer'.pre = ownLayer.pre,
         drawnLayer'.pre = drawnLayer.pre, drawn'.pre = drawn.pre,
         staged'.dirty = staged.dirty, staged'.pre = staged.pre
  PROVE  InOnePlace(c)'
BY DEF InOnePlace, QueuedOnce, NamedOnce, InRelease, InStaging, Named

LEMMA OnePlaceNext ==
  ASSUME TypeOK, Followed, [Next]_vars, ~reused', NEW c \in Buffer,
         InOnePlace(c)
  PROVE  InOnePlace(c)'
<1>0. /\ queue \in Seq(Buffer) /\ work \in Seq(Task)
      /\ staged \in StagingParams /\ drawn \in RenderParams
      /\ handler \in Layer /\ ownLayer \in Layer /\ drawnLayer \in Layer
      /\ free \in SUBSET Buffer /\ c # None
  BY BufferAssumption DEF TypeOK
<1>1. ASSUME NEW b \in Buffer, FlushBuffer(b) PROVE InOnePlace(c)'
  <2>1. Range(queue)' = Range(queue) \cup {b} /\ free' = free \ {b} /\ b \in free
    BY <1>0, <1>1, RangeAppend DEF FlushBuffer
  <2>2. UNCHANGED <<handler, staged, drawn, ownLayer, drawnLayer, work>>
    BY <1>1 DEF FlushBuffer
  <2>3. QueuedOnce(c)'
    BY <1>0, <1>1, <2>1, QueuedOnceAppend DEF FlushBuffer, InOnePlace
  <2>4. NamedOnce(work', c) /\ Named(work)' = Named(work)
    BY <2>2 DEF InOnePlace, Named
  <2> QED
    BY <2>1, <2>2, <2>3, <2>4 DEF InOnePlace, InRelease, InStaging
<1>2. ASSUME NEW forbidden \in BOOLEAN, NEW other \in BOOLEAN,
             NEW onTree \in BOOLEAN, StartFrame(forbidden, other, onTree)
      PROVE InOnePlace(c)'
  <2>0. UNCHANGED <<free, drawn, ownLayer, drawnLayer, work>>
    BY <1>2 DEF StartFrame
  <2>1. CASE queue # <<>>
    <3>1. /\ queue' = Tail(queue)
          /\ handler' = [buffer |-> Head(queue), pre |-> handler.buffer]
          /\ staged'.dirty /\ staged'.pre = handler.buffer
      BY <1>2, <2>1 DEF StartFrame
    <3>2. Range(queue) = Range(queue') \cup {Head(queue)}
      BY <1>0, <2>1, <3>1, RangeTail
    <3>3. QueuedOnce(c)' /\ (c = Head(queue) => c \notin Range(queue'))
      BY <1>0, <2>1, <3>1, QueuedOnceTail DEF InOnePlace
    <3>4. NamedOnce(work', c) /\ Named(work)' = Named(work)
      BY <2>0 DEF InOnePlace, Named
    <3>5. handler'.buffer = Head(queue)
      BY <3>1
    <3>6. staged'.dirty /\ staged'.pre = handler.buffer
      BY <3>1
    <3> QED
      BY <2>0, <3>2, <3>3, <3>4, <3>5, <3>6 DEF InOnePlace, InRelease, InStaging
  <2>2. CASE queue = <<>>
    <3>1. queue' = queue /\ handler' = handler
      BY <1>2, <2>2 DEF StartFrame
    <3>2. staged'.dirty = staged.dirty /\ staged'.pre = staged.pre
      BY <1>0, <1>2, <2>2 DEF StartFrame, StagingParams
    <3> QED
      BY <2>0, <3>1, <3>2, OnePlaceStays
  <2> QED
    BY <2>1, <2>2
<1>3. CASE (Skip \/ Direct) /\ UNCHANGED bufferVars
  BY <1>3, OnePlaceStays DEF bufferVars
<1>4. ASSUME NEW enabled \in BOOLEAN, FullFrame(enabled) PROVE InOnePlace(c)'
  <2>1. UNCHANGED <<queue, handler, free, drawn, ownLayer, drawnLayer, work>>
    BY <1>4 DEF FullFrame
  <2>2. staged'.dirty = staged.dirty /\ staged'.pre = staged.pre
    BY <1>0, <1>4 DEF FullFrame, StagingParams
  <2> QED
    BY <2>1, <2>2, OnePlaceStays
<1>5. CASE CreateLayer
  <2>1. UNCHANGED <<queue, handler, free, drawn, drawnLayer, work>>
    BY <1>5 DEF CreateLayer
  <2>2. NamedOnce(work', c) /\ Named(work)' = Named(work) /\ QueuedOnce(c)'
        /\ Range(queue)' = Range(queue)
    BY <2>1 DEF InOnePlace, Named, QueuedOnce
  <2>3. CASE Listed /\ node.enabled
    <3>1. ownLayer'.pre = handler.pre /\ staged'.pre = None
      BY <1>0, <1>5, <2>3 DEF CreateLayer, StagingParams
    <3>2. c = handler.pre => InStaging(c)
      BY <1>0, <1>5, <2>3 DEF CreateLayer, InStaging
    <3> QED
      BY <1>0, <2>1, <2>2, <3>1, <3>2 DEF InOnePlace, InRelease, InStaging
  <2>4. CASE ~(Listed /\ node.enabled)
    <3>1. ownLayer' = NullLayer /\ staged' = staged
      BY <1>5, <2>4, Zenon DEF CreateLayer
    <3>2. ownLayer'.pre = None
      BY <3>1 DEF NullLayer
    <3> QED
      BY <1>0, <2>1, <2>2, <3>1, <3>2 DEF InOnePlace, InRelease, InStaging
  <2> QED
    BY <2>3, <2>4
<1>6. CASE OnSync
  <2>1. drawn'.pre = IF staged.dirty THEN staged.pre ELSE drawn.pre
    BY <1>0, <1>6 DEF OnSync, RenderParams
  <2>2. ~staged'.dirty
    BY <1>0, <1>6 DEF OnSync, StagingParams
  <2>3. UNCHANGED <<queue, handler, free, ownLayer, drawnLayer, work>>
    BY <1>6 DEF OnSync
  <2>4. NamedOnce(work', c) /\ Named(work)' = Named(work) /\ QueuedOnce(c)'
        /\ Range(queue)' = Range(queue)
    BY <2>3 DEF InOnePlace, Named, QueuedOnce
  <2> QED
    BY <2>1, <2>2, <2>3, <2>4 DEF InOnePlace, InRelease, InStaging
<1>7. CASE DrawNothing
  <2>1. drawn'.pre = drawn.pre
    BY <1>0, <1>7 DEF DrawNothing, RenderParams
  <2>2. UNCHANGED <<queue, handler, free, staged, ownLayer, drawnLayer, work>>
    BY <1>7 DEF DrawNothing
  <2> QED
    BY <2>1, <2>2, OnePlaceStays
<1>8. CASE OnDraw
  <2>1. UNCHANGED <<queue, handler, free, staged, ownLayer, work>>
    BY <1>8 DEF OnDraw
  <2>2. \/ drawnLayer'.pre = drawn.pre /\ drawn'.pre = None
        \/ drawnLayer'.pre = None /\ drawn'.pre = drawn.pre
    <3>1. CASE drawn.listed /\ drawn.enabled /\ drawn.buffer # None
      <4>1. drawnLayer' = [buffer |-> drawn.buffer, pre |-> drawn.pre]
        BY <1>8, <3>1, Zenon DEF OnDraw
      <4>2. drawn' = [drawn EXCEPT !.pre = None, !.created = TRUE]
        BY <1>8, <3>1, Zenon DEF OnDraw
      <4>3. drawnLayer'.pre = drawn.pre
        BY <4>1
      <4>4. drawn'.pre = None
        BY <1>0, <4>2 DEF RenderParams
      <4> QED
        BY <4>3, <4>4
    <3>2. CASE ~(drawn.listed /\ drawn.enabled /\ drawn.buffer # None)
      <4>1. drawnLayer' = NullLayer
        BY <1>8, <3>2, Zenon DEF OnDraw
      <4>2. drawn'.pre = drawn.pre
        BY <1>0, <1>8, <3>2 DEF OnDraw, RenderParams
      <4> QED
        BY <4>1, <4>2 DEF NullLayer
    <3> QED
      BY <3>1, <3>2
  <2>3. NamedOnce(work', c) /\ Named(work)' = Named(work) /\ QueuedOnce(c)'
        /\ Range(queue)' = Range(queue)
    BY <2>1 DEF InOnePlace, Named, QueuedOnce
  <2> QED
    BY <1>0, <2>1, <2>2, <2>3 DEF InOnePlace, InRelease, InStaging
<1>9. CASE ReleaseSelfDrawingNodeBuffer
  <2>1. UNCHANGED <<queue, handler, staged, ownLayer, drawnLayer>>
    BY <1>9 DEF ReleaseSelfDrawingNodeBuffer
  <2>2. \/ drawn'.pre = drawn.pre /\ work' = work /\ free' = free
        \/ drawn'.pre = None /\ work' = work /\ free' = free
        \/ drawn'.pre = None /\ work' = Append(work, ReleaseOf(drawn.pre))
           /\ free' = free
        \/ drawn'.pre = None /\ free' = Released(drawn.pre) /\ work' = work
    <3> DEFINE need == drawn.buffer # None /\ (~drawn.enabled \/ ~drawn.created)
    <3>1. drawn'.pre = IF need THEN None ELSE drawn.pre
      BY <1>0, <1>9 DEF ReleaseSelfDrawingNodeBuffer, RenderParams
    <3>2. CASE ~need \/ drawn.pre = None
      <4>1. work' = work /\ free' = free
        BY <1>9, <3>2 DEF ReleaseSelfDrawingNodeBuffer
      <4> QED
        BY <3>1, <3>2, <4>1, Zenon
    <3>3. CASE need /\ drawn.pre # None
      <4>1. TaskNumFor(need) > 0 \/ TaskNumFor(need) = 0
        BY <1>0, BufferAssumption DEF TaskNumFor, RenderParams
      <4>2. CASE TaskNumFor(need) > 0
        BY <1>9, <3>1, <3>3, <4>2 DEF ReleaseSelfDrawingNodeBuffer
      <4>3. CASE TaskNumFor(need) = 0
        BY <1>9, <3>1, <3>3, <4>3 DEF ReleaseSelfDrawingNodeBuffer
      <4> QED
        BY <4>1, <4>2, <4>3
    <3> QED
      BY <3>2, <3>3
  <2>3. QueuedOnce(c)' /\ Range(queue)' = Range(queue)
    BY <2>1 DEF InOnePlace, QueuedOnce
  <2>4. CASE drawn'.pre = drawn.pre /\ work' = work /\ free' = free
    BY <2>1, <2>4, OnePlaceStays
  <2>5. CASE drawn'.pre = None /\ work' = work /\ free' = free
    BY <1>0, <2>1, <2>3, <2>5 DEF InOnePlace, InRelease, InStaging, Named
  <2>6. CASE drawn'.pre = None /\ work' = Append(work, ReleaseOf(drawn.pre))
             /\ free' = free
    <3>1. ReleaseOf(drawn.pre) \in Task /\ ReleaseOf(drawn.pre).pre = drawn.pre
      BY <1>0 DEF ReleaseOf, Task, RenderParams, MaybeBuffer
    <3>2. Named(work') = Named(work) \cup {drawn.pre}
      BY <1>0, <2>6, <3>1, NamedAppend
    <3>3. NamedOnce(work', c)
      BY <1>0, <2>6, <3>1, NamedOnceAppend DEF InOnePlace
    <3> QED
      BY <1>0, <2>1, <2>3, <2>6, <3>2, <3>3 DEF InOnePlace, InRelease, InStaging
  <2>7. CASE drawn'.pre = None /\ free' = Released(drawn.pre) /\ work' = work
    BY <1>0, <2>1, <2>3, <2>7
       DEF InOnePlace, InRelease, InStaging, Named, Released
  <2> QED
    BY <2>2, <2>4, <2>5, <2>6, <2>7
<1>10. CASE CommitDirectFrame
  <2>1. CommitOf(ownLayer) \in Task /\ CommitOf(ownLayer).pre = ownLayer.pre
    BY <1>0 DEF CommitOf, Task, Layer, MaybeBuffer
  <2>2. Named(work') = Named(work) \cup {ownLayer.pre}
    BY <1>0, <1>10, <2>1, NamedAppend DEF CommitDirectFrame
  <2>3. NamedOnce(work', c)
    BY <1>0, <1>10, <2>1, NamedOnceAppend DEF CommitDirectFrame, InOnePlace
  <2>4. UNCHANGED <<queue, handler, free, staged, drawn, drawnLayer>>
        /\ ownLayer'.pre = None
    BY <1>10 DEF CommitDirectFrame, NullLayer
  <2>5. QueuedOnce(c)' /\ Range(queue)' = Range(queue)
    BY <2>4 DEF InOnePlace, QueuedOnce
  <2> QED
    BY <1>0, <2>2, <2>3, <2>4, <2>5 DEF InOnePlace, InRelease, InStaging
<1>11. CASE CommitDrawnFrame
  <2>1. CommitOf(drawnLayer) \in Task /\ CommitOf(drawnLayer).pre = drawnLayer.pre
    BY <1>0 DEF CommitOf, Task, Layer, MaybeBuffer
  <2>2. Named(work') = Named(work) \cup {drawnLayer.pre}
    BY <1>0, <1>11, <2>1, NamedAppend DEF CommitDrawnFrame
  <2>3. NamedOnce(work', c)
    BY <1>0, <1>11, <2>1, NamedOnceAppend DEF CommitDrawnFrame, InOnePlace
  <2>4. UNCHANGED <<queue, handler, free, staged, drawn, ownLayer>>
        /\ drawnLayer'.pre = None
    BY <1>11 DEF CommitDrawnFrame, NullLayer
  <2>5. QueuedOnce(c)' /\ Range(queue)' = Range(queue)
    BY <2>4 DEF InOnePlace, QueuedOnce
  <2> QED
    BY <1>0, <2>2, <2>3, <2>4, <2>5 DEF InOnePlace, InRelease, InStaging
<1>12. CASE Execute \/ ExecuteRelease
  <2>1. /\ work # <<>> /\ work' = Tail(work) /\ free' = Released(Head(work).pre)
        /\ UNCHANGED <<queue, handler, staged, drawn, ownLayer, drawnLayer>>
    BY <1>12 DEF Execute, ExecuteRelease
  <2>2. /\ NamedOnce(work', c) /\ Named(work) = Named(work') \cup {Head(work).pre}
        /\ c = Head(work).pre => c \notin Named(work')
    BY <1>0, <2>1, NamedOnceTail DEF InOnePlace
  <2>3. QueuedOnce(c)' /\ Range(queue)' = Range(queue)
    BY <2>1 DEF InOnePlace, QueuedOnce
  <2>4. free' \subseteq free \cup {Head(work).pre}
    BY <2>1 DEF Released
  <2> QED
    BY <1>0, <2>1, <2>2, <2>3, <2>4 DEF InOnePlace, InRelease, InStaging
<1>13. CASE UNCHANGED vars
  BY <1>13, OnePlaceStays DEF vars, bufferVars
<1> QED
  BY <1>1, <1>2, <1>3, <1>4, <1>5, <1>6, <1>7, <1>8, <1>9, <1>10, <1>11, <1>12,
     <1>13, Zenon DEF Next

\* Once a buffer was put in a second layer the history says so for good.
LEMMA ReusedStays == [Next]_vars /\ reused => reused'
BY ReusedChanges DEF CreateLayer

-----------------------------------------------------------------------------
(* The theorems.                                                           *)

IInv == TypeOK /\ Followed /\ NoBufferLost /\ Separate

LEMMA Invariance == Spec => []IInv
<1>1. Init => IInv
  <2>1. Init => NoBufferLost
    BY DEF Init, NoBufferLost, Acquired
  <2>2. Init => Separate
    BY BufferAssumption DEF Init, NullLayer, Separate, InOnePlace, QueuedOnce,
       NamedOnce, InRelease, InStaging, Named, Range
  <2> QED
    BY <2>1, <2>2, InitTypes, FollowedInit DEF IInv
<1>2. IInv /\ [Next]_vars => IInv'
  <2> SUFFICES ASSUME IInv, [Next]_vars PROVE IInv'
    OBVIOUS
  <2>1. TypeOK' /\ Followed'
    BY TypesNext, FollowedNext DEF IInv
  <2>2. \A c \in Buffer : Kept(c)'
    BY KeptNext, KeptIsNotLost DEF IInv
  <2>3. NoBufferLost'
    BY <2>2 DEF Kept, NoBufferLost, AwaitsRelease, Acquired, Named
  <2>4. Separate'
    <3> SUFFICES ASSUME ~reused', NEW c \in Buffer PROVE InOnePlace(c)'
      BY DEF Separate
    <3>1. InOnePlace(c)
      BY ReusedStays DEF IInv, Separate
    <3> QED
      BY <3>1, OnePlaceNext DEF IInv
  <2> QED
    BY <2>1, <2>3, <2>4 DEF IInv
<1> QED
  BY <1>1, <1>2, PTL DEF Spec

\* The variables keep their types.
THEOREM BufferTypes == Spec => []TypeOK
<1>1. IInv => TypeOK
  BY DEF IInv
<1> QED
  BY <1>1, Invariance, PTL

\* A buffer the consumer has acquired is the node's current one or is named
\* where it will be released, whatever paths the frames take.
THEOREM BuffersFollowed == Spec => []NoBufferLost
<1>1. IInv => NoBufferLost
  BY DEF IInv
<1> QED
  BY <1>1, Invariance, PTL

\* A release meant for an earlier use of a buffer never gives back the node's
\* current one, as long as no replaced buffer was put in a second layer.
THEOREM BuffersHeld == Spec => []CurrentHeldUnlessReused
<1>1. IInv => CurrentHeldUnlessReused
  <2> SUFFICES ASSUME IInv, ~reused, handler.buffer # None
               PROVE  handler.buffer \in Acquired
    BY DEF CurrentHeldUnlessReused, CurrentHeld
  <2>1. handler.buffer \in Buffer
    BY DEF IInv, TypeOK, Layer, MaybeBuffer
  <2>2. InOnePlace(handler.buffer)
    BY <2>1 DEF IInv, Separate
  <2> QED
    BY <2>1, <2>2 DEF InOnePlace, Acquired
<1> QED
  BY <1>1, Invariance, PTL
=============================================================================
