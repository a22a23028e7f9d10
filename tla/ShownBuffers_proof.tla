------------------------- MODULE ShownBuffers_proof -------------------------
(***************************************************************************)
(* Proof that what the screen shows and what the GPU draws is not the      *)
(* producer's to write (SurfaceBuffers), for any number of buffers, if the *)
(* number of release tasks is at least the capacity of the hardware        *)
(* thread: as many releases of a node that stopped being a layer go        *)
(* through that thread's queue as commits can wait there.                  *)
(***************************************************************************)
EXTENDS SurfaceBuffers_proof

-----------------------------------------------------------------------------
(* What the three threads remember of the node agrees.                     *)

Agree ==
    /\ ~staged.dirty => drawn.buffer = handler.buffer
    /\ node.enabled \/ staged.lastEnabled => handler.buffer # None
    /\ drawn.lastEnabled => drawn.buffer # None
    /\ main \notin {"frame", "handed"} => drawn.enabled = node.enabled
    /\ main = "frame" /\ node.enabled => drawn.enabled
    /\ drawn.enabled /\ ~node.enabled =>
         /\ staged.lastEnabled
         /\ main = "frame" => ~node.onTree /\ ~doDirect
    /\ main = "handed" /\ node.enabled /\ ~drawn.enabled => Listed
    /\ render = "commit" /\ drawnLayer.buffer # None
       => drawn.enabled /\ drawnLayer.buffer = drawn.buffer
    /\ main \in {"joined", "commit"} =>
         \/ ownLayer = NullLayer
         \/ node.enabled /\ ownLayer = handler

\* A node that is a layer got one, unless frames were handed over and not drawn.
Created ==
    ~disordered /\ drawn.enabled =>
        IF render = "draw"
        THEN /\ drawn.created \/ drawn.listed
             /\ drawn.listed => drawn.buffer # None
        ELSE drawn.created

\* What OnSync and OnDraw make of the render parameters, field by field.
LEMMA OnSyncFields ==
  ASSUME drawn \in RenderParams, OnSync
  PROVE  /\ drawn'.buffer = IF staged.dirty THEN handler.buffer ELSE drawn.buffer
         /\ drawn'.listed = Listed /\ drawn'.enabled = node.enabled
         /\ drawn'.lastEnabled = staged.lastEnabled
         /\ drawn'.created = drawn.created /\ drawn'.tasks = drawn.tasks
BY DEF OnSync, RenderParams

\* The node is drawn as a layer.
AsLayer == drawn.listed /\ drawn.enabled /\ drawn.buffer # None

LEMMA OnDrawFields ==
  ASSUME drawn \in RenderParams, OnDraw
  PROVE  /\ drawn'.buffer = drawn.buffer /\ drawn'.listed = drawn.listed
         /\ drawn'.enabled = drawn.enabled
         /\ drawn'.lastEnabled = drawn.lastEnabled /\ drawn'.tasks = drawn.tasks
         /\ drawn'.created = (AsLayer \/ (drawn.created /\ ~drawn.listed))
         /\ drawnLayer'.buffer = IF AsLayer THEN drawn.buffer ELSE None
<1>1. CASE AsLayer
  <2>1. drawnLayer' = [buffer |-> drawn.buffer, pre |-> drawn.pre]
    BY <1>1, Zenon DEF OnDraw, AsLayer
  <2>2. drawn' = [drawn EXCEPT !.pre = None, !.created = TRUE]
    BY <1>1, Zenon DEF OnDraw, AsLayer
  <2> QED
    BY <1>1, <2>1, <2>2 DEF RenderParams
<1>2. CASE ~AsLayer
  <2>1. drawnLayer' = NullLayer
    BY <1>2, Zenon DEF OnDraw, AsLayer
  <2>2. drawn' = [drawn EXCEPT !.created = drawn.created /\ ~drawn.listed]
    BY <1>2, Zenon DEF OnDraw, AsLayer
  <2>3. drawnLayer'.buffer = None
    BY <2>1 DEF NullLayer
  <2> QED
    BY <1>2, <2>2, <2>3 DEF RenderParams
<1> QED
  BY <1>1, <1>2

LEMMA AgreeInit == Init => Agree /\ Created
BY DEF Init, PInit, Agree, Created, NullLayer

LEMMA AgreeNext == TypeOK /\ Followed /\ Agree /\ [Next]_vars => Agree'
<1> SUFFICES ASSUME TypeOK, Followed, Agree, [Next]_vars PROVE Agree'
  OBVIOUS
<1>0. Params /\ None \notin Buffer /\ drawnLayer \in Layer /\ ownLayer \in Layer
  BY BufferAssumption DEF TypeOK, Params
<1> USE DEF Params, PTypeOK, Agree, NodeState, StagingParams,
        RenderParams, Layer, MaybeBuffer, NullLayer, Listed
<1>1. ASSUME NEW b \in Buffer, FlushBuffer(b) PROVE Agree'
  BY <1>0, <1>1 DEF FlushBuffer, pipeVars
<1>2. ASSUME NEW forbidden \in BOOLEAN, NEW other \in BOOLEAN,
             NEW onTree \in BOOLEAN, StartFrame(forbidden, other, onTree)
      PROVE Agree'
  BY <1>0, <1>2 DEF StartFrame, Start
<1>3. CASE (Skip \/ Direct) /\ UNCHANGED bufferVars
  BY <1>0, <1>3 DEF Skip, Direct, bufferVars
<1>4. ASSUME NEW enabled \in BOOLEAN, FullFrame(enabled) PROVE Agree'
  BY <1>0, <1>4 DEF FullFrame, HandOver
<1>5. CASE CreateLayer
  BY <1>0, <1>5 DEF CreateLayer, MakeLayers
<1>6. CASE OnSync
  BY <1>0, <1>6 DEF OnSync, TakeOver
<1>7. CASE DrawNothing
  BY <1>0, <1>7 DEF DrawNothing, NotDrawn
<1>8. CASE OnDraw
  <2>1. /\ main' = main /\ doDirect' = doDirect /\ render' = "commit"
        /\ UNCHANGED <<handler, node, staged, ownLayer>>
    BY <1>8 DEF OnDraw, Draw
  <2> QED
    BY <1>0, <1>8, <2>1, OnDrawFields DEF AsLayer
<1>9. CASE ReleaseSelfDrawingNodeBuffer
  BY <1>0, <1>9 DEF ReleaseSelfDrawingNodeBuffer, Release
<1>10. CASE CommitDirectFrame
  BY <1>0, <1>10 DEF CommitDirectFrame, CommitDirect
<1>11. CASE CommitDrawnFrame
  BY <1>0, <1>11 DEF CommitDrawnFrame, CommitDrawn
<1>12. CASE Execute
  BY <1>0, <1>12 DEF Execute, ExecuteCommit
<1>13. CASE ExecuteRelease
  BY <1>0, <1>13 DEF ExecuteRelease, pipeVars
<1>14. CASE UNCHANGED vars
  BY <1>0, <1>14 DEF vars, pipeVars, bufferVars
<1> QED
  BY <1>1, <1>2, <1>3, <1>4, <1>5, <1>6, <1>7, <1>8, <1>9, <1>10, <1>11, <1>12,
     <1>13, <1>14, Zenon DEF Next

LEMMA CreatedNext ==
  TypeOK /\ Agree /\ Created /\ [Next]_vars => Created'
<1> SUFFICES ASSUME TypeOK, Agree, Created, [Next]_vars PROVE Created'
  OBVIOUS
<1>0. Params
  BY DEF TypeOK, Params
<1> USE DEF Params, PTypeOK, Created, RenderParams
<1>a. CASE UNCHANGED <<render, drawn>> /\ (disordered => disordered')
  BY <1>a
<1>1. CASE \/ \E b \in Buffer : FlushBuffer(b)
           \/ \E forbidden, other, onTree \in BOOLEAN :
                  StartFrame(forbidden, other, onTree)
           \/ (Skip \/ Direct) /\ UNCHANGED bufferVars
           \/ \E enabled \in BOOLEAN : FullFrame(enabled)
           \/ CreateLayer \/ CommitDirectFrame \/ Execute \/ ExecuteRelease
           \/ UNCHANGED vars
  BY <1>1, <1>a DEF FlushBuffer, StartFrame, Start, Skip, Direct, FullFrame,
     HandOver, CreateLayer, MakeLayers, CommitDirectFrame, CommitDirect,
     Execute, ExecuteCommit, ExecuteRelease, vars, pipeVars, bufferVars, history
<1>2. CASE OnSync
  <2>1. render = "idle" /\ render' = "draw" /\ main = "handed"
        /\ disordered' = disordered
    BY <1>2 DEF OnSync, TakeOver, history
  <2>2. drawn'.buffer = handler.buffer
    BY <1>0, <1>2, OnSyncFields DEF Agree
  <2>3. Listed => handler.buffer # None
    BY DEF Listed
  <2> QED
    BY <1>0, <1>2, <2>1, <2>2, <2>3, OnSyncFields DEF Agree
<1>3. CASE DrawNothing
  BY <1>3 DEF DrawNothing
<1>4. CASE OnDraw
  <2>1. render = "draw" /\ render' = "commit" /\ disordered' = disordered
    BY <1>4 DEF OnDraw, Draw, history
  <2> QED
    BY <1>0, <1>4, <2>1, OnDrawFields DEF AsLayer
<1>5. CASE ReleaseSelfDrawingNodeBuffer
  BY <1>0, <1>5 DEF ReleaseSelfDrawingNodeBuffer, Release, history
<1>6. CASE CommitDrawnFrame
  BY <1>0, <1>6 DEF CommitDrawnFrame, CommitDrawn, history
<1> QED
  BY <1>1, <1>2, <1>3, <1>4, <1>5, <1>6, Zenon DEF Next

-----------------------------------------------------------------------------
(* What is drawn is held.                                                  *)

\* No buffer was put in a second layer and all frames came in order.
Orderly == ~(reused \/ disordered)

LEMMA OrderlyBefore == TypeOK /\ [Next]_vars /\ Orderly' => Orderly
<1>1. TypeOK /\ [Next]_vars /\ disordered => disordered'
  BY DisorderedChanges DEF DrawNothing, CommitDirectFrame, TypeOK
<1> QED
  BY <1>1, ReusedStays DEF Orderly

\* The buffer of a frame that is being drawn is still the node's, or waits
\* where the main thread left it when it replaced it.
DrawnHeld ==
    Orderly /\ render \in {"draw", "commit"} /\ drawn.buffer # None =>
        \/ drawn.buffer = handler.buffer
        \/ drawn.buffer = ownLayer.pre
        \/ InStaging(drawn.buffer)

LEMMA DrawnHeldNext ==
  TypeOK /\ Followed /\ Agree /\ DrawnHeld /\ [Next]_vars => DrawnHeld'
<1> SUFFICES ASSUME TypeOK, Followed, Agree, DrawnHeld, [Next]_vars, Orderly'
             PROVE DrawnHeld'
  BY DEF DrawnHeld
<1>0. Params /\ None \notin Buffer /\ ownLayer \in Layer /\ Orderly
  BY BufferAssumption, OrderlyBefore DEF TypeOK, Params
<1> USE DEF Params, PTypeOK, NodeState, StagingParams, RenderParams, Layer,
        MaybeBuffer, DrawnHeld, InStaging
<1>1. CASE \/ \E b \in Buffer : FlushBuffer(b)
           \/ (Skip \/ Direct) /\ UNCHANGED bufferVars
           \/ \E enabled \in BOOLEAN : FullFrame(enabled)
           \/ Execute \/ ExecuteRelease \/ UNCHANGED vars
  BY <1>0, <1>1 DEF FlushBuffer, Skip, Direct, FullFrame, HandOver, Execute,
     ExecuteCommit, ExecuteRelease, vars, pipeVars, bufferVars
<1>2. ASSUME NEW forbidden \in BOOLEAN, NEW other \in BOOLEAN,
             NEW onTree \in BOOLEAN, StartFrame(forbidden, other, onTree)
      PROVE DrawnHeld'
  <2>1. ~Pending /\ render' = render /\ drawn' = drawn /\ ownLayer' = ownLayer
    BY <1>2 DEF StartFrame, Start, Followed
  <2>2. queue # <<>> => staged'.dirty /\ staged'.pre = handler.buffer
    BY <1>2 DEF StartFrame
  <2>3. queue = <<>> => /\ handler' = handler /\ staged'.pre = staged.pre
                        /\ staged'.dirty = staged.dirty
    BY <1>0, <1>2 DEF StartFrame
  <2> QED
    BY <1>0, <2>1, <2>2, <2>3 DEF Pending
<1>3. CASE CreateLayer
  <2>1. ownLayer.pre = None /\ main = "direct" /\ render' = render
        /\ drawn' = drawn /\ handler' = handler
    BY <1>3 DEF CreateLayer, MakeLayers, Followed, NullLayer
  <2> QED
    BY <1>0, <1>3, <2>1 DEF CreateLayer, Followed, Pending, Listed
<1>4. CASE OnSync
  <2>1. drawn'.buffer = handler.buffer /\ handler' = handler
    BY <1>0, <1>4, OnSyncFields DEF Agree, OnSync
  <2> QED
    BY <2>1
<1>5. CASE DrawNothing \/ ReleaseSelfDrawingNodeBuffer \/ CommitDrawnFrame
  BY <1>5 DEF DrawNothing, NotDrawn, ReleaseSelfDrawingNodeBuffer, Release,
     CommitDrawnFrame, CommitDrawn
<1>6. CASE OnDraw
  <2>1. render = "draw" /\ UNCHANGED <<handler, staged, ownLayer>>
    BY <1>6 DEF OnDraw, Draw
  <2> QED
    BY <1>0, <1>6, <2>1, OnDrawFields
<1>7. CASE CommitDirectFrame
  <2>1. render' = "idle"
    BY <1>7 DEF CommitDirectFrame, CommitDirect, Orderly
  <2> QED
    BY <2>1
<1> QED
  BY <1>1, <1>2, <1>3, <1>4, <1>5, <1>6, <1>7, Zenon DEF Next

\* What DrawnHeld names is acquired and is in no task's release.
LEMMA DrawnIsHeld ==
  ASSUME TypeOK, Separate, DrawnHeld, Orderly, render \in {"draw", "commit"},
         drawn.buffer # None
  PROVE  /\ drawn.buffer \in Acquired /\ drawn.buffer \notin Named(work)
         /\ drawn.buffer # drawnLayer.pre
<1>1. drawn.buffer \in Buffer
  BY DEF TypeOK, RenderParams, MaybeBuffer
<1>2. InOnePlace(drawn.buffer)
  BY <1>1 DEF Separate, Orderly
<1> QED
  BY <1>1, <1>2 DEF DrawnHeld, InOnePlace, InRelease, Acquired
-----------------------------------------------------------------------------
(* What the screen will show, task by task.                                *)

\* Once the first j tasks of q are done, the screen shows l[j] and c[j] commits
\* are left; it shows s now, and b commits are left.
Chain(q, s, b, l, c) ==
    /\ l \in [0..Len(q) -> MaybeBuffer] /\ c \in [0..Len(q) -> Nat]
    /\ l[0] = s /\ c[0] = b /\ c[Len(q)] = 0
    /\ \A j \in 1..Len(q) :
         IF q[j].kind = "commit"
         THEN l[j] = q[j].buffer /\ c[j - 1] = c[j] + 1
         ELSE l[j] = l[j - 1] /\ c[j - 1] = c[j]
    /\ \A i, j \in 0..Len(q) : i =< j => c[j] =< c[i]
    /\ \A j \in 0..Len(q) : c[j] = 0 => l[j] = l[Len(q)]

\* The functions l and c of a queue with one more task, and with one less.
Extended(f, n, e) == [j \in 0..(n + 1) |-> IF j = n + 1 THEN e ELSE f[j]]
Raised(f, n) == [j \in 0..(n + 1) |-> IF j = n + 1 THEN 0 ELSE f[j] + 1]
Shifted(f, n) == [j \in 0..(n - 1) |-> f[j + 1]]

LEMMA ChainCommit ==
  ASSUME NEW q \in Seq(Task), NEW s, NEW b, NEW l, NEW c, Chain(q, s, b, l, c),
         NEW e \in Task, e.kind = "commit"
  PROVE  Chain(Append(q, e), s, b + 1, Extended(l, Len(q), e.buffer),
               Raised(c, Len(q)))
<1> DEFINE n == Len(q)
           r == Append(q, e)
           m == Extended(l, n, e.buffer)
           d == Raised(c, n)
<1>1. /\ n \in Nat /\ Len(r) = n + 1 /\ r[n + 1] = e
      /\ \A j \in 1..n : r[j] = q[j]
  OBVIOUS
<1>2. e.buffer \in MaybeBuffer
  BY DEF Task
<1>3. /\ l \in [0..n -> MaybeBuffer] /\ c \in [0..n -> Nat]
      /\ l[0] = s /\ c[0] = b /\ c[n] = 0
      /\ \A j \in 1..n :
           IF q[j].kind = "commit"
           THEN l[j] = q[j].buffer /\ c[j - 1] = c[j] + 1
           ELSE l[j] = l[j - 1] /\ c[j - 1] = c[j]
      /\ \A i, j \in 0..n : i =< j => c[j] =< c[i]
  BY DEF Chain
<1>4. /\ m \in [0..(n + 1) -> MaybeBuffer] /\ d \in [0..(n + 1) -> Nat]
      /\ m[n + 1] = e.buffer /\ d[n + 1] = 0
      /\ \A j \in 0..n : m[j] = l[j] /\ d[j] = c[j] + 1
  BY <1>1, <1>2, <1>3 DEF Extended, Raised
<1> HIDE DEF n, r, m, d
<1>5. m[0] = s /\ d[0] = b + 1
  BY <1>1, <1>3, <1>4
<1>6. ASSUME NEW j \in 1..(n + 1)
      PROVE  IF r[j].kind = "commit"
             THEN m[j] = r[j].buffer /\ d[j - 1] = d[j] + 1
             ELSE m[j] = m[j - 1] /\ d[j - 1] = d[j]
  <2>1. CASE j = n + 1
    BY <1>1, <1>3, <1>4, <2>1
  <2>2. CASE j # n + 1
    <3>1. j \in 1..n /\ j \in 0..n /\ j - 1 \in 0..n
      BY <1>1, <2>2
    <3>2. r[j] = q[j] /\ m[j] = l[j] /\ m[j - 1] = l[j - 1]
          /\ d[j] = c[j] + 1 /\ d[j - 1] = c[j - 1] + 1
      BY <1>1, <1>4, <3>1
    <3>3. c[j] \in Nat /\ c[j - 1] \in Nat
      BY <1>3, <3>1
    <3> QED
      BY <1>3, <3>1, <3>2, <3>3
  <2> QED
    BY <2>1, <2>2
<1>7. ASSUME NEW i \in 0..(n + 1), NEW j \in 0..(n + 1), i =< j
      PROVE  d[j] =< d[i]
  <2>1. CASE j = n + 1
    BY <1>1, <1>4, <2>1
  <2>2. CASE j # n + 1
    <3>1. i \in 0..n /\ j \in 0..n
      BY <1>1, <1>7, <2>2
    <3>2. c[j] =< c[i] /\ c[j] \in Nat /\ c[i] \in Nat
      BY <1>3, <1>7, <3>1
    <3> QED
      BY <1>4, <3>1, <3>2
  <2> QED
    BY <2>1, <2>2
<1>8. \A j \in 0..(n + 1) : d[j] = 0 => m[j] = m[n + 1]
  BY <1>1, <1>3, <1>4
<1>9. Chain(r, s, b + 1, m, d)
  BY <1>1, <1>4, <1>5, <1>6, <1>7, <1>8 DEF Chain
<1> QED
  BY <1>9 DEF n, r, m, d

LEMMA ChainRelease ==
  ASSUME NEW q \in Seq(Task), NEW s, NEW b, NEW l, NEW c, Chain(q, s, b, l, c),
         NEW e \in Task, e.kind = "release"
  PROVE  Chain(Append(q, e), s, b, Extended(l, Len(q), l[Len(q)]),
               Extended(c, Len(q), 0))
<1> DEFINE n == Len(q)
           r == Append(q, e)
           m == Extended(l, n, l[n])
           d == Extended(c, n, 0)
<1>1. /\ n \in Nat /\ Len(r) = n + 1 /\ r[n + 1] = e
      /\ \A j \in 1..n : r[j] = q[j]
  OBVIOUS
<1>2. /\ l \in [0..n -> MaybeBuffer] /\ c \in [0..n -> Nat]
      /\ l[0] = s /\ c[0] = b /\ c[n] = 0
      /\ \A j \in 1..n :
           IF q[j].kind = "commit"
           THEN l[j] = q[j].buffer /\ c[j - 1] = c[j] + 1
           ELSE l[j] = l[j - 1] /\ c[j - 1] = c[j]
      /\ \A i, j \in 0..n : i =< j => c[j] =< c[i]
      /\ \A j \in 0..n : c[j] = 0 => l[j] = l[n]
  BY DEF Chain
<1>3. /\ m \in [0..(n + 1) -> MaybeBuffer] /\ d \in [0..(n + 1) -> Nat]
      /\ m[n + 1] = l[n] /\ d[n + 1] = 0
      /\ \A j \in 0..n : m[j] = l[j] /\ d[j] = c[j]
  BY <1>1, <1>2 DEF Extended
<1> HIDE DEF n, r, m, d
<1>4. m[0] = s /\ d[0] = b
  BY <1>1, <1>2, <1>3
<1>5. ASSUME NEW j \in 1..(n + 1)
      PROVE  IF r[j].kind = "commit"
             THEN m[j] = r[j].buffer /\ d[j - 1] = d[j] + 1
             ELSE m[j] = m[j - 1] /\ d[j - 1] = d[j]
  <2>1. CASE j = n + 1
    BY <1>1, <1>2, <1>3, <2>1
  <2>2. CASE j # n + 1
    <3>1. j \in 1..n /\ j \in 0..n /\ j - 1 \in 0..n
      BY <1>1, <2>2
    <3>2. r[j] = q[j] /\ m[j] = l[j] /\ m[j - 1] = l[j - 1]
          /\ d[j] = c[j] /\ d[j - 1] = c[j - 1]
      BY <1>1, <1>3, <3>1
    <3> QED
      BY <1>2, <3>1, <3>2
  <2> QED
    BY <2>1, <2>2
<1>6. \A i, j \in 0..(n + 1) : i =< j => d[j] =< d[i]
  BY <1>1, <1>2, <1>3
<1>7. \A j \in 0..(n + 1) : d[j] = 0 => m[j] = m[n + 1]
  BY <1>1, <1>2, <1>3
<1>8. Chain(r, s, b, m, d)
  BY <1>1, <1>3, <1>4, <1>5, <1>6, <1>7 DEF Chain
<1> QED
  BY <1>8 DEF n, r, m, d

LEMMA ChainTail ==
  ASSUME NEW q \in Seq(Task), q # <<>>, NEW s, NEW b, NEW l, NEW c,
         Chain(q, s, b, l, c)
  PROVE  LET commit == Head(q).kind = "commit"
         IN  Chain(Tail(q), IF commit THEN Head(q).buffer ELSE s,
                   IF commit THEN b - 1 ELSE b,
                   Shifted(l, Len(q)), Shifted(c, Len(q)))
<1> DEFINE n == Len(q)
           r == Tail(q)
           m == Shifted(l, n)
           d == Shifted(c, n)
           t == IF Head(q).kind = "commit" THEN Head(q).buffer ELSE s
           a == IF Head(q).kind = "commit" THEN b - 1 ELSE b
<1>1. /\ n \in Nat \ {0} /\ Len(r) = n - 1 /\ q[1] = Head(q)
      /\ \A j \in 1..(n - 1) : r[j] = q[j + 1]
  OBVIOUS
<1>2. /\ l \in [0..n -> MaybeBuffer] /\ c \in [0..n -> Nat]
      /\ l[0] = s /\ c[0] = b /\ c[n] = 0
      /\ \A j \in 1..n :
           IF q[j].kind = "commit"
           THEN l[j] = q[j].buffer /\ c[j - 1] = c[j] + 1
           ELSE l[j] = l[j - 1] /\ c[j - 1] = c[j]
      /\ \A i, j \in 0..n : i =< j => c[j] =< c[i]
      /\ \A j \in 0..n : c[j] = 0 => l[j] = l[n]
  BY DEF Chain
<1>3. /\ m \in [0..(n - 1) -> MaybeBuffer] /\ d \in [0..(n - 1) -> Nat]
      /\ \A j \in 0..(n - 1) : m[j] = l[j + 1] /\ d[j] = c[j + 1]
  BY <1>1, <1>2 DEF Shifted
<1> HIDE DEF n, r, m, d
<1>4. m[0] = t /\ d[0] = a /\ d[n - 1] = 0 /\ m[n - 1] = l[n]
  <2>1. m[0] = l[1] /\ d[0] = c[1] /\ c[1] \in Nat /\ c[0] \in Nat
        /\ d[n - 1] = c[n] /\ m[n - 1] = l[n]
    BY <1>1, <1>2, <1>3
  <2>2. IF q[1].kind = "commit"
        THEN l[1] = q[1].buffer /\ c[0] = c[1] + 1
        ELSE l[1] = l[0] /\ c[0] = c[1]
    <3>1. 1 \in 1..n /\ 1 - 1 = 0
      BY <1>1
    <3> QED
      BY <1>2, <3>1
  <2> QED
    BY <1>1, <1>2, <2>1, <2>2
<1>5. ASSUME NEW j \in 1..(n - 1)
      PROVE  IF r[j].kind = "commit"
             THEN m[j] = r[j].buffer /\ d[j - 1] = d[j] + 1
             ELSE m[j] = m[j - 1] /\ d[j - 1] = d[j]
  <2>1. j + 1 \in 1..n /\ j \in 0..(n - 1) /\ j - 1 \in 0..(n - 1)
        /\ (j - 1) + 1 = j /\ (j + 1) - 1 = j
    BY <1>1
  <2>2. r[j] = q[j + 1] /\ m[j] = l[j + 1] /\ d[j] = c[j + 1]
        /\ m[j - 1] = l[j] /\ d[j - 1] = c[j]
    BY <1>1, <1>3, <2>1
  <2>3. IF q[j + 1].kind = "commit"
        THEN l[j + 1] = q[j + 1].buffer /\ c[j] = c[j + 1] + 1
        ELSE l[j + 1] = l[j] /\ c[j] = c[j + 1]
    BY <1>2, <2>1
  <2> QED
    BY <2>2, <2>3
<1>6. \A i, j \in 0..(n - 1) : i =< j => d[j] =< d[i]
  BY <1>1, <1>2, <1>3
<1>7. \A j \in 0..(n - 1) : d[j] = 0 => m[j] = m[n - 1]
  BY <1>1, <1>2, <1>3, <1>4
<1>8. Chain(r, t, a, m, d)
  BY <1>1, <1>3, <1>4, <1>5, <1>6, <1>7 DEF Chain
<1> QED
  BY <1>8 DEF n, r, m, d
-----------------------------------------------------------------------------
(* The invariant.                                                          *)

\* No task releases what the screen shows from then on.
Apart(q, l) ==
    \A i \in 1..Len(q) : q[i].pre # None =>
        \A j \in i..Len(q) : l[j] # q[i].pre

\* Nothing the screen shows or will show is the producer's.
WillBeHeld(l) == \A j \in 0..Len(work) : l[j] # None => l[j] \in Acquired

\* A frame in which the node is no layer leaves the screen without it.
Leaves(l) == render = "release" /\ ~drawn.enabled => l[Len(work)] = None

\* While the node is no layer, a release is done at once only if no commit
\* still shows it: for each that does, a release goes through the queue.
Waits(l, c) ==
    ~drawn.enabled /\ (render = "idle" \/ ~drawn.lastEnabled) =>
        \A j \in 0..Len(work) : l[j] # None =>
            c[j] + drawn.tasks
            >= ReleaseTasks + IF render = "release" THEN 1 ELSE 0

InOrder(l, c) ==
    /\ Chain(work, shown, behind, l, c)
    /\ Apart(work, l) /\ WillBeHeld(l) /\ Leaves(l) /\ Waits(l, c)

ShowsInOrder == Orderly => \E l, c : InOrder(l, c)

LEMMA ShowsInit == Init => ShowsInOrder
<1> SUFFICES ASSUME Init PROVE \E l, c : InOrder(l, c)
  BY DEF ShowsInOrder
<1> DEFINE l == [j \in 0..0 |-> None]
           c == [j \in 0..0 |-> 0]
<1>1. work = <<>> /\ Len(work) = 0 /\ shown = None /\ behind = 0
      /\ render = "idle"
  BY DEF Init, PInit
<1>2. l \in [0..0 -> MaybeBuffer] /\ c \in [0..0 -> Nat]
      /\ \A j \in 0..0 : j = 0 /\ l[j] = None /\ c[j] = 0
  BY DEF MaybeBuffer
<1>3. 1..0 = {}
  OBVIOUS
<1> HIDE DEF l, c
<1>4. Chain(work, shown, behind, l, c)
  BY <1>1, <1>2, <1>3 DEF Chain
<1>5. Apart(work, l) /\ WillBeHeld(l) /\ Leaves(l) /\ Waits(l, c)
  BY <1>1, <1>2, <1>3 DEF Apart, WillBeHeld, Leaves, Waits
<1> QED
  BY <1>4, <1>5 DEF InOrder

\* A step that adds a commit of a buffer no task releases.
LEMMA CommitStep ==
  ASSUME TypeOK, NEW l, NEW c, InOrder(l, c), NEW layer \in Layer,
         work' = Append(work, CommitOf(layer)), behind' = behind + 1,
         shown' = shown, Acquired' = Acquired, drawn' = drawn,
         render \in {"idle", "commit"},
         render' = IF render = "commit" THEN "release" ELSE "idle",
         layer.buffer # None =>
            /\ layer.buffer \notin Named(work) /\ layer.buffer # layer.pre
            /\ layer.buffer \in Acquired /\ drawn.enabled
  PROVE  \E m, d : InOrder(m, d)'
<1> DEFINE n == Len(work)
           e == CommitOf(layer)
<1>a. PICK m, d : m = Extended(l, n, e.buffer) /\ d = Raised(c, n)
  OBVIOUS
<1>0. e \in Task /\ e.kind = "commit" /\ e.pre = layer.pre
      /\ e.buffer = layer.buffer /\ work \in Seq(Task)
  BY DEF CommitOf, Task, Layer, TypeOK
<1>1. Chain(work, shown, behind, m, d)'
  BY <1>0, <1>a, ChainCommit DEF InOrder
<1>2. /\ n \in Nat /\ Len(work') = n + 1 /\ work'[n + 1] = e
      /\ \A j \in 1..n : work'[j] = work[j] /\ work[j].pre \in Named(work)
  BY <1>0 DEF Named
<1>3. /\ m[n + 1] = layer.buffer /\ d[n + 1] = 0
      /\ \A j \in 0..n : m[j] = l[j] /\ d[j] = c[j] + 1 /\ c[j] \in Nat
  BY <1>0, <1>a, <1>2 DEF Extended, Raised, InOrder, Chain
<1> HIDE DEF n, e
<1>4. Apart(work', m)
  <2> SUFFICES ASSUME NEW i \in 1..(n + 1), work'[i].pre # None,
                      NEW j \in i..(n + 1)
               PROVE  m[j] # work'[i].pre
    BY <1>2 DEF Apart
  <2>1. CASE j = n + 1
    BY <1>0, <1>2, <1>3, <2>1
  <2>2. CASE j # n + 1
    <3>1. i \in 1..n /\ j \in i..n /\ j \in 0..n
      BY <1>2, <2>2
    <3> QED
      BY <1>2, <1>3, <3>1 DEF Apart, InOrder, n
  <2> QED
    BY <2>1, <2>2
<1>5. WillBeHeld(m)'
  BY <1>2, <1>3 DEF WillBeHeld, InOrder, n
<1>6. Leaves(m)'
  BY <1>2, <1>3 DEF Leaves
<1>7. Waits(m, d)'
  <2> SUFFICES ASSUME ~drawn.enabled, render' = "idle" \/ ~drawn.lastEnabled,
                      NEW j \in 0..(n + 1), m[j] # None
               PROVE  d[j] + drawn.tasks
                      >= ReleaseTasks + IF render' = "release" THEN 1 ELSE 0
    BY <1>2 DEF Waits
  <2>1. j \in 0..n
    BY <1>2, <1>3
  <2>2. c[j] + drawn.tasks >= ReleaseTasks + 0
    BY <1>3, <2>1 DEF Waits, InOrder, n
  <2>3. drawn.tasks \in Nat /\ ReleaseTasks \in Nat
    BY BufferAssumption DEF TypeOK, RenderParams
  <2> QED
    BY <1>3, <2>1, <2>2, <2>3
<1> QED
  BY <1>1, <1>4, <1>5, <1>6, <1>7 DEF InOrder

\* A step that does the first task: what it releases is not shown any more.
LEMMA TaskStep ==
  ASSUME TypeOK, NEW l, NEW c, InOrder(l, c), work # <<>>, work' = Tail(work),
         free' = Released(Head(work).pre), queue' = queue,
         shown' = IF Head(work).kind = "commit" THEN Head(work).buffer
                                                ELSE shown,
         behind' = IF Head(work).kind = "commit" THEN behind - 1 ELSE behind,
         drawn' = drawn, render' = render
  PROVE  \E m, d : InOrder(m, d)'
<1> DEFINE n == Len(work)
<1>a. PICK m, d : m = Shifted(l, n) /\ d = Shifted(c, n)
  OBVIOUS
<1>0. work \in Seq(Task) /\ None \notin Buffer /\ free \in SUBSET Buffer
  BY BufferAssumption DEF TypeOK
<1>1. Chain(work, shown, behind, m, d)'
  BY <1>0, <1>a, ChainTail DEF InOrder
<1>2. /\ n \in Nat \ {0} /\ Len(work') = n - 1 /\ Head(work) = work[1]
      /\ \A j \in 1..(n - 1) : work'[j] = work[j + 1]
  BY <1>0
<1>3. \A j \in 0..(n - 1) : m[j] = l[j + 1] /\ d[j] = c[j + 1]
  BY <1>a DEF Shifted
<1>4. \A j \in 0..(n - 1) : j + 1 \in 1..n /\ j + 1 \in 0..n
  BY <1>2
<1> HIDE DEF n
<1>5. Apart(work', m)
  <2> SUFFICES ASSUME NEW i \in 1..(n - 1), work'[i].pre # None,
                      NEW j \in i..(n - 1)
               PROVE  m[j] # work'[i].pre
    BY <1>2 DEF Apart
  <2>1. i + 1 \in 1..n /\ j + 1 \in (i + 1)..n /\ j \in 0..(n - 1)
    BY <1>2
  <2> QED
    BY <1>2, <1>3, <2>1 DEF Apart, InOrder, n
<1>6. WillBeHeld(m)'
  <2> SUFFICES ASSUME NEW j \in 0..(n - 1), m[j] # None
               PROVE  m[j] \in Acquired'
    BY <1>2 DEF WillBeHeld
  <2>1. l[j + 1] \in Acquired
    BY <1>3, <1>4 DEF WillBeHeld, InOrder, n
  <2>2. l[j + 1] # Head(work).pre
    <3>1. 1 \in 1..n /\ j + 1 \in 1..n
      BY <1>2, <1>4
    <3> QED
      BY <1>2, <1>3, <3>1 DEF Apart, InOrder, n
  <2> QED
    BY <1>3, <2>1, <2>2 DEF Acquired, Released
<1>7. Leaves(m)'
  <2>1. n - 1 \in 0..(n - 1) /\ (n - 1) + 1 = n
    BY <1>2
  <2> QED
    BY <1>2, <1>3, <2>1 DEF Leaves, InOrder, n
<1>8. Waits(m, d)'
  BY <1>2, <1>3, <1>4 DEF Waits, InOrder, n
<1> QED
  BY <1>1, <1>5, <1>6, <1>7, <1>8 DEF InOrder

\* A step that does not touch the queue, nor anything that is acquired.
LEMMA QuietStep ==
  ASSUME NEW l, NEW c, InOrder(l, c), Acquired \subseteq Acquired',
         UNCHANGED <<work, behind, shown>>, Leaves(l)', Waits(l, c)'
  PROVE  InOrder(l, c)'
BY DEF InOrder, WillBeHeld

\* The releases that have to go through the queue, once they are renewed.
Renewed == IF drawn.lastEnabled THEN ReleaseTasks ELSE drawn.tasks

\* What the end of a frame does with the node's buffer: nothing as long as it
\* is a layer, and otherwise one release, which counts.
LEMMA ReleaseFields ==
  ASSUME TypeOK, Created, Agree, Orderly, ReleaseSelfDrawingNodeBuffer
  PROVE  /\ render = "release" /\ render' = "idle"
         /\ drawn'.enabled = drawn.enabled
         /\ drawn'.lastEnabled = drawn.lastEnabled
         /\ UNCHANGED <<behind, shown, queue>>
         /\ \/ drawn.enabled /\ UNCHANGED <<work, free>>
            \/ /\ ~drawn.enabled /\ ~drawn.lastEnabled
               /\ drawn'.tasks = drawn.tasks /\ UNCHANGED <<work, free>>
            \/ /\ ~drawn.enabled /\ drawn'.tasks = CountedDown(Renewed)
               /\ \/ UNCHANGED <<work, free>>
                  \/ Renewed = 0 /\ work' = work
                  \/ /\ drawn.pre # None /\ free' = free
                     /\ work' = Append(work, ReleaseOf(drawn.pre))
<1> DEFINE need == drawn.buffer # None /\ (~drawn.enabled \/ ~drawn.created)
           num == TaskNumFor(need)
           pre == IF need THEN None ELSE drawn.pre
           left == IF need THEN CountedDown(num) ELSE drawn.tasks
<1>1. /\ render = "release" /\ render' = "idle"
      /\ UNCHANGED <<behind, shown, queue>>
  BY DEF ReleaseSelfDrawingNodeBuffer, Release, history
<1>2. drawn \in RenderParams /\ ReleaseTasks \in Nat
  BY BufferAssumption DEF TypeOK
<1>3. drawn.enabled => drawn.created
  BY <1>1 DEF Created, Orderly
<1>4. need => ~drawn.enabled
  BY <1>3
<1>5. need => num = Renewed
  BY <1>2 DEF TaskNumFor, Renewed, RenderParams
<1>6. ~need => num = drawn.tasks
  BY <1>2 DEF TaskNumFor, RenderParams
<1>7. num \in Nat
  BY <1>2, <1>5, <1>6 DEF Renewed, RenderParams
<1>8. ~need /\ ~drawn.enabled => ~drawn.lastEnabled
  BY <1>2 DEF Agree, RenderParams
<1>9. /\ drawn' = [drawn EXCEPT !.listed = FALSE, !.pre = pre, !.tasks = left]
      /\ work' = IF (need /\ drawn.pre # None) /\ num > 0
                 THEN Append(work, ReleaseOf(drawn.pre)) ELSE work
      /\ free' = IF (need /\ drawn.pre # None) /\ num = 0
                 THEN Released(drawn.pre) ELSE free
  BY Zenon DEF ReleaseSelfDrawingNodeBuffer
<1> HIDE DEF need, num, pre, left
<1>10. /\ drawn'.enabled = drawn.enabled
       /\ drawn'.lastEnabled = drawn.lastEnabled
       /\ drawn'.tasks = left
  BY <1>2, <1>9 DEF RenderParams
<1>11. CASE ~need
  <2>1. left = drawn.tasks
    BY <1>11 DEF left
  <2>2. work' = work /\ free' = free
    BY <1>9, <1>11
  <2> QED
    BY <1>1, <1>8, <1>10, <1>11, <2>1, <2>2
<1>12. CASE need
  <2>1. drawn'.tasks = CountedDown(Renewed) /\ ~drawn.enabled
    BY <1>4, <1>5, <1>10, <1>12 DEF left
  <2>2. CASE drawn.pre = None
    <3>1. work' = work /\ free' = free
      BY <1>9, <2>2
    <3> QED
      BY <1>1, <1>10, <2>1, <3>1
  <2>3. CASE drawn.pre # None /\ num > 0
    <3>1. work' = Append(work, ReleaseOf(drawn.pre)) /\ free' = free
      BY <1>7, <1>9, <1>12, <2>3
    <3> QED
      BY <1>1, <1>10, <2>1, <2>3, <3>1
  <2>4. CASE drawn.pre # None /\ num = 0
    <3>1. Renewed = 0 /\ work' = work
      BY <1>5, <1>7, <1>9, <1>12, <2>4
    <3> QED
      BY <1>1, <1>10, <2>1, <3>1
  <2> QED
    BY <1>7, <2>2, <2>3, <2>4
<1> QED
  BY <1>11, <1>12

\* At the end of a frame without the node a commit that still shows one of its
\* buffers has more tasks to come than the frame's own.
LEMMA WaitsLonger ==
  ASSUME TypeOK, NEW l, NEW c, InOrder(l, c), render = "release",
         ~drawn.enabled, NEW j \in 0..Len(work), l[j] # None
  PROVE  c[j] \in Nat /\ c[j] =< behind /\ c[j] + Renewed >= ReleaseTasks + 1
<1>1. Len(work) \in Nat /\ drawn.tasks \in Nat /\ ReleaseTasks \in Nat
      /\ 0 \in 0..Len(work)
  BY BufferAssumption DEF TypeOK, RenderParams
<1>2. c[j] \in Nat /\ c[j] =< behind
  BY <1>1 DEF InOrder, Chain
<1>3. l[Len(work)] = None
  BY DEF InOrder, Leaves
<1>4. c[j] # 0
  BY <1>3 DEF InOrder, Chain
<1>5. ~drawn.lastEnabled => c[j] + drawn.tasks >= ReleaseTasks + 1
  BY DEF InOrder, Waits
<1> QED
  BY <1>1, <1>2, <1>4, <1>5 DEF Renewed

LEMMA ReleaseStep ==
  ASSUME TypeOK, Created, Agree, Orderly, NEW l, NEW c, InOrder(l, c),
         Capacity =< ReleaseTasks, ReleaseSelfDrawingNodeBuffer
  PROVE  \E m, d : InOrder(m, d)'
<1> DEFINE n == Len(work)
<1>0. /\ work \in Seq(Task) /\ drawn \in RenderParams /\ free \in SUBSET Buffer
      /\ behind \in 0..Capacity /\ Capacity \in Nat /\ ReleaseTasks \in Nat
      /\ drawn.tasks \in Nat /\ n \in Nat
  BY BufferAssumption, CapacityAssumption DEF TypeOK, PTypeOK, RenderParams
<1>1. /\ render = "release" /\ render' = "idle"
      /\ drawn'.enabled = drawn.enabled
      /\ drawn'.lastEnabled = drawn.lastEnabled
      /\ UNCHANGED <<behind, shown, queue>>
  BY ReleaseFields
<1>2. CASE drawn.enabled /\ UNCHANGED <<work, free>>
  <2>1. Acquired' = Acquired /\ Leaves(l)' /\ Waits(l, c)'
    BY <1>1, <1>2 DEF Acquired, Leaves, Waits
  <2> QED
    BY <1>1, <1>2, <2>1, QuietStep
<1>3. ASSUME ~drawn.enabled, NEW j \in 0..n, l[j] # None
      PROVE  c[j] + CountedDown(Renewed) >= ReleaseTasks + 0 /\ Renewed # 0
  <2>1. c[j] \in Nat /\ c[j] =< behind /\ c[j] + Renewed >= ReleaseTasks + 1
    BY <1>1, <1>3, WaitsLonger
  <2> QED
    <3>1. Renewed \in Nat
      BY <1>0 DEF Renewed
    <3> QED
      BY <1>0, <2>1, <3>1 DEF CountedDown
<1>4. CASE /\ ~drawn.enabled /\ ~drawn.lastEnabled
           /\ drawn'.tasks = drawn.tasks /\ UNCHANGED <<work, free>>
  <2>1. Acquired' = Acquired /\ Leaves(l)'
    BY <1>1, <1>4 DEF Acquired, Leaves
  <2>2. Waits(l, c)'
    <3>1. \A j \in 0..n : l[j] # None => c[j] \in Nat
      BY <1>1, <1>4, WaitsLonger
    <3> QED
      BY <1>0, <1>1, <1>4, <3>1 DEF InOrder, Waits
  <2> QED
    BY <1>1, <1>4, <2>1, <2>2, QuietStep
<1>5. CASE ~drawn.enabled /\ drawn'.tasks = CountedDown(Renewed) /\ work' = work
           /\ (free' = free \/ Renewed = 0)
  <2>1. Leaves(l)' /\ Waits(l, c)'
    BY <1>1, <1>3, <1>5 DEF Leaves, Waits
  <2>2. WillBeHeld(l)'
    BY <1>1, <1>3, <1>5 DEF InOrder, WillBeHeld, Acquired
  <2> QED
    BY <1>1, <1>5, <2>1, <2>2 DEF InOrder
<1>6. CASE /\ ~drawn.enabled /\ drawn'.tasks = CountedDown(Renewed)
           /\ drawn.pre # None /\ free' = free
           /\ work' = Append(work, ReleaseOf(drawn.pre))
  <2> DEFINE e == ReleaseOf(drawn.pre)
  <2>1. PICK m, d : m = Extended(l, n, l[n]) /\ d = Extended(c, n, 0)
    OBVIOUS
  <2>2. e \in Task /\ e.kind = "release" /\ e.pre = drawn.pre
    BY <1>0 DEF ReleaseOf, Task, RenderParams, MaybeBuffer
  <2>3. Chain(work, shown, behind, m, d)'
    BY <1>0, <1>1, <1>6, <2>1, <2>2, ChainRelease DEF InOrder
  <2>4. /\ Len(work') = n + 1 /\ work'[n + 1] = e
        /\ \A j \in 1..n : work'[j] = work[j]
    BY <1>0, <1>6
  <2>5. /\ m[n + 1] = None /\ d[n + 1] = 0
        /\ \A j \in 0..n : m[j] = l[j] /\ d[j] = c[j]
    BY <1>0, <1>1, <1>6, <2>1 DEF Extended, InOrder, Leaves
  <2> HIDE DEF n, e
  <2>6. Apart(work', m)
    <3> SUFFICES ASSUME NEW i \in 1..(n + 1), work'[i].pre # None,
                        NEW j \in i..(n + 1)
                 PROVE  m[j] # work'[i].pre
      BY <2>4 DEF Apart
    <3>1. CASE j = n + 1
      BY <2>5, <3>1
    <3>2. CASE j # n + 1
      <4>1. i \in 1..n /\ j \in i..n /\ j \in 0..n
        BY <1>0, <3>2
      <4> QED
        BY <2>4, <2>5, <4>1 DEF Apart, InOrder, n
    <3> QED
      BY <3>1, <3>2
  <2>7. \A j \in 0..(n + 1) : m[j] # None => j \in 0..n
    BY <1>0, <2>5
  <2>8. WillBeHeld(m)'
    BY <1>1, <1>6, <2>4, <2>5, <2>7 DEF WillBeHeld, InOrder, Acquired, n
  <2>9. Leaves(m)' /\ Waits(m, d)'
    BY <1>1, <1>3, <1>6, <2>4, <2>5, <2>7 DEF Leaves, Waits
  <2> QED
    BY <2>3, <2>6, <2>8, <2>9 DEF InOrder
<1> QED
  BY <1>2, <1>4, <1>5, <1>6, ReleaseFields

LEMMA ShowsNext ==
  ASSUME TypeOK, Followed, Separate, Agree, Created, DrawnHeld, ShowsInOrder,
         Capacity =< ReleaseTasks, [Next]_vars
  PROVE  ShowsInOrder'
<1> SUFFICES ASSUME Orderly' PROVE \E m, d : InOrder(m, d)'
  BY DEF ShowsInOrder
<1>0. /\ Orderly /\ None \notin Buffer /\ queue \in Seq(Buffer)
      /\ drawn \in RenderParams /\ node \in NodeState
      /\ ownLayer \in Layer /\ drawnLayer \in Layer
  BY OrderlyBefore, BufferAssumption DEF TypeOK
<1>a. PICK l, c : InOrder(l, c)
  BY <1>0 DEF ShowsInOrder
<1>1. ASSUME NEW b \in Buffer, FlushBuffer(b)
      PROVE \E m, d : InOrder(m, d)'
  <2>1. free' = free \ {b} /\ b \in free /\ Range(queue') = Range(queue) \cup {b}
    BY <1>0, <1>1, RangeAppend DEF FlushBuffer
  <2>2. UNCHANGED <<render, drawn, work, behind, shown>>
    BY <1>1 DEF FlushBuffer, pipeVars
  <2>3. Leaves(l)' /\ Waits(l, c)' /\ Acquired \subseteq Acquired'
    BY <1>a, <2>1, <2>2 DEF InOrder, Leaves, Waits, Acquired
  <2> QED
    BY <1>a, <2>2, <2>3, QuietStep
<1>2. ASSUME NEW forbidden \in BOOLEAN, NEW other \in BOOLEAN,
             NEW onTree \in BOOLEAN, StartFrame(forbidden, other, onTree)
      PROVE \E m, d : InOrder(m, d)'
  <2>1. UNCHANGED <<free, render, drawn, work, behind, shown>>
    BY <1>2 DEF StartFrame, Start
  <2>2. queue' = queue \/ (queue # <<>> /\ queue' = Tail(queue))
    BY <1>2 DEF StartFrame
  <2>3. Range(queue') \subseteq Range(queue)
    BY <1>0, <2>2, RangeTail
  <2>4. Leaves(l)' /\ Waits(l, c)' /\ Acquired \subseteq Acquired'
    BY <1>a, <2>1, <2>3 DEF InOrder, Leaves, Waits, Acquired
  <2> QED
    BY <1>a, <2>1, <2>4, QuietStep
<1>3. CASE \/ (Skip \/ Direct) /\ UNCHANGED bufferVars
           \/ \E enabled \in BOOLEAN : FullFrame(enabled)
           \/ CreateLayer \/ UNCHANGED vars
  <2>1. UNCHANGED <<free, queue, render, drawn, work, behind, shown>>
    BY <1>3 DEF Skip, Direct, FullFrame, HandOver, CreateLayer, MakeLayers,
       vars, pipeVars, bufferVars
  <2>2. Leaves(l)' /\ Waits(l, c)' /\ Acquired \subseteq Acquired'
    BY <1>a, <2>1 DEF InOrder, Leaves, Waits, Acquired
  <2> QED
    BY <1>a, <2>1, <2>2, QuietStep
<1>4. CASE OnSync
  <2>1. /\ UNCHANGED <<free, queue, work, behind, shown>>
        /\ render = "idle" /\ render' = "draw" /\ main = "handed"
    BY <1>4 DEF OnSync, TakeOver
  <2>2. /\ drawn'.enabled = node.enabled
        /\ drawn'.lastEnabled = staged.lastEnabled
        /\ drawn'.tasks = drawn.tasks
    BY <1>0, <1>4, OnSyncFields
  <2>3. ~drawn'.enabled /\ ~drawn'.lastEnabled => ~drawn.enabled
    BY <2>2 DEF Agree
  <2>4. Leaves(l)' /\ Acquired \subseteq Acquired'
    BY <2>1 DEF Leaves, Acquired
  <2>5. Waits(l, c)'
    BY <1>a, <2>1, <2>2, <2>3 DEF InOrder, Waits
  <2> QED
    BY <1>a, <2>1, <2>4, <2>5, QuietStep
<1>5. CASE DrawNothing
  BY <1>5 DEF DrawNothing, Orderly
<1>6. CASE OnDraw
  <2>1. /\ UNCHANGED <<free, queue, work, behind, shown>>
        /\ render = "draw" /\ render' = "commit"
    BY <1>6 DEF OnDraw, Draw
  <2>2. /\ drawn'.enabled = drawn.enabled
        /\ drawn'.lastEnabled = drawn.lastEnabled
        /\ drawn'.tasks = drawn.tasks
    BY <1>0, <1>6, OnDrawFields
  <2>3. Leaves(l)' /\ Waits(l, c)' /\ Acquired \subseteq Acquired'
    BY <1>a, <2>1, <2>2 DEF InOrder, Leaves, Waits, Acquired
  <2> QED
    BY <1>a, <2>1, <2>3, QuietStep
<1>7. CASE ReleaseSelfDrawingNodeBuffer
  BY <1>0, <1>a, <1>7, ReleaseStep
<1>8. CASE CommitDirectFrame
  <2>1. /\ UNCHANGED <<free, queue, drawn, shown>>
        /\ work' = Append(work, CommitOf(ownLayer)) /\ behind' = behind + 1
        /\ main \in {"joined", "commit"} /\ render' = render
    BY <1>8 DEF CommitDirectFrame, CommitDirect
  <2>2. render = "idle"
    BY <1>8 DEF CommitDirectFrame, Orderly
  <2>3. Acquired' = Acquired
    BY <2>1 DEF Acquired
  <2>4. ASSUME ownLayer.buffer # None
        PROVE  /\ ownLayer.buffer \notin Named(work)
               /\ ownLayer.buffer # ownLayer.pre
               /\ ownLayer.buffer \in Acquired /\ drawn.enabled
    <3>1. node.enabled /\ ownLayer.buffer = handler.buffer
      BY <2>1, <2>4 DEF Agree, NullLayer
    <3>2. ownLayer.buffer \in Buffer
      BY <1>0, <2>4 DEF Layer, MaybeBuffer
    <3>3. InOnePlace(ownLayer.buffer)
      BY <1>0, <3>2 DEF Separate, Orderly
    <3>4. drawn.enabled
      BY <2>1, <3>1 DEF Agree
    <3> QED
      BY <3>1, <3>2, <3>3, <3>4 DEF InOnePlace, InRelease, Acquired
  <2> QED
    BY <1>0, <1>a, <2>1, <2>2, <2>3, <2>4, CommitStep
<1>9. CASE CommitDrawnFrame
  <2>1. /\ UNCHANGED <<free, queue, drawn, shown>>
        /\ work' = Append(work, CommitOf(drawnLayer)) /\ behind' = behind + 1
        /\ render = "commit" /\ render' = "release"
    BY <1>9 DEF CommitDrawnFrame, CommitDrawn
  <2>2. Acquired' = Acquired
    BY <2>1 DEF Acquired
  <2>3. ASSUME drawnLayer.buffer # None
        PROVE  /\ drawnLayer.buffer \notin Named(work)
               /\ drawnLayer.buffer # drawnLayer.pre
               /\ drawnLayer.buffer \in Acquired /\ drawn.enabled
    <3>1. drawn.enabled /\ drawnLayer.buffer = drawn.buffer
      BY <2>1, <2>3 DEF Agree
    <3> QED
      BY <1>0, <2>1, <2>3, <3>1, DrawnIsHeld
  <2> QED
    BY <1>0, <1>a, <2>1, <2>2, <2>3, CommitStep
<1>10. CASE Execute \/ ExecuteRelease
  <2>1. /\ work # <<>> /\ work' = Tail(work) /\ free' = Released(Head(work).pre)
        /\ UNCHANGED <<queue, drawn, render>>
    BY <1>10 DEF Execute, ExecuteCommit, ExecuteRelease, pipeVars
  <2>2. /\ shown' = IF Head(work).kind = "commit" THEN Head(work).buffer
                                                  ELSE shown
        /\ behind' = IF Head(work).kind = "commit" THEN behind - 1 ELSE behind
    BY <1>10 DEF Execute, ExecuteCommit, ExecuteRelease, pipeVars
  <2> QED
    BY <1>a, <2>1, <2>2, TaskStep
<1> QED
  BY <1>1, <1>2, <1>3, <1>4, <1>5, <1>6, <1>7, <1>8, <1>9, <1>10, Zenon DEF Next

-----------------------------------------------------------------------------
(* The theorem.                                                            *)

Shows == Agree /\ Created /\ DrawnHeld /\ ShowsInOrder

\* What the screen shows as a layer and what the GPU draws stays acquired until
\* another commit took its place, if at least as many releases of a node that
\* stopped being a layer go through the hardware thread's queue as commits can
\* wait there: as long as no buffer is put in a second layer and frames are
\* drawn and committed in order.
THEOREM ShownBuffersHeld ==
  ASSUME Capacity =< ReleaseTasks
  PROVE  Spec => []ShownHeld
<1>1. Init => Shows
  BY AgreeInit, ShowsInit DEF Shows, DrawnHeld, Init, PInit
<1>2. IInv /\ Shows /\ [Next]_vars => Shows'
  BY AgreeNext, CreatedNext, DrawnHeldNext, ShowsNext DEF IInv, Shows
<1>3. IInv /\ Shows => ShownHeld
  <2> SUFFICES ASSUME IInv, Shows, Orderly PROVE ShownHeld
    BY DEF ShownHeld, Orderly
  <2>1. PICK l, c : InOrder(l, c)
    BY DEF Shows, ShowsInOrder
  <2>2. l[0] = shown /\ 0 \in 0..Len(work)
    BY <2>1 DEF IInv, TypeOK, InOrder, Chain
  <2>3. shown # None => shown \in Acquired
    BY <2>1, <2>2 DEF InOrder, WillBeHeld
  <2>4. render \in {"draw", "commit"} /\ drawn.buffer # None
        => drawn.buffer \in Acquired
    BY DrawnIsHeld DEF IInv, Shows
  <2> QED
    BY <2>3, <2>4 DEF ShownHeld
<1> QED
  BY <1>1, <1>2, <1>3, Invariance, PTL DEF Spec
=============================================================================
