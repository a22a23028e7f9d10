---------------------------- MODULE FramePipeline ----------------------------
(***************************************************************************)
(* What the threads of the render service promise each other about frames: *)
(* the abstract specification FrameHandOver implements and SurfaceBuffers  *)
(* is built on.                                                            *)
(*                                                                         *)
(* The main thread starts a frame and skips it, composes it directly or    *)
(* hands it to the UniRender thread, which takes over the node parameters  *)
(* while the main thread stands still, draws, commits and releases.  A     *)
(* direct frame is committed by the UniRender thread, after what it has in *)
(* hand, or by the main thread itself if the frame before was not handed   *)
(* over.  Commits wait for the hardware thread, which is never further     *)
(* behind than its capacity.                                               *)
(***************************************************************************)
EXTENDS Naturals

CONSTANT Capacity  \* commits the hardware thread can be behind

ASSUME CapacityAssumption == Capacity \in Nat

VARIABLES
    main,        \* what the main thread does with its frame
    render,      \* how far the UniRender thread is with the one it has
    doDirect,    \* nothing forbids to compose the main thread's frame directly
    lastDirect,  \* while it matters: the frame before was not handed over
    updated,     \* while it matters: a hardware layer has a new buffer in it
    behind       \* commits the hardware thread has not executed

pipeVars == <<main, render, doDirect, lastDirect, updated, behind>>

PInit ==
    /\ main = "idle" /\ render = "idle"
    /\ doDirect = TRUE /\ lastDirect = FALSE /\ updated = FALSE
    /\ behind = 0

Start(forbidden, consumed) ==
    /\ main = "idle"
    /\ main' = "frame"
    /\ lastDirect' = doDirect
    /\ doDirect' = ~forbidden
    /\ updated' = consumed
    /\ UNCHANGED <<render, behind>>

\* Nothing to update.
Skip ==
    /\ main = "frame" /\ doDirect /\ ~updated
    /\ main' = "idle"
    /\ lastDirect' = FALSE
    /\ UNCHANGED <<render, doDirect, updated, behind>>

Direct ==
    /\ main = "frame" /\ doDirect /\ updated
    /\ main' = "direct"
    /\ updated' = FALSE
    /\ UNCHANGED <<render, doDirect, lastDirect, behind>>

\* The layers of a direct frame are made, for one thread to commit.
MakeLayers ==
    /\ main = "direct"
    /\ main' = IF lastDirect THEN "commit" ELSE "joined"
    /\ lastDirect' = FALSE
    /\ UNCHANGED <<render, doDirect, updated, behind>>

HandOver ==
    /\ main = "frame"
    /\ main' = "handed"
    /\ doDirect' = FALSE /\ lastDirect' = FALSE /\ updated' = FALSE
    /\ UNCHANGED <<render, behind>>

\* The only step in which the UniRender thread reads what is the main
\* thread's; the main thread stands still before it and goes on after it.
TakeOver ==
    /\ main = "handed" /\ render = "idle"
    /\ main' = "idle" /\ render' = "draw"
    /\ UNCHANGED <<doDirect, lastDirect, updated, behind>>

Draw ==
    /\ render = "draw"
    /\ render' = "commit"
    /\ UNCHANGED <<main, doDirect, lastDirect, updated, behind>>

NotDrawn ==
    /\ render = "draw"
    /\ render' = "release"
    /\ UNCHANGED <<main, doDirect, lastDirect, updated, behind>>

CommitDrawn ==
    /\ render = "commit" /\ behind < Capacity
    /\ render' = "release"
    /\ behind' = behind + 1
    /\ UNCHANGED <<main, doDirect, lastDirect, updated>>

CommitDirect ==
    /\ main = "commit" \/ (main = "joined" /\ render = "idle")
    /\ behind < Capacity
    /\ main' = "idle"
    /\ behind' = behind + 1
    /\ UNCHANGED <<render, doDirect, lastDirect, updated>>

Release ==
    /\ render = "release"
    /\ render' = "idle"
    /\ UNCHANGED <<main, doDirect, lastDirect, updated, behind>>

ExecuteCommit ==
    /\ behind > 0
    /\ behind' = behind - 1
    /\ UNCHANGED <<main, render, doDirect, lastDirect, updated>>

PNext ==
    \/ \E forbidden, consumed \in BOOLEAN : Start(forbidden, consumed)
    \/ Skip \/ Direct \/ MakeLayers \/ HandOver \/ CommitDirect
    \/ TakeOver \/ Draw \/ NotDrawn \/ CommitDrawn \/ Release
    \/ ExecuteCommit

PSpec == PInit /\ [][PNext]_pipeVars

PTypeOK ==
    /\ main \in {"idle", "frame", "direct", "joined", "commit", "handed"}
    /\ render \in {"idle", "draw", "commit", "release"}
    /\ doDirect \in BOOLEAN /\ lastDirect \in BOOLEAN /\ updated \in BOOLEAN
    /\ behind \in 0..Capacity
=============================================================================
