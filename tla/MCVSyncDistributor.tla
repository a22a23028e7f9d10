------------------------- MODULE MCVSyncDistributor -------------------------
(* VSyncDistributor for TLC: values of the structured constants.            *)
EXTENDS VSyncDistributor, TLC

CONSTANTS c1, c2, c3, p1, p2, w1

SharedPidOf == [c \in Conn |-> p1]
OfP1 == [w \in Window |-> p1]

\* Two connections share a window; only c1 belongs to one; none does.
SharedWindowOf == [c \in Conn |-> w1]
MixedWindowOf == [c \in Conn |-> IF c = c1 THEN w1 ELSE NoWindow]
NoWindows == [c \in Conn |-> NoWindow]

EverySecondOrOff == {-1, 2}
EveryOrOff == {-1, 1}

SemiVisibleRates == ("visible" :> 1 @@ "semi" :> 2)
AnimatingRates == ("visible" :> 1 @@ "animating" :> 2)
NoLevels == [l \in Level |-> 1]
=============================================================================
