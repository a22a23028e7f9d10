------------------------- MODULE VSyncChannel_proof -------------------------
(***************************************************************************)
(* Proofs of the safety properties of VSyncChannel, for every number of    *)
(* threads and callbacks and every socket that holds two messages or more. *)
(***************************************************************************)
EXTENDS VSyncChannel, TLAPS

USE DEF serverVars, postVars, callbackVars, threadVars, looperVars, receiverVars

-----------------------------------------------------------------------------
(* Type correctness.                                                       *)

LEMMA InitType == Init => TypeOK
<1> SUFFICES ASSUME Init PROVE TypeOK
  OBVIOUS
<1>1. queued \in 0..Capacity
  BY CapacityAssumption DEF Init
<1>2. tpc \in [Thread -> {"idle", "flag", "call"}]
  BY DEF Init
<1> QED BY <1>1, <1>2 DEF Init, TypeOK

LEMMA StepType == TypeOK /\ [Next]_vars => TypeOK'
<1> SUFFICES ASSUME TypeOK, [Next]_vars PROVE TypeOK'
  OBVIOUS
<1> USE DEF TypeOK
<1>1. CASE Collect
  BY <1>1 DEF Collect
<1>2. CASE CheckDead
  BY <1>2 DEF CheckDead
<1>3. CASE Send
  BY <1>3, CapacityAssumption DEF Send
<1>4. CASE SendFull
  BY <1>4 DEF SendFull
<1>5. CASE SendError
  BY <1>5 DEF SendError
<1>6. CASE ReceiveData
  BY <1>6, CapacityAssumption DEF ReceiveData
<1>7. CASE HandlePostResult
  <2>1. registered' \in BOOLEAN /\ requested' \in BOOLEAN
    BY <1>7 DEF HandlePostResult
  <2> QED BY <1>7, <2>1 DEF HandlePostResult
<1>8. CASE Destroy
  <2>1. isDead' \in BOOLEAN /\ registered' \in BOOLEAN
    BY <1>8 DEF Destroy
  <2> QED BY <1>8, <2>1 DEF Destroy
<1>9. CASE \E t \in Thread, cb \in Callback \cup {NoCallback} : RequestNextVSync(t, cb)
  BY <1>9 DEF RequestNextVSync
<1>10. CASE \E t \in Thread : SetRNVFlag(t)
  BY <1>10 DEF SetRNVFlag
<1>11. CASE \E t \in Thread : CallConnection(t)
  BY <1>11 DEF CallConnection
<1>12. CASE \E t \in Thread : SkipRequest(t)
  BY <1>12 DEF SkipRequest
<1>13. CASE CloseFd \/ Release
  BY <1>13 DEF CloseFd, Release
<1>14. CASE HandleFileDescriptorEvent
  BY <1>14 DEF HandleFileDescriptorEvent
<1>15. CASE OnReadable
  BY <1>15 DEF OnReadable
<1>16. CASE Read
  <2>1. queued' \in 0..Capacity
    BY <1>16, CapacityAssumption DEF Read
  <2>2. dataRead' \in BOOLEAN
    BY <1>16 DEF Read
  <2>3. lpc' \in {"wait", "task", "read", "handle", "call"}
    BY <1>16 DEF Read
  <2> QED BY <1>16, <2>1, <2>2, <2>3 DEF Read
<1>17. CASE HandleVsyncCallbacks
  BY <1>17 DEF HandleVsyncCallbacks
<1>18. CASE CallbacksRun
  BY <1>18 DEF CallbacksRun
<1>19. CASE UNCHANGED vars
  BY <1>19 DEF vars
<1>20. CASE Die
  BY <1>20 DEF Die
<1> QED BY <1>1, <1>2, <1>3, <1>4, <1>5, <1>6, <1>7, <1>8, <1>9, <1>10, <1>11,
           <1>12, <1>13, <1>14, <1>15, <1>16, <1>17, <1>18, <1>19, <1>20 DEF Next

\* The variables have their types; the socket never holds more than it can.
THEOREM ChannelType == Spec => []TypeOK
  BY InitType, StepType, PTL DEF Spec

-----------------------------------------------------------------------------
(* A dispatch always has an event.                                         *)

\* Between SendData finding the socket full and PostEvent dropping a message the
\* client has not begun to read, is reading, or has read everything.
FullUntilRead ==
  spc = "receive" => queued \in {0, Capacity} \/ (lpc = "read" /\ dataRead)

\* A task that has read nothing yet still has a message to find.
ReadableFound ==
  lpc = "task" \/ (lpc = "read" /\ ~dataRead) => queued > 0

DispatchInv == fdOpen => FullUntilRead /\ ReadableFound /\ NoEmptyDispatch

LEMMA InitDispatch == Init => DispatchInv
  BY DEF Init, DispatchInv, FullUntilRead, ReadableFound, NoEmptyDispatch

\* What the invariant reads is left alone.
LEMMA DispatchStutter ==
  ASSUME DispatchInv, UNCHANGED <<spc, queued, lpc, dataRead, fdOpen>>
  PROVE  DispatchInv'
  BY DEF DispatchInv, FullUntilRead, ReadableFound, NoEmptyDispatch

LEMMA StepDispatch ==
  TypeOK /\ DispatchInv /\ [Next]_vars => DispatchInv'
<1> SUFFICES ASSUME TypeOK, DispatchInv, [Next]_vars, fdOpen'
             PROVE  DispatchInv'
  BY DEF DispatchInv
<1>fd. fdOpen
  BY DEF Next, Collect, CheckDead, Send, SendFull, SendError, ReceiveData,
         HandlePostResult, Destroy, RequestNextVSync, SetRNVFlag, CallConnection,
         SkipRequest, CloseFd, Release, Die, HandleFileDescriptorEvent, OnReadable,
         Read, HandleVsyncCallbacks, CallbacksRun, vars, receiverVars
<1>0. /\ queued \in 0..Capacity /\ Capacity \in Nat /\ Capacity >= 2
      /\ FullUntilRead /\ ReadableFound /\ NoEmptyDispatch /\ fdOpen
  BY <1>fd, CapacityAssumption DEF TypeOK, DispatchInv
<1> USE DEF FullUntilRead, ReadableFound, NoEmptyDispatch
<1>1. CASE Collect
  BY <1>0, <1>1 DEF Collect, DispatchInv
<1>2. CASE CheckDead
  BY <1>0, <1>2 DEF CheckDead, DispatchInv
<1>3. CASE Send
  BY <1>0, <1>3 DEF Send, DispatchInv
<1>4. CASE SendFull
  BY <1>0, <1>4 DEF SendFull, DispatchInv
<1>5. CASE SendError
  BY <1>0, <1>5 DEF SendError, DispatchInv
<1>6. CASE ReceiveData
  BY <1>0, <1>6 DEF ReceiveData, DispatchInv
<1>7. CASE HandlePostResult
  BY <1>0, <1>7 DEF HandlePostResult, DispatchInv
<1>8. CASE Destroy
  BY <1>0, <1>8 DEF Destroy, DispatchInv
<1>9. CASE \E t \in Thread, cb \in Callback \cup {NoCallback} : RequestNextVSync(t, cb)
  BY <1>9, DispatchStutter DEF RequestNextVSync
<1>10. CASE \E t \in Thread : SetRNVFlag(t)
  BY <1>10, DispatchStutter DEF SetRNVFlag
<1>11. CASE \E t \in Thread : CallConnection(t)
  BY <1>11, DispatchStutter DEF CallConnection
<1>12. CASE \E t \in Thread : SkipRequest(t)
  BY <1>12, DispatchStutter DEF SkipRequest
<1>13. CASE CloseFd \/ Release \/ Die
  BY <1>13, DispatchStutter DEF CloseFd, Release, Die
<1>14. CASE HandleFileDescriptorEvent
  BY <1>0, <1>14 DEF HandleFileDescriptorEvent, DispatchInv
<1>15. CASE OnReadable
  BY <1>0, <1>15 DEF OnReadable, DispatchInv
<1>16. CASE Read
  <2>1. CASE queued > 0
    BY <1>0, <1>16, <2>1 DEF Read, DispatchInv
  <2>2. CASE ~(queued > 0)
    BY <1>0, <1>16, <2>2 DEF Read, DispatchInv
  <2> QED BY <2>1, <2>2
<1>17. CASE HandleVsyncCallbacks
  BY <1>0, <1>17 DEF HandleVsyncCallbacks, DispatchInv
<1>18. CASE CallbacksRun
  BY <1>0, <1>18 DEF CallbacksRun, DispatchInv
<1>19. CASE UNCHANGED vars
  BY <1>19, DispatchStutter DEF vars
<1> QED BY <1>1, <1>2, <1>3, <1>4, <1>5, <1>6, <1>7, <1>8, <1>9, <1>10, <1>11,
           <1>12, <1>13, <1>14, <1>15, <1>16, <1>17, <1>18, <1>19 DEF Next

\* As long as its descriptor is open, OnReadable never passes on data it has not
\* read, although the server takes messages back when the socket is full.
THEOREM DispatchHasEvent == Spec => []NoEmptyDispatch
<1>1. TypeOK /\ DispatchInv /\ [Next]_vars => TypeOK' /\ DispatchInv'
  BY StepType, StepDispatch
<1>2. Init => TypeOK /\ DispatchInv
  BY InitType, InitDispatch
<1>3. DispatchInv => NoEmptyDispatch
  BY DEF DispatchInv, NoEmptyDispatch
<1> QED BY <1>1, <1>2, <1>3, PTL DEF Spec

-----------------------------------------------------------------------------
(* The flag by which threads refrain from requesting.                      *)

DeadUnregistered == isDead => ~registered

FlagInv == FlagMeansComing /\ DeadUnregistered

LEMMA InitFlag == Init => FlagInv
  BY DEF Init, FlagInv, FlagMeansComing, DeadUnregistered

\* A call that has set the flag and not yet reached the distributor.
Calling == \E t \in Thread : tpc[t] = "call"

LEMMA StepFlag == TypeOK /\ FlagInv /\ [Next]_vars => FlagInv'
<1> SUFFICES ASSUME TypeOK, FlagInv, [Next]_vars PROVE FlagInv'
  OBVIOUS
<1>0. /\ queued \in Nat
      /\ DeadUnregistered
      /\ RNVFlag => \/ ~registered
                    \/ requested
                    \/ spc \notin {"idle", "result"}
                    \/ spc = "result" /\ ret # "OK"
                    \/ queued > 0
                    \/ lpc = "handle" \/ (lpc = "read" /\ dataRead)
                    \/ Calling
  BY CapacityAssumption DEF TypeOK, FlagInv, FlagMeansComing, Calling
<1>q. /\ DeadUnregistered'
      /\ RNVFlag' => \/ ~registered'
                     \/ requested'
                     \/ spc' \notin {"idle", "result"}
                     \/ spc' = "result" /\ ret' # "OK"
                     \/ queued' > 0
                     \/ lpc' = "handle" \/ (lpc' = "read" /\ dataRead')
                     \/ Calling'
  <2> USE <1>0 DEF DeadUnregistered
  <2>c. UNCHANGED tpc => (Calling' <=> Calling)
    BY DEF Calling
  <2>1. CASE Collect
    BY <2>1 DEF Collect
  <2>2. CASE CheckDead
    BY <2>2 DEF CheckDead
  <2>3. CASE Send
    BY <2>3 DEF Send
  <2>4. CASE SendFull
    BY <2>4 DEF SendFull
  <2>5. CASE SendError
    BY <2>5 DEF SendError
  <2>6. CASE ReceiveData
    BY <2>6 DEF ReceiveData
  <2>7. CASE HandlePostResult
    <3>1. /\ registered' => registered
          /\ ret = "OTHER" => ~registered'
          /\ requested \/ ret = "EAGAIN" => requested'
      BY <2>7, Zenon DEF HandlePostResult
    <3>2. ret \in {"OK", "EAGAIN", "OTHER"} /\ spc = "result"
      BY <2>7 DEF TypeOK, HandlePostResult
    <3>3. UNCHANGED <<isDead, RNVFlag, queued, lpc, dataRead, tpc>>
      BY <2>7 DEF HandlePostResult
    <3> QED BY <2>c, <3>1, <3>2, <3>3
  <2>8. CASE Destroy
    BY <2>8, <2>c DEF Destroy
  <2>9. CASE \E t \in Thread, cb \in Callback \cup {NoCallback} : RequestNextVSync(t, cb)
    <3>1. Calling => Calling'
      BY <2>9 DEF RequestNextVSync, InitMutexFree, Calling
    <3> QED BY <2>9, <3>1 DEF RequestNextVSync
  <2>10. CASE \E t \in Thread : SetRNVFlag(t)
    <3>1. Calling'
      BY <2>10 DEF SetRNVFlag, Calling, TypeOK
    <3> QED BY <2>10, <3>1 DEF SetRNVFlag
  <2>11. CASE \E t \in Thread : CallConnection(t)
    <3>1. (registered => requested') /\ UNCHANGED <<registered, isDead>>
      BY <2>11, Zenon DEF CallConnection
    <3> QED BY <3>1
  <2>12. CASE \E t \in Thread : SkipRequest(t)
    BY <2>12, <2>c DEF SkipRequest
  <2>13. CASE CloseFd \/ Release
    BY <2>13, <2>c DEF CloseFd, Release
  <2>20. CASE Die
    BY <2>20 DEF Die
  <2>14. CASE HandleFileDescriptorEvent
    BY <2>14, <2>c DEF HandleFileDescriptorEvent
  <2>15. CASE OnReadable
    BY <2>15, <2>c DEF OnReadable
  <2>16. CASE Read
    <3>1. CASE fdOpen /\ queued > 0
      BY <2>16, <3>1 DEF Read
    <3>2. CASE ~(fdOpen /\ queued > 0)
      <4>1. UNCHANGED <<serverVars, postVars, RNVFlag, queued, tpc, dataRead>>
        BY <2>16, <3>2 DEF Read
      <4>2. lpc' = "handle"
        BY <2>16, <3>2 DEF Read
      <4> QED BY <4>1, <4>2
    <3> QED BY <3>1, <3>2
  <2>17. CASE HandleVsyncCallbacks
    BY <2>17 DEF HandleVsyncCallbacks
  <2>18. CASE CallbacksRun
    BY <2>18, <2>c DEF CallbacksRun
  <2>19. CASE UNCHANGED vars
    BY <2>19, <2>c DEF vars
  <2> QED BY <2>1, <2>2, <2>3, <2>4, <2>5, <2>6, <2>7, <2>8, <2>9, <2>10, <2>11,
             <2>12, <2>13, <2>14, <2>15, <2>16, <2>17, <2>18, <2>19, <2>20 DEF Next
<1> QED BY <1>q DEF FlagInv, FlagMeansComing, Calling

\* Whoever finds RNVFlag_ set can rely on an event that is still to be handled,
\* unless the connection is gone: no interleaving of requests, the server's
\* posting and the client's reading leaves the flag set with nothing under way.
THEOREM FlagIsKept == Spec => []FlagMeansComing
<1>1. TypeOK /\ FlagInv /\ [Next]_vars => TypeOK' /\ FlagInv'
  BY StepType, StepFlag
<1>2. Init => TypeOK /\ FlagInv
  BY InitType, InitFlag
<1>3. FlagInv => FlagMeansComing
  BY DEF FlagInv
<1> QED BY <1>1, <1>2, <1>3, PTL DEF Spec
=============================================================================
