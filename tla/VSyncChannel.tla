---------------------------- MODULE VSyncChannel ----------------------------
(***************************************************************************)
(* One VSync connection from its server end to the client's callbacks: the *)
(* steps of VSyncConnection::PostEvent on the socket pair, the client's    *)
(* VSyncReceiver with its listener, and the event loop that runs the       *)
(* listener's OnReadable.  Source: src/rosen/modules/composer/vsync,       *)
(* src/utils/socketpair and src/rosen/modules/platform/eventhandler_impl.  *)
(*                                                                         *)
(* The distributor behind the connection is kept as one bit, `requested':  *)
(* an event is owed (module VSyncDistributor).  All messages have the same *)
(* size and order is all that could tell them apart, so the socket is the  *)
(* number of messages in it.  A callback may call the receiver again; it   *)
(* runs without any lock, so that call is one of some thread while the     *)
(* looper is at "call".                                                    *)
(***************************************************************************)
EXTENDS Integers

CONSTANTS
  Thread,        \* client threads that call the VSyncReceiver
  Callback,      \* callbacks given to RequestNextVSyncWithMultiCallback
  Capacity       \* messages the socket buffer holds

\* SOCKET_CHANNEL_SIZE = 1024 asks the kernel for less than its minimum, which
\* holds several messages of three int64_t.
ASSUME CapacityAssumption == Capacity \in Nat /\ Capacity >= 2

NoCallback == "none"

VARIABLES
  \* server
  registered,     \* the connection is in connections_
  isDead,         \* isDead_
  requested,      \* an event is owed to the connection
  spc,            \* PostEvent: "idle", "check", "send", "receive", "resend", "result"
  ret,            \* its result
  queued,         \* messages in the socket
  \* client
  RNVFlag,        \* RNVFlag_
  frameCallbacks, \* frameCallbacks_
  callbacks,      \* the copy HandleVsyncCallbacks runs
  tpc,            \* per thread: "idle", "flag", "call"; not idle: it has initMutex_
  waiting,        \* threads that have asked for an event, or found one asked for
  lpc,            \* looper: "wait", "task", "read", "handle", "call"
  dataRead,       \* OnReadable's data[] has been written (dataCount > 0)
  fdOpen,         \* fd_ is open and listened to
  receiver        \* "alive", "closing", "released"; "dead" with its process

serverVars == <<registered, isDead, requested>>
postVars == <<spc, ret>>
callbackVars == <<RNVFlag, frameCallbacks>>
threadVars == <<tpc, waiting>>
looperVars == <<lpc, dataRead, callbacks>>
receiverVars == <<fdOpen, receiver>>
vars == <<serverVars, postVars, queued, callbackVars, threadVars, looperVars,
          receiverVars>>

TypeOK ==
  /\ registered \in BOOLEAN
  /\ isDead \in BOOLEAN
  /\ requested \in BOOLEAN
  /\ spc \in {"idle", "check", "send", "receive", "resend", "result"}
  /\ ret \in {"OK", "EAGAIN", "OTHER"}
  /\ queued \in 0..Capacity
  /\ RNVFlag \in BOOLEAN
  /\ frameCallbacks \subseteq Callback
  /\ callbacks \subseteq Callback
  /\ tpc \in [Thread -> {"idle", "flag", "call"}]
  /\ waiting \subseteq Thread
  /\ lpc \in {"wait", "task", "read", "handle", "call"}
  /\ dataRead \in BOOLEAN
  /\ fdOpen \in BOOLEAN
  /\ receiver \in {"alive", "closing", "released", "dead"}

\* VSyncReceiver::Init has run and the distributor has added the connection.
Init ==
  /\ registered = TRUE
  /\ isDead = FALSE
  /\ requested = FALSE
  /\ spc = "idle"
  /\ ret = "OK"
  /\ queued = 0
  /\ RNVFlag = FALSE
  /\ frameCallbacks = {}
  /\ callbacks = {}
  /\ tpc = [t \in Thread |-> "idle"]
  /\ waiting = {}
  /\ lpc = "wait"
  /\ dataRead = FALSE
  /\ fdOpen = TRUE
  /\ receiver = "alive"

-----------------------------------------------------------------------------
(* The server.                                                             *)

\* The generator thread collects the connection: the request is used up.
Collect ==
  /\ spc = "idle"
  /\ registered
  /\ requested
  /\ requested' = FALSE
  /\ spc' = "check"
  /\ UNCHANGED <<registered, isDead, ret, queued, callbackVars, threadVars,
                 looperVars, receiverVars>>

\* PostEvent tests isDead_ and takes a reference to the socket pair.
CheckDead ==
  /\ spc = "check"
  /\ IF isDead THEN spc' = "result" /\ ret' = "OTHER"
     ELSE spc' = "send" /\ UNCHANGED ret
  /\ UNCHANGED <<serverVars, queued, callbackVars, threadVars, looperVars,
                 receiverVars>>

\* LocalSocketPair::SendData, when the socket has room.
Send ==
  /\ spc \in {"send", "resend"}
  /\ queued < Capacity
  /\ queued' = queued + 1
  /\ spc' = "result"
  /\ ret' = "OK"
  /\ UNCHANGED <<serverVars, callbackVars, threadVars, looperVars, receiverVars>>

\* It has none: PostEvent drops the earliest message and tries once more.
SendFull ==
  /\ queued = Capacity
  /\ \/ spc = "send" /\ spc' = "receive" /\ UNCHANGED ret
     \/ spc = "resend" /\ spc' = "result" /\ ret' = "EAGAIN"
  /\ UNCHANGED <<serverVars, queued, callbackVars, threadVars, looperVars,
                 receiverVars>>

\* Any other error of the socket.
SendError ==
  /\ spc \in {"send", "resend"}
  /\ spc' = "result"
  /\ ret' = "OTHER"
  /\ UNCHANGED <<serverVars, queued, callbackVars, threadVars, looperVars,
                 receiverVars>>

\* Mutants: a failed recv counts for one; the socket is emptied.
ReceiveDataUnchecked ==
  /\ spc = "receive"
  /\ queued' = queued - 1
  /\ spc' = "resend"
  /\ UNCHANGED <<serverVars, ret, callbackVars, threadVars, looperVars,
                 receiverVars>>
ReceiveAllData ==
  /\ spc = "receive"
  /\ queued' = 0
  /\ spc' = "resend"
  /\ UNCHANGED <<serverVars, ret, callbackVars, threadVars, looperVars,
                 receiverVars>>

\* The client may have emptied the socket since SendData found it full.
ReceiveData ==
  /\ spc = "receive"
  /\ queued' = IF queued > 0 THEN queued - 1 ELSE 0
  /\ spc' = "resend"
  /\ UNCHANGED <<serverVars, ret, callbackVars, threadVars, looperVars,
                 receiverVars>>

\* Mutant: the request is only taken back once the event is sent.
HandlePostResultClearing ==
  /\ spc = "result"
  /\ registered' = (registered /\ ret # "OTHER")
  /\ requested' = (ret = "EAGAIN")
  /\ spc' = "idle"
  /\ UNCHANGED <<isDead, ret, queued, callbackVars, threadVars, looperVars,
                 receiverVars>>

\* OnVSyncTrigger removes a failed connection and re-arms a full one.
HandlePostResult ==
  /\ spc = "result"
  /\ registered' = (registered /\ ret # "OTHER")
  /\ requested' = (requested \/ ret = "EAGAIN")
  /\ spc' = "idle"
  /\ UNCHANGED <<isDead, ret, queued, callbackVars, threadVars, looperVars,
                 receiverVars>>

\* VSyncConnection::Destroy: the receiver's destructor calls it once it has
\* closed the descriptor, or the death recipient once the client is dead.  Both
\* ends of the socket are the server's as well, so the client, which has closed
\* its own by now, never reads the end of the stream.
Destroy ==
  /\ ~isDead
  /\ receiver \in {"closing", "dead"}
  /\ isDead' = TRUE
  /\ registered' = FALSE
  /\ UNCHANGED <<requested, postVars, queued, callbackVars, threadVars,
                 looperVars, receiverVars>>

-----------------------------------------------------------------------------
(* The client's threads.  initMutex_ is held over the whole call.          *)

InitMutexFree == \A t \in Thread : tpc[t] = "idle"

\* RequestNextVSync sets the callback for every event; ...WithMultiCallback(cb)
\* adds a callback for one.
RequestNextVSync(t, cb) ==
  /\ receiver = "alive"
  /\ InitMutexFree
  /\ cb \notin frameCallbacks
  /\ frameCallbacks' = IF cb = NoCallback THEN frameCallbacks
                       ELSE frameCallbacks \cup {cb}
  /\ tpc' = [tpc EXCEPT ![t] = "flag"]
  /\ UNCHANGED <<serverVars, postVars, queued, RNVFlag, waiting, looperVars,
                 receiverVars>>

SetRNVFlag(t) ==
  /\ tpc[t] = "flag"
  /\ RNVFlag' = TRUE
  /\ tpc' = [tpc EXCEPT ![t] = "call"]
  /\ UNCHANGED <<serverVars, postVars, queued, frameCallbacks, waiting,
                 looperVars, receiverVars>>

\* connection_->RequestNextVSync arrives at the distributor.
CallConnection(t) ==
  /\ tpc[t] = "call"
  /\ requested' = (requested \/ registered)
  /\ waiting' = waiting \cup {t}
  /\ tpc' = [tpc EXCEPT ![t] = "idle"]
  /\ UNCHANGED <<registered, isDead, postVars, queued, callbackVars,
                 looperVars, receiverVars>>

\* ForceRefreshOneFrameIfNoRNV and AddUiCaptureTask leave it at that when
\* IsRequestedNextVSync finds the flag set.
SkipRequest(t) ==
  /\ receiver = "alive"
  /\ InitMutexFree
  /\ RNVFlag
  /\ waiting' = waiting \cup {t}
  /\ UNCHANGED <<serverVars, postVars, queued, callbackVars, tpc, looperVars,
                 receiverVars>>

\* ~VSyncReceiver, or CloseVsyncReceiverFd: the listener is taken off the event
\* loop and the descriptor is closed.  A task already queued for it stays.
CloseFd ==
  /\ receiver = "alive"
  /\ InitMutexFree
  /\ fdOpen
  /\ fdOpen' = FALSE
  /\ receiver' \in {"alive", "closing"}
  /\ UNCHANGED <<serverVars, postVars, queued, callbackVars, threadVars, looperVars>>

\* The destructor has called Destroy, or finds the descriptor closed before and
\* calls nothing; the event loop only has a weak reference left.
Release ==
  /\ \/ receiver = "closing" /\ isDead
     \/ receiver = "alive" /\ ~fdOpen /\ InitMutexFree
  /\ receiver' = "released"
  /\ UNCHANGED <<serverVars, postVars, queued, callbackVars, threadVars,
                 looperVars, fdOpen>>

\* The client's process dies, with its descriptor, threads and callbacks.
Die ==
  /\ receiver # "dead"
  /\ receiver' = "dead"
  /\ fdOpen' = FALSE
  /\ RNVFlag' = FALSE
  /\ frameCallbacks' = {}
  /\ callbacks' = {}
  /\ tpc' = [t \in Thread |-> "idle"]
  /\ waiting' = {}
  /\ lpc' = "wait"
  /\ dataRead' = FALSE
  /\ UNCHANGED <<serverVars, postVars, queued>>

-----------------------------------------------------------------------------
(* The event loop.                                                         *)

\* HandleFileDescriptorEvent queues a task for a readable descriptor.
HandleFileDescriptorEvent ==
  /\ lpc = "wait"
  /\ fdOpen
  /\ queued > 0
  /\ lpc' = "task"
  /\ UNCHANGED <<serverVars, postVars, queued, callbackVars, threadVars,
                 dataRead, callbacks, receiverVars>>

\* The task runs unless the listener has been released.
OnReadable ==
  /\ lpc = "task"
  /\ lpc' = IF receiver = "released" THEN "wait" ELSE "read"
  /\ dataRead' = FALSE
  /\ UNCHANGED <<serverVars, postVars, queued, callbackVars, threadVars,
                 callbacks, receiverVars>>

\* Each read takes a message, until there is none left or the descriptor is bad.
Read ==
  /\ lpc = "read"
  /\ IF fdOpen /\ queued > 0
     THEN queued' = queued - 1 /\ dataRead' = TRUE /\ UNCHANGED lpc
     ELSE lpc' = "handle" /\ UNCHANGED <<queued, dataRead>>
  /\ UNCHANGED <<serverVars, postVars, callbackVars, threadVars, callbacks,
                 receiverVars>>

\* Mutant: RNVFlag_ is not reset.
HandleVsyncCallbacksKeepingFlag ==
  /\ lpc = "handle"
  /\ callbacks' = frameCallbacks
  /\ frameCallbacks' = {}
  /\ waiting' = {}
  /\ lpc' = "call"
  /\ UNCHANGED <<serverVars, postVars, queued, RNVFlag, tpc, dataRead, receiverVars>>

\* The locked part of HandleVsyncCallbacks.
HandleVsyncCallbacks ==
  /\ lpc = "handle"
  /\ RNVFlag' = FALSE
  /\ callbacks' = frameCallbacks
  /\ frameCallbacks' = {}
  /\ waiting' = {}
  /\ lpc' = "call"
  /\ UNCHANGED <<serverVars, postVars, queued, tpc, dataRead, receiverVars>>

\* Mutant: the callbacks are cleared after they have been called.
CallbacksRunAndCleared ==
  /\ lpc = "call"
  /\ callbacks' = {}
  /\ frameCallbacks' = {}
  /\ lpc' = "wait"
  /\ UNCHANGED <<serverVars, postVars, queued, RNVFlag, threadVars, dataRead,
                 receiverVars>>

CallbacksRun ==
  /\ lpc = "call"
  /\ callbacks' = {}
  /\ lpc' = "wait"
  /\ UNCHANGED <<serverVars, postVars, queued, callbackVars, threadVars,
                 dataRead, receiverVars>>

-----------------------------------------------------------------------------
ServerStep == \/ Collect \/ CheckDead \/ Send \/ SendFull \/ SendError
              \/ ReceiveData \/ HandlePostResult
LooperStep == \/ HandleFileDescriptorEvent \/ OnReadable \/ Read
              \/ HandleVsyncCallbacks \/ CallbacksRun

Next ==
  \/ Collect
  \/ CheckDead
  \/ Send
  \/ SendFull
  \/ SendError
  \/ ReceiveData
  \/ HandlePostResult
  \/ Destroy
  \/ \E t \in Thread, cb \in Callback \cup {NoCallback} : RequestNextVSync(t, cb)
  \/ \E t \in Thread : SetRNVFlag(t)
  \/ \E t \in Thread : CallConnection(t)
  \/ \E t \in Thread : SkipRequest(t)
  \/ CloseFd
  \/ Release
  \/ Die
  \/ HandleFileDescriptorEvent
  \/ OnReadable
  \/ Read
  \/ HandleVsyncCallbacks
  \/ CallbacksRun

Spec == Init /\ [][Next]_vars

\* The server posts what it owes (VSyncDistributor: VSync is on and the generator
\* thread runs), the looper thread runs what is ready, and a call ends.  Events
\* are a period apart and a read is not, so OnReadable does not for ever find
\* that another message has arrived.
FairSpec ==
  /\ Spec
  /\ WF_vars(ServerStep)
  /\ WF_vars(LooperStep)
  /\ []<>(lpc # "read")
  /\ \A t \in Thread : WF_vars(SetRNVFlag(t)) /\ WF_vars(CallConnection(t))

-----------------------------------------------------------------------------
(* Properties.                                                             *)

\* OnReadable only takes the latest timestamp, and passes an uninitialised one
\* on if it has read nothing.  The server may take messages out of the socket
\* while the client's task for it is queued or reading, but never the last: as
\* long as the descriptor is open there is one to read.
NoEmptyDispatch == lpc = "handle" /\ fdOpen => dataRead

\* "only take the latest timestamp" (vsync_receiver.cpp:47): what OnReadable
\* hands to the callbacks is a timestamp it received, whatever the descriptor.
OnlyReceivedTimestamps == lpc = "handle" => dataRead

\* While RNVFlag_ is set, and so others refrain from requesting, an event is
\* owed, on its way through PostEvent, in the socket, or about to be handled; or
\* the request is still being made, or the connection is gone.
FlagMeansComing ==
  RNVFlag =>
    \/ ~registered
    \/ requested
    \/ spc \notin {"idle", "result"}
    \/ spc = "result" /\ ret # "OK"
    \/ queued > 0
    \/ lpc = "handle" \/ (lpc = "read" /\ dataRead)
    \/ \E t \in Thread : tpc[t] = "call"

\* A thread that requested an event, or relied on a request made by another, is
\* followed by an event, whatever is sent, dropped and read meanwhile.
WaitersServed ==
  \A t \in Thread : t \in waiting ~> t \notin waiting \/ ~registered \/ ~fdOpen

\* A callback added for one event is called, although callbacks are added while
\* earlier ones are copied, called and cleared.
FrameCallbackCalled ==
  \A cb \in Callback :
    cb \in frameCallbacks ~> cb \in callbacks \/ ~registered \/ ~fdOpen
=============================================================================
