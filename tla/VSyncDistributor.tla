-------------------------- MODULE VSyncDistributor --------------------------
(***************************************************************************)
(* The dispatch of VSync events in the render service: a VSyncDistributor, *)
(* its connections, the VSyncController in front of it and the listener    *)
(* the controller registers with the VSyncGenerator.  Source:              *)
(* src/rosen/modules/composer/vsync, in the build without RS_ENABLE_DVSYNC *)
(* (the DVsync class is not part of the repository).                       *)
(*                                                                         *)
(* Threads: the binder threads serving the clients, the binder thread that *)
(* reports a dead client, the render service's main thread (Qos rates),    *)
(* and the generator thread.  A step is a critical section of              *)
(* VSyncDistributor::mutex_ or of VSyncConnection::mutex_; `pc' is the     *)
(* generator thread's place between them.                                  *)
(*                                                                         *)
(* Counters are kept as what the code reads of them: vsyncCount modulo     *)
(* VSyncCycle (it is only tested for divisibility by a rate), and instead  *)
(* of vsyncPulseCount and referencePulseCount_ their difference modulo     *)
(* vsyncPulseFreq_.  The order in which one event is posted to the         *)
(* collected connections is left open.                                     *)
(***************************************************************************)
EXTENDS Integers, FiniteSets

CONSTANTS
  Conn,          \* VSyncConnection objects
  Pid,           \* client processes
  Window,        \* non-zero windowNodeIds
  PidOf,         \* proxyPid_ of a connection
  WindowOf,      \* windowNodeId_ of a connection, or NoWindow
  NoWindow,      \* windowNodeId 0
  NamedByPid,    \* connections whose name is WM_<pid> (QosGetPidByName succeeds)
  PidOfWindow,   \* ExtractPid: the upper half of a windowNodeId
  VSYNC_CONNECTION_MAX_SIZE,
  VSyncModes,    \* the modes SetVSyncMode is called with
  AppRates,      \* the rates clients pass to SetVSyncRate
  Level,         \* RSVisibleLevel
  LevelRate,     \* rate NotifyVSyncRates derives from a level
  SystemAnimate, \* levels NotifyVSyncRates flags isSystemAnimateScene
  GeneratorRates,\* refresh rates the frame-rate manager sets
  ConnRates,     \* frame rates it gives to single connections
  VSyncCycle     \* a common multiple of the rates in use

VSYNC_MAX_REFRESHRATE == 360
DEFAULT_VSYNC_RATE == 1
NoChange == -1   \* no entry in changingConnsRefreshRates_

VSyncMode == {"LTPS", "LTPO"}
Key == Window \cup Pid

ASSUME ConnAssumption ==
  /\ PidOf \in [Conn -> Pid]
  /\ NoWindow \notin Window
  /\ WindowOf \in [Conn -> Window \cup {NoWindow}]
  /\ PidOfWindow \in [Window -> Pid]
  /\ NamedByPid \subseteq Conn
  /\ Window \cap Pid = {}
  /\ NoWindow \notin Pid
ASSUME RateAssumption ==
  /\ VSYNC_CONNECTION_MAX_SIZE \in Nat
  /\ VSyncModes \subseteq VSyncMode
  /\ AppRates \subseteq Nat \cup {-1}
  /\ LevelRate \in [Level -> Nat \ {0}]
  /\ SystemAnimate \subseteq Level
  /\ "none" \notin Level
  /\ GeneratorRates \subseteq {r \in 1..360 : 360 % r = 0}
  /\ ConnRates \subseteq Nat
  /\ VSyncCycle \in Nat \ {0}

VARIABLES
  \* VSyncConnection
  life,              \* "none", "created", "open" (the client holds it), "failed"
  isDead,            \* isDead_
  calls,             \* RequestNextVSync calls between the two locks
  rate,              \* rate_
  highPriorityRate,  \* highPriorityRate_
  highPriorityState, \* highPriorityState_
  triggerThisTime,   \* triggerThisTime_
  vsyncPulseFreq,    \* vsyncPulseFreq_
  pulsePhase,        \* (vsyncPulseCount - referencePulseCount_) % vsyncPulseFreq_
  stranded,          \* history: connections that follow a rate and were given
                     \* no new one when the generator's changed to one that is
                     \* not a multiple of what it was
  \* VSyncDistributor
  connections,       \* connections_
  connectionCounter, \* connectionCounter_
  connectionsMap,    \* connectionsMap_
  vsyncEnabled,      \* vsyncEnabled_
  vsyncCount,        \* event_.vsyncCount % VSyncCycle
  generatorRefreshRate, \* generatorRefreshRate_
  changingRates,     \* changingConnsRefreshRates_, by connection id
  levelOf,           \* the level each window was last notified with
  \* VSyncController and VSyncGenerator
  listeners,         \* entries of the controller in listeners_
  registered,        \* callback_ is set and listenersRecord_ has the controller
  vsyncMode,         \* vsyncMode_
  currRefreshRate,   \* currRefreshRate_
  due,               \* listener copies the generator thread still has to call
  pc,                \* "wait", "trigger", "post", "result"
  conns,             \* collected connections not yet posted to
  posted             \* the connection posted to last and PostEvent's result

connVars == <<life, isDead, calls>>
rateVars == <<rate, triggerThisTime>>
qosVars == <<highPriorityRate, highPriorityState, levelOf>>
pulseVars == <<vsyncPulseFreq, pulsePhase, stranded>>
regVars == <<connections, connectionCounter, connectionsMap>>
enableVars == <<vsyncEnabled, listeners, registered>>
eventVars == <<vsyncCount, generatorRefreshRate, changingRates>>
modelVars == <<vsyncMode, currRefreshRate>>
threadVars == <<due, pc, conns, posted>>
vars == <<connVars, rateVars, qosVars, pulseVars, regVars, enableVars,
          eventVars, modelVars, threadVars>>

Nothing == [conn |-> "none", ret |-> "none"]

TypeOK ==
  /\ life \in [Conn -> {"none", "created", "open", "failed"}]
  /\ isDead \in [Conn -> BOOLEAN]
  /\ calls \subseteq Conn
  /\ rate \in [Conn -> Nat \cup {-1}]
  /\ highPriorityRate \in [Conn -> Nat \cup {-1}]
  /\ highPriorityState \in [Conn -> BOOLEAN]
  /\ triggerThisTime \in [Conn -> BOOLEAN]
  /\ vsyncPulseFreq \in [Conn -> Nat \ {0}]
  /\ pulsePhase \in [Conn -> Nat]
  /\ stranded \subseteq Conn
  /\ connections \subseteq Conn
  /\ connectionCounter \in [Pid -> Int]
  /\ connectionsMap \in [Key -> SUBSET Conn]
  /\ vsyncEnabled \in BOOLEAN
  /\ vsyncCount \in 0..(VSyncCycle - 1)
  /\ generatorRefreshRate \in GeneratorRates \cup {0}
  /\ changingRates \in [Conn -> ConnRates \cup {NoChange}]
  /\ levelOf \in [Window -> Level \cup {"none"}]
  /\ listeners \in Nat
  /\ registered \in BOOLEAN
  /\ vsyncMode \in VSyncMode
  /\ currRefreshRate \in GeneratorRates \cup {0}
  /\ due \in Nat
  /\ pc \in {"wait", "trigger", "post", "result"}
  /\ conns \subseteq Conn
  /\ posted \in [conn : Conn, ret : {"OK", "EAGAIN", "OTHER"}] \cup {Nothing}

Init ==
  /\ life = [c \in Conn |-> "none"]
  /\ isDead = [c \in Conn |-> FALSE]
  /\ calls = {}
  /\ rate = [c \in Conn |-> -1]
  /\ highPriorityRate = [c \in Conn |-> -1]
  /\ highPriorityState = [c \in Conn |-> FALSE]
  /\ triggerThisTime = [c \in Conn |-> FALSE]
  /\ vsyncPulseFreq = [c \in Conn |-> 1]
  /\ pulsePhase = [c \in Conn |-> 0]
  /\ stranded = {}
  /\ connections = {}
  /\ connectionCounter = [p \in Pid |-> 0]
  /\ connectionsMap = [k \in Key |-> {}]
  /\ vsyncEnabled = FALSE
  /\ vsyncCount = 0
  /\ generatorRefreshRate = 0
  /\ changingRates = [c \in Conn |-> NoChange]
  /\ levelOf = [w \in Window |-> "none"]
  /\ listeners = 0
  /\ registered = FALSE
  /\ vsyncMode \in VSyncModes
  /\ currRefreshRate = 0
  /\ due = 0
  /\ pc = "wait"
  /\ conns = {}
  /\ posted = Nothing

-----------------------------------------------------------------------------
(* Turning the controller on and off.  VSyncGenerator::IsEnable is TRUE:   *)
(* period_ starts at the software period and no update makes it zero.      *)

AddListener == listeners' = listeners + 1

RemoveListener == listeners' = IF listeners > 0 THEN listeners - 1 ELSE 0

\* Mutant: no test of vsyncEnabled_.
EnableVSyncAgain ==
  /\ vsyncEnabled' = TRUE
  /\ registered' = TRUE
  /\ AddListener

EnableVSync ==
  IF vsyncEnabled
  THEN UNCHANGED enableVars
  ELSE /\ vsyncEnabled' = TRUE
       /\ registered' = TRUE
       /\ AddListener

DisableVSync ==
  IF vsyncEnabled
  THEN /\ vsyncEnabled' = FALSE
       /\ RemoveListener
       /\ UNCHANGED registered
  ELSE UNCHANGED enableVars

-----------------------------------------------------------------------------
(* The life of a connection.                                               *)

\* The key of connectionsMap_ under which a connection is filed, if any.
QosKeys(c) ==
  IF WindowOf[c] # NoWindow THEN {WindowOf[c]}
  ELSE IF c \in NamedByPid THEN {PidOf[c]} ELSE {}

\* RSRenderServiceConnection::CreateVSyncConnection makes the object (whose
\* constructor subscribes to the client's death), waits for the main thread to
\* register the frame-rate linker, and only then adds the connection.
CreateConnection(c) ==
  /\ life[c] = "none"
  /\ life' = [life EXCEPT ![c] = "created"]
  /\ UNCHANGED <<isDead, calls, rateVars, qosVars, pulseVars, regVars,
                 enableVars, eventVars, modelVars, threadVars>>

AddConnection(c) ==
  /\ life[c] = "created"
  /\ IF connectionCounter[PidOf[c]] > VSYNC_CONNECTION_MAX_SIZE
     THEN /\ life' = [life EXCEPT ![c] = "failed"]
          /\ UNCHANGED regVars
     ELSE /\ life' = [life EXCEPT ![c] = "open"]
          /\ connections' = connections \cup {c}
          /\ connectionCounter' = [connectionCounter EXCEPT ![PidOf[c]] = @ + 1]
          /\ connectionsMap' = [k \in Key |->
               IF k \in QosKeys(c) THEN connectionsMap[k] \cup {c}
               ELSE connectionsMap[k]]
  /\ UNCHANGED <<isDead, calls, rateVars, qosVars, pulseVars, enableVars,
                 eventVars, modelVars, threadVars>>

\* connectionsMap_ after RemoveConnection: everything filed under the
\* connection's window goes, under its pid only the connection itself.
Unfiled(c) ==
  [k \in Key |->
     IF k = WindowOf[c] THEN {}
     ELSE IF c \in NamedByPid /\ k = PidOf[c] THEN connectionsMap[k] \ {c}
     ELSE connectionsMap[k]]

\* Mutants: no search of connections_; nothing erased from it.
RemoveConnectionUnchecked(c) ==
  /\ connections' = connections \ {c}
  /\ connectionCounter' = [connectionCounter EXCEPT ![PidOf[c]] = @ - 1]
  /\ connectionsMap' = Unfiled(c)
RemoveConnectionKeptListed(c) ==
  /\ connectionCounter' = [connectionCounter EXCEPT ![PidOf[c]] = @ - 1]
  /\ connectionsMap' = Unfiled(c)
  /\ UNCHANGED connections

RemoveConnection(c) ==
  IF c \in connections
  THEN /\ connections' = connections \ {c}
       /\ connectionCounter' = [connectionCounter EXCEPT ![PidOf[c]] = @ - 1]
       /\ connectionsMap' = Unfiled(c)
  ELSE UNCHANGED regVars

\* VSyncConnection::Destroy, called by the client's receiver or on the death of
\* the client.  The death may be reported before AddConnection.
Destroy(c) ==
  /\ life[c] \in {"created", "open"}
  /\ ~isDead[c]
  /\ RemoveConnection(c)
  /\ isDead' = [isDead EXCEPT ![c] = TRUE]
  /\ UNCHANGED <<life, calls, rateVars, qosVars, pulseVars, enableVars,
                 eventVars, modelVars, threadVars>>

\* The last reference to a connection goes, and a later connection may reuse
\* the model's name for it.
ReleaseConnection(c) ==
  /\ life[c] = "failed" \/ (life[c] = "open" /\ isDead[c])
  /\ c \notin connections \cup calls \cup conns
  /\ \A k \in Key : c \notin connectionsMap[k]
  /\ posted.conn # c
  /\ life' = [life EXCEPT ![c] = "none"]
  /\ isDead' = [isDead EXCEPT ![c] = FALSE]
  /\ rate' = [rate EXCEPT ![c] = -1]
  /\ triggerThisTime' = [triggerThisTime EXCEPT ![c] = FALSE]
  /\ highPriorityRate' = [highPriorityRate EXCEPT ![c] = -1]
  /\ highPriorityState' = [highPriorityState EXCEPT ![c] = FALSE]
  /\ vsyncPulseFreq' = [vsyncPulseFreq EXCEPT ![c] = 1]
  /\ pulsePhase' = [pulsePhase EXCEPT ![c] = 0]
  /\ stranded' = stranded \ {c}
  /\ changingRates' = [changingRates EXCEPT ![c] = NoChange]
  /\ UNCHANGED <<calls, levelOf, regVars, enableVars, vsyncCount,
                 generatorRefreshRate, modelVars, threadVars>>

-----------------------------------------------------------------------------
(* The clients' calls.                                                     *)

\* VSyncConnection::RequestNextVSync tests isDead_ under its own mutex and
\* calls the distributor after releasing it.
BeginRequest(c) ==
  /\ life[c] = "open"
  /\ ~isDead[c]
  /\ calls' = calls \cup {c}
  /\ UNCHANGED <<life, isDead, rateVars, qosVars, pulseVars, regVars,
                 enableVars, eventVars, modelVars, threadVars>>

RequestNextVSync(c) ==
  /\ c \in calls
  /\ calls' = calls \ {c}
  /\ IF c \in connections
     THEN /\ rate' = [rate EXCEPT ![c] = IF @ < 0 THEN 0 ELSE @]
          /\ triggerThisTime' = [triggerThisTime EXCEPT ![c] = TRUE]
          /\ EnableVSync
     ELSE UNCHANGED <<rateVars, enableVars>>
  /\ UNCHANGED <<life, isDead, qosVars, pulseVars, regVars, eventVars,
                 modelVars, threadVars>>

\* The connection's mutex is held throughout.
SetVSyncRate(c, r) ==
  /\ life[c] = "open"
  /\ ~isDead[c]
  /\ c \in connections
  /\ rate[c] # r
  /\ rate' = [rate EXCEPT ![c] = r]
  /\ EnableVSync
  /\ UNCHANGED <<connVars, triggerThisTime, qosVars, pulseVars, regVars,
                 eventVars, modelVars, threadVars>>

-----------------------------------------------------------------------------
(* The main thread throttles windows by their visibility.                  *)

\* Mutant: the window's own connections are forgotten once its pid was looked up.
QosTargetsPidFirst(w, l) ==
  IF l \in SystemAnimate \/ LevelRate[l] = DEFAULT_VSYNC_RATE
  THEN connectionsMap[PidOfWindow[w]] \cap NamedByPid ELSE connectionsMap[w]

\* The connections SetQosVSyncRate(w, LevelRate[l], l \in SystemAnimate)
\* reaches: by the window's pid, then by the window itself.
QosTargets(w, l) ==
  (IF l \in SystemAnimate \/ LevelRate[l] = DEFAULT_VSYNC_RATE
   THEN connectionsMap[PidOfWindow[w]] \cap NamedByPid ELSE {})
  \cup connectionsMap[w]

SetQosVSyncRate(w, l) ==
  LET changed == {c \in QosTargets(w, l) : highPriorityRate[c] # LevelRate[l]}
  IN /\ highPriorityRate' = [c \in Conn |->
          IF c \in changed THEN LevelRate[l] ELSE highPriorityRate[c]]
     /\ highPriorityState' = [c \in Conn |-> c \in changed \/ highPriorityState[c]]
     /\ levelOf' = [levelOf EXCEPT ![w] = l]
     /\ IF changed # {} THEN EnableVSync ELSE UNCHANGED enableVars
     /\ UNCHANGED <<connVars, rateVars, pulseVars, regVars, eventVars,
                    modelVars, threadVars>>

-----------------------------------------------------------------------------
(* The generator thread.                                                   *)

Stride(r) == VSYNC_MAX_REFRESHRATE \div r

\* UpdateVSyncModeLocked takes over the mode set by SetVSyncMode.
SetVSyncMode(m) ==
  /\ pc = "wait"
  /\ vsyncMode # m
  /\ vsyncMode' = m
  /\ UNCHANGED <<connVars, rateVars, qosVars, pulseVars, regVars, enableVars,
                 eventVars, currRefreshRate, threadVars>>

\* The connections a change to rate g with the given rates leaves behind: they
\* follow a rate and neither get nor await one.  Counting by a fraction of the
\* old stride brings a phase to zero as well.
LeftBehind(g, rates) ==
  IF currRefreshRate > 0 /\ g % currRefreshRate = 0 THEN {}
  ELSE {c \in connections : /\ vsyncPulseFreq[c] > 1
                            /\ rates[c] = NoChange
                            /\ changingRates[c] = NoChange}

\* UpdateChangeDataLocked applies what the frame-rate manager asked for: the
\* generator's own rate, and rates for single connections, which reach the
\* distributor once its controller has been registered.  Nothing relates the
\* two: the generator's rate may change without rates for the connections.
ChangeRefreshRate(g, rates) ==
  /\ pc = "wait"
  /\ vsyncMode = "LTPO"
  /\ registered \/ \A c \in Conn : rates[c] = NoChange
  /\ currRefreshRate' = g
  /\ changingRates' = [c \in Conn |->
       IF rates[c] # NoChange THEN rates[c] ELSE changingRates[c]]
  /\ stranded' = stranded \cup LeftBehind(g, rates)
  /\ UNCHANGED <<connVars, rateVars, qosVars, vsyncPulseFreq, pulsePhase, regVars,
                 enableVars, vsyncCount, generatorRefreshRate, vsyncMode, threadVars>>

\* ListenerVsyncEventCB copies the listeners that are due and calls them
\* after releasing the generator's mutex.
ListenerVsyncEventCB ==
  /\ pc = "wait"
  /\ listeners > 0
  /\ due' = listeners
  /\ pc' = "trigger"
  /\ UNCHANGED <<connVars, rateVars, qosVars, pulseVars, regVars, enableVars,
                 eventVars, modelVars, conns, posted>>

\* The refresh rate the distributor knows once the event's rate is recorded.
NewGeneratorRate ==
  IF currRefreshRate > 0 THEN currRefreshRate ELSE generatorRefreshRate

\* ChangeConnsRateLocked: is connection c given a rate, and does the rate
\* divide the generator's?
RateChanges(c) == c \in connections /\ changingRates[c] # NoChange
RateFits(r) ==
  /\ NewGeneratorRate # 0
  /\ r # 0
  /\ VSYNC_MAX_REFRESHRATE % r = 0
  /\ NewGeneratorRate % r = 0

\* Mutant: a rate that does not fit leaves no frequency.
NewPulseFreqOrZero(c) ==
  IF ~RateChanges(c) THEN vsyncPulseFreq[c]
  ELSE IF RateFits(changingRates[c]) THEN Stride(changingRates[c]) ELSE 0

NewPulseFreq(c) ==
  IF ~RateChanges(c) THEN vsyncPulseFreq[c]
  ELSE IF RateFits(changingRates[c]) THEN Stride(changingRates[c]) ELSE 1

\* The pulses counted for this event: none before the first refresh rate.
Pulses == IF currRefreshRate > 0 THEN Stride(currRefreshRate) ELSE 0

\* Mutant: referencePulseCount_ is kept.
NewPulsePhaseKept(c) == (pulsePhase[c] + Pulses) % NewPulseFreq(c)

NewPulsePhase(c) ==
  IF RateChanges(c) THEN 0
  ELSE (pulsePhase[c] + Pulses) % vsyncPulseFreq[c]

\* CollectConnections: the rate in force, whether the connection keeps VSync on
\* and whether it is to be sent this event.  Without a Qos rate, a request
\* (rate_ = 0) is due at once; otherwise the count has to be a multiple.
RateInForce(c) ==
  IF highPriorityState[c] THEN highPriorityRate[c] ELSE rate[c]
\* Mutants: waitForVSync is set for requests only; whenever there is a rate.
WaitsForRequest(c) == RateInForce(c) = 0
WaitsForAnyRate(c) == RateInForce(c) >= 0

WaitsLTPS(c) == RateInForce(c) = 0 \/ (RateInForce(c) > 0 /\ rate[c] >= 0)
DueLTPS(c, count) ==
  /\ WaitsLTPS(c)
  /\ RateInForce(c) = 0 \/ count % RateInForce(c) = 0

\* Mutant: the client's rate is forgotten.
WaitsLTPOForRequest(c) == triggerThisTime[c]

\* CollectConnectionsLTPO: a rate set by the client means every event.
WaitsLTPO(c) == triggerThisTime[c] \/ rate[c] > 0
DueLTPO(c) == WaitsLTPO(c) /\ NewPulsePhase(c) = 0

Waits(c) == IF vsyncMode = "LTPO" THEN WaitsLTPO(c) ELSE WaitsLTPS(c)

Collected(count) ==
  {c \in connections :
     IF vsyncMode = "LTPO" THEN DueLTPO(c) ELSE DueLTPS(c, count)}

\* Mutant: a request is used up although it is not yet due.
UsedUpEarly(c, count) ==
  /\ c \in connections
  /\ Waits(c)
  /\ vsyncMode = "LTPO" \/ RateInForce(c) = 0 \/ rate[c] = 0

\* A collected connection's request is used up.  Under LTPS a rate set by the
\* client leaves triggerThisTime_ as it is.
UsedUp(c, count) ==
  /\ c \in Collected(count)
  /\ vsyncMode = "LTPO" \/ RateInForce(c) = 0 \/ rate[c] = 0

\* The generator thread goes on to the next listener copy or back to waiting.
AfterTrigger == /\ due' = due - 1
                /\ pc' = IF due > 1 THEN "trigger" ELSE "wait"

\* OnVSyncTrigger up to the point where it releases the distributor's mutex.
OnVSyncTrigger ==
  LET count == (vsyncCount + 1) % VSyncCycle
  IN /\ pc = "trigger"
     /\ vsyncCount' = count
     /\ generatorRefreshRate' = NewGeneratorRate
     /\ vsyncPulseFreq' = [c \in Conn |-> NewPulseFreq(c)]
     /\ pulsePhase' = [c \in Conn |-> NewPulsePhase(c)]
     /\ stranded' = {c \in stranded : ~RateChanges(c)}
     /\ changingRates' = [c \in Conn |-> NoChange]
     /\ rate' = [c \in Conn |->
          IF UsedUp(c, count) /\ (vsyncMode = "LTPO" => rate[c] = 0)
          THEN -1 ELSE rate[c]]
     /\ triggerThisTime' = [c \in Conn |->
          triggerThisTime[c] /\ ~UsedUp(c, count)]
     /\ IF \E c \in connections : Waits(c)
        THEN /\ conns' = Collected(count)
             /\ IF Collected(count) = {}
                THEN AfterTrigger ELSE pc' = "post" /\ UNCHANGED due
             /\ UNCHANGED enableVars
        ELSE /\ DisableVSync
             /\ AfterTrigger
             /\ UNCHANGED conns
     /\ UNCHANGED <<connVars, qosVars, regVars, modelVars, posted>>

\* VSyncConnection::PostEvent: a dead connection is an error; otherwise the
\* socket takes the event, is full even after its oldest event was dropped, or
\* fails.
PostEvent(c) ==
  /\ pc = "post"
  /\ c \in conns
  /\ conns' = conns \ {c}
  /\ \E ret \in IF isDead[c] THEN {"OTHER"} ELSE {"OK", "EAGAIN", "OTHER"} :
       posted' = [conn |-> c, ret |-> ret]
  /\ pc' = "result"
  /\ UNCHANGED <<connVars, rateVars, qosVars, pulseVars, regVars, enableVars,
                 eventVars, modelVars, due>>

\* The rest of OnVSyncTrigger's loop body, under the distributor's mutex again:
\* a failed connection is removed, a full one is to be tried at the next event.
HandlePostResult ==
  LET c == posted.conn
  IN /\ pc = "result"
     /\ IF posted.ret = "OTHER" THEN RemoveConnection(c) ELSE UNCHANGED regVars
     /\ IF posted.ret = "EAGAIN"
        THEN /\ triggerThisTime' = [triggerThisTime EXCEPT ![c] = TRUE]
             /\ rate' = [rate EXCEPT ![c] = IF @ < 0 THEN 0 ELSE @]
        ELSE UNCHANGED rateVars
     /\ posted' = Nothing
     /\ IF conns = {} THEN AfterTrigger ELSE pc' = "post" /\ UNCHANGED due
     /\ UNCHANGED <<connVars, qosVars, pulseVars, enableVars, eventVars,
                    modelVars, conns>>

-----------------------------------------------------------------------------
GeneratorStep ==
  \/ ListenerVsyncEventCB
  \/ OnVSyncTrigger
  \/ \E c \in Conn : PostEvent(c)
  \/ HandlePostResult

Next ==
  \/ \E c \in Conn : CreateConnection(c)
  \/ \E c \in Conn : AddConnection(c)
  \/ \E c \in Conn : Destroy(c)
  \/ \E c \in Conn : ReleaseConnection(c)
  \/ \E c \in Conn : BeginRequest(c)
  \/ \E c \in Conn : RequestNextVSync(c)
  \/ \E c \in Conn, r \in AppRates : SetVSyncRate(c, r)
  \/ \E w \in Window, l \in Level : SetQosVSyncRate(w, l)
  \/ \E m \in VSyncModes : SetVSyncMode(m)
  \/ \E g \in GeneratorRates, rates \in [Conn -> ConnRates \cup {NoChange}] :
       ChangeRefreshRate(g, rates)
  \/ ListenerVsyncEventCB
  \/ OnVSyncTrigger
  \/ \E c \in Conn : PostEvent(c)
  \/ HandlePostResult

Spec == Init /\ [][Next]_vars

\* The generator thread is never kept from running: it waits for a timeout
\* while it has a listener, and every mutex it takes is released by its holder.
FairSpec == Spec /\ WF_vars(GeneratorStep)

-----------------------------------------------------------------------------
(* Safety.                                                                 *)

\* What the distributor still owes a connection: every n-th event, or one
\* event for a request.
Wanted(c) == rate[c] > 0 \/ (rate[c] = 0 /\ triggerThisTime[c])

\* OnVSyncTrigger turns VSync off when no collected connection waits, while
\* clients request, set rates and are re-armed after a full socket; whatever
\* the order, VSync is on while an event is owed to a registered connection.
RequestKeepsVSyncOn == \A c \in connections : Wanted(c) => vsyncEnabled

\* EnableVSync and DisableVSync keep exactly one entry in the generator's
\* listener list, which has no check against duplicates: a second entry would
\* dispatch every event twice, and removal would leave one behind.
OneListener ==
  /\ listeners = IF vsyncEnabled THEN 1 ELSE 0
  /\ pc # "wait" => due = 1 /\ vsyncEnabled

\* connectionCounter_ counts the registered connections of each process,
\* whichever thread adds and removes them, and is bounded: the test against
\* VSYNC_CONNECTION_MAX_SIZE admits one connection more than its name says.
CounterMatchesConnections ==
  \A p \in Pid :
    /\ connectionCounter[p] = Cardinality({c \in connections : PidOf[c] = p})
    /\ connectionCounter[p] <= VSYNC_CONNECTION_MAX_SIZE + 1

\* SetQosVSyncRate never reaches a connection that was removed.
MapWithinConnections == \A k \in Key : connectionsMap[k] \subseteq connections

\* A connection whose client died before it was added stays registered, and one
\* whose client dies is removed; either way the distributor never owes a dead
\* connection an event, although a request may pass the isDead_ test before the
\* death and reach the distributor after it.
DeadNeverArmed ==
  \A c \in connections : isDead[c] => rate[c] < 0 /\ ~triggerThisTime[c]

\* LTPO: a connection that follows a rate stays aligned with the generator's
\* pulses, so its phase can reach zero: the generator's stride divides both
\* its frequency and its phase, or a new rate for it is pending, or it was
\* left behind by a change of the generator's rate (at 30 Hz, with frequency 12
\* and phase 3, a change from 120 to 60 Hz makes the phase 9, 3, 9, ... for
\* ever) and was given no rate since.
PulseAligned ==
  \A c \in connections \ stranded :
    currRefreshRate > 0 /\ vsyncPulseFreq[c] > 1 /\ changingRates[c] = NoChange =>
      /\ vsyncPulseFreq[c] % Stride(currRefreshRate) = 0
      /\ pulsePhase[c] % Stride(currRefreshRate) = 0

\* The connections SetQosVSyncRate finds under a window that have a Qos rate
\* have the one of the level the window was last notified with.
QosAgrees ==
  \A w \in Window : \A c \in connectionsMap[w] :
    highPriorityState[c] =>
      levelOf[w] # "none" /\ highPriorityRate[c] = LevelRate[levelOf[w]]

\* "windowNodeId for vsync rate control" (vsync_distributor.h:51): a registered
\* connection with a windowNodeId can be reached by that id.
WindowReachable ==
  \A c \in connections :
    WindowOf[c] # NoWindow => c \in connectionsMap[WindowOf[c]]

-----------------------------------------------------------------------------
(* The distributor implements VSyncService.                                *)

\* What a registered connection is owed.  Requested or armed alone (a request
\* withdrawn by SetVSyncRate(-1), a rate of 0 without a request) is served in
\* one of the modes only.
OwedTo(c) ==
  IF c \notin connections THEN "none"
  ELSE IF rate[c] > 0 THEN "always"
  ELSE IF rate[c] = 0 /\ triggerThisTime[c] THEN "once"
  ELSE IF rate[c] = 0 \/ triggerThisTime[c] THEN "maybe"
  ELSE "none"

Service == INSTANCE VSyncService
  WITH Client <- Conn,
       member <- connections,
       owed <- [c \in Conn |-> OwedTo(c)],
       inFlight <- conns \cup (IF posted = Nothing THEN {} ELSE {posted.conn}),
       on <- vsyncEnabled

\* Through two modes, Qos rates, strides and pulses, and with requests, rates
\* and deaths between its locks, the distributor sends an event to none but
\* those who are owed one, uses a request up with the event that answers it,
\* owes again what a full socket refused, and rests only when nothing is owed.
ImplementsService == Service!Spec

-----------------------------------------------------------------------------
(* Liveness.                                                               *)

Requested(c) == c \in connections /\ rate[c] = 0 /\ triggerThisTime[c]
Answered(c) ==
  \/ posted = [conn |-> c, ret |-> "OK"]
  \/ c \notin connections
  \/ rate[c] > 0                           \* replaced by a periodic rate
  \/ rate[c] < 0 /\ triggerThisTime[c]     \* cancelled by SetVSyncRate(-1)

\* The frame-rate manager does not switch modes for ever: each switch starts
\* the count of pulses anew.
ModeSettles == \E m \in VSyncModes : <>[](vsyncMode = m)

\* An accepted request is answered: its event is sent, unless the connection
\* goes, the client itself changes its rate, its socket is found full again and
\* again, or a change of the generator's rate left it behind and it is never
\* given a rate again: the one that comes answers it.
RequestAnswered ==
  ModeSettles =>
    \A c \in Conn :
      Requested(c) ~>
        \/ Answered(c)
        \/ []<>(posted = [conn |-> c, ret |-> "EAGAIN"])
        \/ [](c \in stranded)

\* VSync does not stay on without anyone asking for it.
VSyncTurnsOff ==
  ModeSettles => []<>(~vsyncEnabled \/ \E c \in connections : Wanted(c) \/ triggerThisTime[c])
=============================================================================
