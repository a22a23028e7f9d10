------------------------- MODULE VSyncService_proof -------------------------
(***************************************************************************)
(* VSyncDistributor implements VSyncService, for every set of connections, *)
(* processes, windows and rates.                                           *)
(***************************************************************************)
EXTENDS VSyncDistributor_proof

USE DEF connVars, rateVars, qosVars, pulseVars, regVars, enableVars,
        eventVars, modelVars, threadVars

\* Between two events the generator thread holds no connection, and the one
\* whose result it handles is not to be posted to again.
Stages ==
  /\ pc # "result" => posted = Nothing
  /\ pc \in {"wait", "trigger"} => conns = {}
  /\ pc = "result" => posted.conn \notin conns

LEMMA InitStages == Init => Stages
  BY DEF Init, Stages

LEMMA StepStages == ThreadInv /\ Stages /\ [Next]_vars => Stages'
<1> SUFFICES ASSUME ThreadInv, Stages, [Next]_vars PROVE Stages'
  OBVIOUS
<1> USE DEF Stages
<1>0. TypeOK
  BY DEF ThreadInv
<1>a. CASE UNCHANGED <<pc, conns, posted>>
  BY <1>a
<1>1. CASE ListenerVsyncEventCB
  BY <1>1 DEF ListenerVsyncEventCB
<1>2. CASE OnVSyncTrigger
  <2>1. posted' = Nothing
    BY <1>2 DEF OnVSyncTrigger
  <2>2. \/ pc' = "post"
        \/ pc' \in {"trigger", "wait"} /\ conns' = {}
    BY <1>2 DEF OnVSyncTrigger, AfterTrigger
  <2> QED BY <2>1, <2>2
<1>3. CASE \E c \in Conn : PostEvent(c)
  <2>1. PICK c \in Conn : PostEvent(c)
    BY <1>3
  <2>2. pc' = "result" /\ conns' = conns \ {c} /\ posted'.conn = c
    BY <2>1 DEF PostEvent
  <2> QED BY <2>2
<1>4. CASE HandlePostResult
  <2>1. posted' = Nothing /\ conns' = conns
    BY <1>4 DEF HandlePostResult
  <2>2. \/ pc' = "post"
        \/ pc' \in {"trigger", "wait"} /\ conns = {}
    BY <1>4 DEF HandlePostResult, AfterTrigger
  <2> QED BY <2>1, <2>2
<1>5. CASE Next /\ ~ListenerVsyncEventCB /\ ~OnVSyncTrigger
           /\ ~(\E c \in Conn : PostEvent(c)) /\ ~HandlePostResult
  BY <1>5, <1>a DEF Next, CreateConnection, AddConnection, Destroy,
     ReleaseConnection, BeginRequest, RequestNextVSync, SetVSyncRate,
     SetQosVSyncRate, SetVSyncMode, ChangeRefreshRate
<1>6. CASE UNCHANGED vars
  BY <1>6, <1>a DEF vars
<1> QED BY <1>1, <1>2, <1>3, <1>4, <1>5, <1>6

-----------------------------------------------------------------------------
(* The refinement mapping.                                                 *)

Flying == conns \cup (IF posted = Nothing THEN {} ELSE {posted.conn})
OwedMap == [c \in Conn |-> OwedTo(c)]

ServiceInv == ThreadInv /\ ConnInv /\ RequestInv /\ Stages

\* A step that leaves what is mapped alone is a stutter.
LEMMA SameService ==
  ASSUME UNCHANGED <<rate, triggerThisTime, connections, conns, posted, vsyncEnabled>>
  PROVE  UNCHANGED Service!serviceVars
<1>1. OwedMap' = OwedMap
  BY DEF OwedMap, OwedTo
<1>2. Flying' = Flying
  BY DEF Flying
<1> QED BY <1>1, <1>2 DEF OwedMap, Flying, Service!serviceVars

LEMMA InitService == Init => Service!Init
<1> SUFFICES ASSUME Init PROVE Service!Init
  OBVIOUS
<1>1. OwedMap = [c \in Conn |-> "none"]
  BY DEF Init, OwedMap, OwedTo
<1>2. Flying = {}
  BY DEF Init, Flying
<1> QED BY <1>1, <1>2 DEF Init, OwedMap, Flying, Service!Init

\* A removed connection is owed nothing, the others what they were.
LEMMA RemoveOwes ==
  ASSUME NEW c \in Conn, RemoveConnection(c), UNCHANGED rateVars
  PROVE  /\ connections' = connections \ {c}
         /\ OwedMap' = [OwedMap EXCEPT ![c] = "none"]
<1>1. connections' = connections \ {c}
  BY RemoveShrinks
<1>2. \A d \in Conn : OwedTo(d)' = IF d = c THEN "none" ELSE OwedTo(d)
  BY <1>1 DEF OwedTo
<1> QED BY <1>1, <1>2 DEF OwedMap

LEMMA StepService ==
  ServiceInv /\ [Next]_vars => [Service!Next]_(Service!serviceVars)
<1> SUFFICES ASSUME ServiceInv, Next
             PROVE  Service!Next \/ UNCHANGED Service!serviceVars
  <2>1. CASE UNCHANGED vars
    BY <2>1, SameService DEF vars
  <2> QED BY <2>1
<1>0. /\ TypeOK /\ OneListener /\ ResultPosted /\ Fresh /\ Stages
      /\ RequestKeepsVSyncOn /\ QosPositive
  BY DEF ServiceInv, ThreadInv, ConnInv, RequestInv
<1>1. CASE \E c \in Conn : AddConnection(c)
  <2>1. PICK c \in Conn : AddConnection(c)
    BY <1>1
  <2>2. CASE connections' = connections
    BY <2>1, <2>2, SameService DEF AddConnection
  <2>3. CASE connections' # connections
    <3>1. connections' = connections \cup {c} /\ UNCHANGED <<rateVars, conns, posted, vsyncEnabled>>
      BY <2>1, <2>3 DEF AddConnection
    <3>2. rate[c] = -1 /\ ~triggerThisTime[c]
      BY <1>0, <2>1 DEF AddConnection, Fresh
    <3>3. \A d \in Conn : OwedTo(d)' = OwedTo(d)
      <4> SUFFICES ASSUME NEW d \in Conn PROVE OwedTo(d)' = OwedTo(d)
        OBVIOUS
      <4>1. CASE d = c
        BY <3>1, <3>2, <4>1 DEF OwedTo
      <4>2. CASE d # c
        BY <3>1, <4>2 DEF OwedTo
      <4> QED BY <4>1, <4>2
    <3>4. OwedMap' = OwedMap /\ Flying' = Flying
      BY <3>1, <3>3 DEF OwedMap, Flying
    <3>5. Service!Join(c)
      BY <3>1, <3>4 DEF Service!Join, OwedMap, Flying
    <3> QED BY <3>5 DEF Service!Next
  <2> QED BY <2>2, <2>3
<1>2. CASE \E c \in Conn : Destroy(c)
  <2>1. PICK c \in Conn : Destroy(c)
    BY <1>2
  <2>2. /\ connections' = connections \ {c}
        /\ OwedMap' = [OwedMap EXCEPT ![c] = "none"]
        /\ Flying' = Flying
        /\ UNCHANGED vsyncEnabled
    BY <2>1, RemoveOwes DEF Destroy, Flying
  <2>3. Service!Leave(c)
    BY <2>2 DEF Service!Leave, OwedMap, Flying
  <2> QED BY <2>3 DEF Service!Next
<1>3. CASE \E c \in Conn : ReleaseConnection(c)
  <2>1. PICK c \in Conn : ReleaseConnection(c)
    BY <1>3
  <2>2. /\ c \notin connections
        /\ UNCHANGED <<connections, conns, posted, vsyncEnabled>>
        /\ \A d \in Conn \ {c} : rate'[d] = rate[d] /\ triggerThisTime'[d] = triggerThisTime[d]
    BY <1>0, <2>1 DEF ReleaseConnection, TypeOK
  <2>3. \A d \in Conn : OwedTo(d)' = OwedTo(d)
    BY <2>2 DEF OwedTo
  <2>4. OwedMap' = OwedMap /\ Flying' = Flying
    BY <2>2, <2>3 DEF OwedMap, Flying
  <2> QED BY <2>2, <2>4 DEF Service!serviceVars, OwedMap, Flying
<1>4. CASE \E c \in Conn : RequestNextVSync(c)
  <2>1. PICK c \in Conn : RequestNextVSync(c)
    BY <1>4
  <2>2. CASE c \notin connections
    BY <2>1, <2>2, SameService DEF RequestNextVSync
  <2>3. CASE c \in connections
    <3>1. /\ rate' = [rate EXCEPT ![c] = IF @ < 0 THEN 0 ELSE @]
          /\ triggerThisTime' = [triggerThisTime EXCEPT ![c] = TRUE]
          /\ vsyncEnabled' = TRUE
          /\ UNCHANGED <<connections, conns, posted>>
      BY <1>0, <2>1, <2>3, EnableKeepsListener DEF RequestNextVSync
    <3>2. OwedTo(c)' = IF OwedTo(c) = "always" THEN OwedTo(c) ELSE "once"
      BY <1>0, <2>3, <3>1 DEF OwedTo, TypeOK
    <3>3. \A d \in Conn \ {c} : OwedTo(d)' = OwedTo(d)
      BY <1>0, <3>1 DEF OwedTo, TypeOK
    <3>4. OwedMap' = [OwedMap EXCEPT ![c] = IF @ = "always" THEN @ ELSE "once"]
      BY <3>2, <3>3 DEF OwedMap
    <3>5. Flying' = Flying
      BY <3>1 DEF Flying
    <3>6. Service!Ask(c)
      BY <2>3, <3>1, <3>4, <3>5 DEF Service!Ask, OwedMap, Flying
    <3> QED BY <3>6 DEF Service!Next
  <2> QED BY <2>2, <2>3
<1>5. CASE \E c \in Conn, r \in AppRates : SetVSyncRate(c, r)
  <2>1. PICK c \in Conn, r \in AppRates : SetVSyncRate(c, r)
    BY <1>5
  <2>2. /\ c \in connections
        /\ rate' = [rate EXCEPT ![c] = r]
        /\ vsyncEnabled' = TRUE
        /\ UNCHANGED <<connections, conns, posted, triggerThisTime>>
    BY <1>0, <2>1, EnableKeepsListener DEF SetVSyncRate
  <2>3. \A d \in Conn \ {c} : OwedTo(d)' = OwedTo(d)
    BY <1>0, <2>2 DEF OwedTo, TypeOK
  <2>4. OwedMap' = [OwedMap EXCEPT ![c] = OwedTo(c)']
    BY <2>3 DEF OwedMap
  <2>5. OwedTo(c)' \in Service!Owed
    BY DEF OwedTo, Service!Owed
  <2>6. Flying' = Flying
    BY <2>2 DEF Flying
  <2>7. Service!Subscribe(c)
    BY <2>2, <2>4, <2>5, <2>6 DEF Service!Subscribe, OwedMap, Flying
  <2> QED BY <2>7 DEF Service!Next
<1>6. CASE \E w \in Window, l \in Level : SetQosVSyncRate(w, l)
  <2>1. /\ UNCHANGED <<rateVars, connections, conns, posted>>
        /\ vsyncEnabled' = TRUE \/ UNCHANGED vsyncEnabled
    BY <1>0, <1>6, EnableKeepsListener DEF SetQosVSyncRate
  <2>2. OwedMap' = OwedMap /\ Flying' = Flying
    BY <2>1 DEF OwedMap, OwedTo, Flying
  <2>3. CASE vsyncEnabled' = TRUE
    <3>1. Service!WakeUp
      BY <2>1, <2>2, <2>3 DEF Service!WakeUp, OwedMap, Flying
    <3> QED BY <3>1 DEF Service!Next
  <2> QED BY <2>1, <2>2, <2>3 DEF Service!serviceVars, OwedMap, Flying
<1>7. CASE OnVSyncTrigger
  <2>1. /\ vsyncEnabled = TRUE
        /\ Flying = {} /\ conns = {} /\ posted = Nothing
        /\ UNCHANGED <<connections, posted>>
    BY <1>0, <1>7 DEF OnVSyncTrigger, OneListener, TypeOK, Stages, Flying
  <2>2. DEFINE S == Collected((vsyncCount + 1) % VSyncCycle)
               Used(c) == UsedUp(c, (vsyncCount + 1) % VSyncCycle)
  <2>3. S \subseteq connections /\ \A c \in Conn : Used(c) => c \in S
    BY DEF Collected, UsedUp
  <2>4. /\ rate' = [c \in Conn |->
             IF Used(c) /\ (vsyncMode = "LTPO" => rate[c] = 0) THEN -1 ELSE rate[c]]
        /\ triggerThisTime' = [c \in Conn |-> triggerThisTime[c] /\ ~Used(c)]
    BY <1>7 DEF OnVSyncTrigger
  <2>5. CASE S # {}
    <3>1. \A c \in S : OwedTo(c) # "none" /\ (Used(c) \/ rate[c] > 0)
      <4> SUFFICES ASSUME NEW c \in S
                   PROVE  OwedTo(c) # "none" /\ (Used(c) \/ rate[c] > 0)
        OBVIOUS
      <4>0. c \in connections /\ c \in Conn /\ rate[c] \in Int /\ highPriorityRate[c] \in Int
            /\ triggerThisTime[c] \in BOOLEAN
        BY <1>0, <2>3 DEF TypeOK
      <4>1. CASE vsyncMode = "LTPO"
        <5>1. WaitsLTPO(c) /\ Used(c)
          BY <4>1 DEF Collected, DueLTPO, UsedUp
        <5> QED BY <4>0, <5>1 DEF WaitsLTPO, OwedTo
      <4>2. CASE vsyncMode # "LTPO"
        <5>1. WaitsLTPS(c)
          BY <4>2 DEF Collected, DueLTPS
        <5>2. rate[c] >= 0
          BY <1>0, <4>0, <5>1 DEF WaitsLTPS, RateInForce, QosPositive
        <5>3. rate[c] = 0 => Used(c)
          BY DEF UsedUp
        <5> QED BY <4>0, <5>2, <5>3 DEF OwedTo
      <4> QED BY <4>1, <4>2
    <3>2. \A c \in S : rate[c] <= 0 => OwedTo(c)' = "none"
      <4> SUFFICES ASSUME NEW c \in S, rate[c] <= 0
                   PROVE  OwedTo(c)' = "none"
        OBVIOUS
      <4>0. c \in connections /\ c \in Conn /\ rate[c] \in Int
        BY <1>0, <2>3 DEF TypeOK
      <4>1. Used(c)
        BY <3>1, <4>0
      <4>2. ~triggerThisTime'[c] /\ ~(rate'[c] > 0) /\ rate'[c] # 0
        <5>1. ~triggerThisTime'[c]
          BY <2>4, <4>0, <4>1, Zenon
        <5>2. rate'[c] \in {-1, rate[c]} /\ (rate[c] = 0 => rate'[c] = -1)
          BY <2>4, <4>0, <4>1, Zenon
        <5>3. ~(rate'[c] > 0) /\ rate'[c] # 0
          <6>1. CASE rate[c] = 0
            BY <5>2, <6>1
          <6>2. CASE rate[c] # 0
            BY <4>0, <5>2, <6>2
          <6> QED BY <6>1, <6>2
        <5> QED BY <5>1, <5>3, Zenon
      <4> QED BY <4>2, Zenon DEF OwedTo
    <3>3. \A c \in S : rate[c] > 0 => OwedTo(c)' = OwedTo(c)
      <4> SUFFICES ASSUME NEW c \in S, rate[c] > 0
                   PROVE  OwedTo(c)' = OwedTo(c)
        OBVIOUS
      <4>0. c \in connections /\ c \in Conn /\ rate[c] \in Int
        BY <1>0, <2>3 DEF TypeOK
      <4>1. Used(c) => vsyncMode = "LTPO" \/ RateInForce(c) = 0
        BY <4>0 DEF UsedUp
      <4>2. RateInForce(c) # 0
        BY <1>0, <4>0 DEF RateInForce, QosPositive, TypeOK
      <4>3. rate'[c] = rate[c]
        BY <2>4, <4>0, <4>1, <4>2
      <4> QED BY <2>1, <4>0, <4>3 DEF OwedTo
    <3>4. \A c \in Conn \ S : OwedTo(c)' = OwedTo(c)
      <4> SUFFICES ASSUME NEW c \in Conn \ S PROVE OwedTo(c)' = OwedTo(c)
        OBVIOUS
      <4>1. ~Used(c)
        BY <2>3
      <4>2. rate'[c] = rate[c]
        BY <2>4, <4>1
      <4>3. triggerThisTime'[c] = triggerThisTime[c]
        BY <1>0, <2>4, <4>1, Zenon DEF TypeOK
      <4> QED BY <2>1, <4>2, <4>3 DEF OwedTo
    <3>5. \A c \in S : OwedTo(c) = "always" <=> rate[c] > 0
      BY <1>0, <2>3 DEF OwedTo
    <3>6. OwedMap' = [c \in Conn |->
            IF c \in S /\ OwedTo(c) # "always" THEN "none" ELSE OwedTo(c)]
      <4> HIDE DEF S
      <4>1. \A c \in Conn : OwedTo(c)' =
              IF c \in S /\ OwedTo(c) # "always" THEN "none" ELSE OwedTo(c)
        <5>1. \A c \in S : rate[c] \in Int
          BY <1>0, <2>3 DEF TypeOK
        <5> QED BY <3>2, <3>3, <3>4, <3>5, <5>1
      <4> QED BY <4>1 DEF OwedMap
    <3>7. conns' = S /\ vsyncEnabled' = vsyncEnabled
      <4>1. \E c \in connections : Waits(c)
        BY <2>5, <2>3 DEF Collected, DueLTPO, DueLTPS, Waits
      <4> QED BY <1>7, <4>1, Zenon DEF OnVSyncTrigger
    <3>8. Flying' = S
      BY <2>1, <3>7 DEF Flying
    <3>9. Service!Emit
      <4>1. S \in SUBSET {c \in connections : OwedMap[c] # "none"}
        BY <1>0, <2>3, <3>1 DEF OwedMap, TypeOK
      <4>2. OwedMap' = [c \in Conn |->
              IF c \in S /\ OwedMap[c] # "always" THEN "none" ELSE OwedMap[c]]
        BY <3>6 DEF OwedMap
      <4> HIDE DEF S
      <4> QED BY <2>1, <2>5, <3>7, <3>8, <4>1, <4>2 DEF Service!Emit, OwedMap, Flying
    <3> QED BY <3>9 DEF Service!Next
  <2>6. CASE S = {}
    <3>1. \A c \in Conn : ~Used(c)
      BY <2>3, <2>6
    <3>2. rate' = rate
      BY <1>0, <2>4, <3>1 DEF TypeOK
    <3>3. triggerThisTime' = triggerThisTime
      BY <1>0, <2>4, <3>1, Zenon DEF TypeOK
    <3>4. OwedMap' = OwedMap
      BY <2>1, <3>2, <3>3 DEF OwedMap, OwedTo
    <3>5. CASE \E c \in connections : Waits(c)
      <4>1. conns' = {} /\ vsyncEnabled' = vsyncEnabled
        BY <1>7, <2>6, <3>5, Zenon DEF OnVSyncTrigger
      <4>2. Flying' = Flying
        BY <2>1, <4>1 DEF Flying
      <4> QED BY <2>1, <3>4, <4>1, <4>2 DEF Service!serviceVars, OwedMap, Flying
    <3>6. CASE ~\E c \in connections : Waits(c)
      <4>1. conns' = conns /\ vsyncEnabled' = FALSE
        BY <1>7, <2>1, <3>6, Zenon DEF OnVSyncTrigger, DisableVSync
      <4>2. \A c \in connections : ~Wanted(c)
        BY <1>0, <3>6, WantedWaits
      <4>3. \A c \in connections : OwedMap[c] \notin {"once", "always"}
        BY <1>0, <4>2 DEF OwedMap, OwedTo, Wanted, TypeOK
      <4>4. Flying' = Flying
        BY <2>1, <4>1 DEF Flying
      <4>5. Service!Rest
        BY <2>1, <3>4, <4>1, <4>3, <4>4 DEF Service!Rest, Service!Due, OwedMap, Flying
      <4> QED BY <4>5 DEF Service!Next
    <3> QED BY <3>5, <3>6
  <2> QED BY <2>5, <2>6
<1>8. CASE \E c \in Conn : PostEvent(c)
  <2>1. PICK c \in Conn : PostEvent(c)
    BY <1>8
  <2>2. /\ c \in conns /\ conns' = conns \ {c}
        /\ posted = Nothing /\ posted' # Nothing /\ posted'.conn = c
        /\ UNCHANGED <<rateVars, connections, vsyncEnabled>>
    BY <1>0, <2>1 DEF PostEvent, Stages, Nothing
  <2>3. Flying' = Flying
    BY <2>2 DEF Flying
  <2>4. OwedMap' = OwedMap
    BY <2>2 DEF OwedMap, OwedTo
  <2> QED BY <2>2, <2>3, <2>4 DEF Service!serviceVars, OwedMap, Flying
<1>9. CASE HandlePostResult
  <2>1. PICK c \in Conn : posted.conn = c
    BY <1>0, <1>9 DEF HandlePostResult, ResultPosted
  <2>2. /\ posted # Nothing /\ posted.ret \in {"OK", "EAGAIN", "OTHER"}
        /\ posted' = Nothing /\ conns' = conns /\ c \notin conns
        /\ UNCHANGED vsyncEnabled
    BY <1>0, <1>9, <2>1 DEF HandlePostResult, ResultPosted, Stages, Nothing
  <2>3. c \in Flying /\ Flying' = Flying \ {c}
    BY <2>1, <2>2 DEF Flying
  <2>4. CASE posted.ret = "OK"
    <3>1. UNCHANGED <<rateVars, connections>>
      BY <1>9, <2>4 DEF HandlePostResult
    <3>2. OwedMap' = OwedMap
      BY <3>1 DEF OwedMap, OwedTo
    <3>3. Service!Arrived(c)
      BY <2>2, <2>3, <3>1, <3>2 DEF Service!Arrived, OwedMap, Flying
    <3> QED BY <3>3 DEF Service!Next
  <2>5. CASE posted.ret = "EAGAIN"
    <3>1. /\ UNCHANGED connections
          /\ triggerThisTime' = [triggerThisTime EXCEPT ![c] = TRUE]
          /\ rate' = [rate EXCEPT ![c] = IF @ < 0 THEN 0 ELSE @]
      BY <1>9, <2>1, <2>5 DEF HandlePostResult
    <3>2. OwedTo(c)' = IF c \notin connections THEN "none"
                       ELSE IF OwedTo(c) = "always" THEN OwedTo(c) ELSE "once"
      BY <1>0, <3>1 DEF OwedTo, TypeOK
    <3>3. \A d \in Conn \ {c} : OwedTo(d)' = OwedTo(d)
      BY <1>0, <3>1 DEF OwedTo, TypeOK
    <3>4. OwedMap' = [OwedMap EXCEPT ![c] =
            IF c \notin connections THEN "none" ELSE IF @ = "always" THEN @ ELSE "once"]
      BY <3>2, <3>3 DEF OwedMap
    <3>5. Service!Refused(c)
      BY <2>2, <2>3, <3>1, <3>4 DEF Service!Refused, OwedMap, Flying
    <3> QED BY <3>5 DEF Service!Next
  <2>6. CASE posted.ret = "OTHER"
    <3>1. RemoveConnection(c) /\ UNCHANGED rateVars
      BY <1>9, <2>1, <2>6 DEF HandlePostResult
    <3>2. connections' = connections \ {c} /\ OwedMap' = [OwedMap EXCEPT ![c] = "none"]
      BY <3>1, RemoveOwes
    <3>3. Service!Unreachable(c)
      BY <2>2, <2>3, <3>2 DEF Service!Unreachable, OwedMap, Flying
    <3> QED BY <3>3 DEF Service!Next
  <2> QED BY <2>2, <2>4, <2>5, <2>6
<1>10. CASE \/ \E c \in Conn : CreateConnection(c)
            \/ \E c \in Conn : BeginRequest(c)
            \/ \E m \in VSyncModes : SetVSyncMode(m)
            \/ \E g \in GeneratorRates, rates \in [Conn -> ConnRates \cup {NoChange}] :
                 ChangeRefreshRate(g, rates)
            \/ ListenerVsyncEventCB
  <2>1. UNCHANGED <<rate, triggerThisTime, connections, conns, posted, vsyncEnabled>>
    BY <1>10 DEF CreateConnection, BeginRequest, SetVSyncMode, ChangeRefreshRate,
                 ListenerVsyncEventCB
  <2> QED BY <2>1, SameService
<1> QED BY <1>1, <1>2, <1>3, <1>4, <1>5, <1>6, <1>7, <1>8, <1>9, <1>10 DEF Next

\* Clients of a distributor may rely on VSyncService alone: whatever the threads,
\* modes, rates and deaths, each step of the distributor is one of the service's
\* or changes nothing a client could tell.
THEOREM DistributorServes == Spec => ImplementsService
<1>1. Spec => []ServiceInv
  <2>1. Init => ServiceInv
    BY InitThread, InitConn, InitRequest, InitStages DEF ServiceInv
  <2>2. ServiceInv /\ [Next]_vars => ServiceInv'
    BY StepThread, StepConn, StepRequest, StepStages DEF ServiceInv
  <2> QED BY <2>1, <2>2, PTL DEF Spec
<1> QED BY <1>1, InitService, StepService, PTL DEF Spec, ImplementsService, Service!Spec
=============================================================================
