----------------------- MODULE VSyncDistributor_proof -----------------------
(***************************************************************************)
(* Proofs of the safety properties of VSyncDistributor, for every set of   *)
(* connections, processes, windows and rates.                              *)
(***************************************************************************)
EXTENDS VSyncDistributor, FiniteSetTheorems, TLAPS

\* The tuples UNCHANGED is applied to.
USE DEF connVars, rateVars, qosVars, pulseVars, regVars, enableVars,
        eventVars, modelVars, threadVars

-----------------------------------------------------------------------------
(* Arithmetic of the pulse counts.                                         *)

\* Division of naturals, as the provers use it.
LEMMA Quotient ==
  ASSUME NEW n \in Nat, NEW d \in Nat \ {0}
  PROVE  /\ n = d * (n \div d) + (n % d)
         /\ n \div d \in Nat
         /\ n % d \in Nat
  OBVIOUS

LEMMA DivisorOfProduct ==
  ASSUME NEW d \in Nat \ {0}, NEW k \in Int
  PROVE  (d * k) % d = 0
  OBVIOUS

LEMMA CoDivisor ==
  ASSUME NEW n \in Nat, NEW d \in Nat \ {0}, n % d = 0
  PROVE  n \div d \in Nat /\ n = d * (n \div d)
  BY Quotient

\* A common divisor of a count and a modulus divides the remainder.
LEMMA ModKeepsDivisor ==
  ASSUME NEW n \in Nat, NEW f \in Nat \ {0}, NEW s \in Nat \ {0},
         f % s = 0, n % s = 0
  PROVE  (n % f) % s = 0
<1> DEFINE k == n \div s
           l == f \div s
           q == n \div f
           j == k - l * q
<1>1. k \in Nat /\ n = s * k /\ l \in Nat /\ f = s * l
  BY CoDivisor
<1>2. q \in Nat /\ n % f \in Nat /\ n = f * q + (n % f)
  BY Quotient
<1> HIDE DEF k, l, q
<1>3. f * q = s * (l * q) /\ l * q \in Nat
  BY <1>1, <1>2
<1>4. n % f = s * k - s * (l * q)
  BY <1>1, <1>2, <1>3
<1>5. j \in Int /\ n % f = s * j
  BY <1>1, <1>2, <1>3, <1>4
<1> HIDE DEF j
<1> QED BY <1>5, DivisorOfProduct

LEMMA SumKeepsDivisor ==
  ASSUME NEW n \in Nat, NEW s \in Nat \ {0}, n % s = 0
  PROVE  (n + s) % s = 0
<1> DEFINE k == n \div s
<1>1. k \in Nat /\ n = s * k
  BY CoDivisor
<1> HIDE DEF k
<1>2. n + s = s * (k + 1)
  BY <1>1
<1> QED BY <1>1, <1>2, DivisorOfProduct

\* The stride of a rate that divides the generator's is a multiple of the
\* generator's stride.
LEMMA StridesNest ==
  ASSUME NEW m \in Nat \ {0}, NEW g \in Nat \ {0}, NEW r \in Nat \ {0},
         m % g = 0, g % r = 0
  PROVE  (m \div r) % (m \div g) = 0
<1> DEFINE s == m \div g
           k == g \div r
           j == k * s
<1>1. s \in Nat /\ m = g * s /\ k \in Nat /\ g = r * k
  BY CoDivisor
<1> HIDE DEF s, k
<1>2. s # 0
  BY <1>1
<1>3. m = r * j /\ j \in Nat
  BY <1>1
<1>4. j = s * k
  BY <1>1
<1> HIDE DEF j
<1>5. m \div r = j
  <2>1. (r * j) \div r = j
    BY <1>3
  <2> QED BY <1>3, <2>1
<1>6. (s * k) % s = 0
  BY <1>1, <1>2, DivisorOfProduct
<1>7. (m \div r) % s = 0
  BY <1>4, <1>5, <1>6
<1> QED BY <1>7 DEF s

LEMMA DivisorTransitive ==
  ASSUME NEW n \in Nat, NEW d \in Nat \ {0}, NEW s \in Nat \ {0},
         n % d = 0, d % s = 0
  PROVE  n % s = 0
<1> DEFINE k == n \div d
           l == d \div s
           j == l * k
<1>1. k \in Nat /\ n = d * k /\ l \in Nat /\ d = s * l
  BY CoDivisor
<1> HIDE DEF k, l
<1>2. j \in Int /\ n = s * j
  BY <1>1
<1> HIDE DEF j
<1> QED BY <1>2, DivisorOfProduct

\* A refresh rate that divides VSYNC_MAX_REFRESHRATE has a positive stride.
LEMMA StridePositive ==
  ASSUME NEW r \in Nat \ {0}, VSYNC_MAX_REFRESHRATE % r = 0
  PROVE  Stride(r) \in Nat \ {0}
  BY DEF Stride, VSYNC_MAX_REFRESHRATE

LEMMA ModRange ==
  ASSUME NEW a \in Nat, NEW b \in Nat \ {0}
  PROVE  a % b \in 0..(b - 1)
  OBVIOUS

-----------------------------------------------------------------------------
(* Type correctness, together with the generator thread's control state.   *)

\* While the generator thread handles a result there is one.
ResultPosted ==
  pc = "result" => posted \in [conn : Conn, ret : {"OK", "EAGAIN", "OTHER"}]

ThreadInv == TypeOK /\ OneListener /\ ResultPosted

LEMMA InitThread == Init => ThreadInv
<1> SUFFICES ASSUME Init PROVE ThreadInv
  OBVIOUS
<1>1. TypeOK
  <2>1. /\ life \in [Conn -> {"none", "created", "open", "failed"}]
        /\ isDead \in [Conn -> BOOLEAN]
        /\ calls \subseteq Conn
        /\ rate \in [Conn -> Nat \cup {-1}]
        /\ highPriorityRate \in [Conn -> Nat \cup {-1}]
        /\ highPriorityState \in [Conn -> BOOLEAN]
        /\ triggerThisTime \in [Conn -> BOOLEAN]
        /\ vsyncPulseFreq \in [Conn -> Nat \ {0}]
        /\ pulsePhase \in [Conn -> Nat]
        /\ stranded \subseteq Conn
    BY DEF Init
  <2>2. /\ connections \subseteq Conn
        /\ connectionCounter \in [Pid -> Int]
        /\ connectionsMap \in [Key -> SUBSET Conn]
        /\ changingRates \in [Conn -> ConnRates \cup {NoChange}]
        /\ levelOf \in [Window -> Level \cup {"none"}]
        /\ conns \subseteq Conn
    BY DEF Init
  <2>3. /\ vsyncEnabled \in BOOLEAN
        /\ generatorRefreshRate \in GeneratorRates \cup {0}
        /\ listeners \in Nat
        /\ registered \in BOOLEAN
        /\ currRefreshRate \in GeneratorRates \cup {0}
        /\ due \in Nat
        /\ pc \in {"wait", "trigger", "post", "result"}
        /\ posted \in [conn : Conn, ret : {"OK", "EAGAIN", "OTHER"}] \cup {Nothing}
    BY DEF Init
  <2>4. vsyncCount \in 0..(VSyncCycle - 1) /\ vsyncMode \in VSyncMode
    BY RateAssumption DEF Init
  <2> QED BY <2>1, <2>2, <2>3, <2>4 DEF TypeOK
<1>2. OneListener /\ ResultPosted
  BY DEF Init, OneListener, ResultPosted
<1> QED BY <1>1, <1>2 DEF ThreadInv

\* The strides of the generator's rates; NewGeneratorRate is one of them.
LEMMA GeneratorStride ==
  ASSUME TypeOK
  PROVE  Pulses \in Nat /\ NewGeneratorRate \in GeneratorRates \cup {0}
<1>1. CASE currRefreshRate > 0
  <2>1. currRefreshRate \in GeneratorRates
    BY <1>1 DEF TypeOK
  <2>2. currRefreshRate \in Nat \ {0} /\ VSYNC_MAX_REFRESHRATE % currRefreshRate = 0
    BY <2>1, RateAssumption DEF VSYNC_MAX_REFRESHRATE
  <2> QED BY <1>1, <2>1, <2>2, StridePositive DEF Pulses, NewGeneratorRate
<1>2. CASE ~(currRefreshRate > 0)
  BY <1>2 DEF Pulses, NewGeneratorRate, TypeOK
<1> QED BY <1>1, <1>2

\* ChangeConnsRateLocked leaves every connection a positive frequency and a phase.
LEMMA NewPulseType ==
  ASSUME TypeOK, NEW c \in Conn
  PROVE  NewPulseFreq(c) \in Nat \ {0} /\ NewPulsePhase(c) \in Nat
<1>1. vsyncPulseFreq[c] \in Nat \ {0} /\ pulsePhase[c] \in Nat
  BY DEF TypeOK
<1>2. NewPulseFreq(c) \in Nat \ {0}
  <2>1. CASE RateChanges(c) /\ RateFits(changingRates[c])
    <3>1. changingRates[c] \in ConnRates
      BY <2>1 DEF RateChanges, TypeOK
    <3>2. changingRates[c] \in Nat \ {0} /\ VSYNC_MAX_REFRESHRATE % changingRates[c] = 0
      BY <3>1, <2>1, RateAssumption DEF RateFits
    <3> QED BY <2>1, <3>2, StridePositive DEF NewPulseFreq
  <2>2. CASE ~(RateChanges(c) /\ RateFits(changingRates[c]))
    BY <2>2, <1>1 DEF NewPulseFreq
  <2> QED BY <2>1, <2>2
<1>3. NewPulsePhase(c) \in Nat
  BY <1>1, GeneratorStride, ModRange DEF NewPulsePhase
<1> QED BY <1>2, <1>3

\* EnableVSync and DisableVSync keep the controller's listener in step.
LEMMA EnableKeepsListener ==
  ASSUME TypeOK, OneListener, EnableVSync
  PROVE  /\ vsyncEnabled' = TRUE
         /\ registered' \in BOOLEAN
         /\ listeners' = 1
<1>1. CASE vsyncEnabled
  BY <1>1 DEF EnableVSync, OneListener, TypeOK
<1>2. CASE ~vsyncEnabled
  BY <1>2 DEF EnableVSync, AddListener, OneListener, TypeOK
<1> QED BY <1>1, <1>2

LEMMA DisableRemovesListener ==
  ASSUME TypeOK, OneListener, DisableVSync
  PROVE  /\ vsyncEnabled' = FALSE
         /\ registered' \in BOOLEAN
         /\ listeners' = 0
<1>1. CASE vsyncEnabled
  BY <1>1 DEF DisableVSync, RemoveListener, OneListener, TypeOK
<1>2. CASE ~vsyncEnabled
  BY <1>2 DEF DisableVSync, OneListener, TypeOK
<1> QED BY <1>1, <1>2

LEMMA StepThread == ThreadInv /\ [Next]_vars => ThreadInv'
<1> SUFFICES ASSUME ThreadInv, [Next]_vars PROVE ThreadInv'
  OBVIOUS
<1> USE DEF ThreadInv, OneListener, ResultPosted
<1>1. CASE \E c \in Conn : CreateConnection(c)
  BY <1>1 DEF TypeOK, CreateConnection
<1>2. CASE \E c \in Conn : AddConnection(c)
  BY <1>2, ConnAssumption DEF TypeOK, AddConnection
<1>3. CASE \E c \in Conn : Destroy(c)
  BY <1>3, ConnAssumption DEF TypeOK, Destroy, RemoveConnection, Unfiled
<1>4. CASE \E c \in Conn : ReleaseConnection(c)
  BY <1>4 DEF TypeOK, ReleaseConnection
<1>5. CASE \E c \in Conn : BeginRequest(c)
  BY <1>5 DEF TypeOK, BeginRequest
<1>6. CASE \E c \in Conn : RequestNextVSync(c)
  <2>1. PICK c \in Conn : RequestNextVSync(c)
    BY <1>6
  <2>2. CASE c \in connections
    <3>1. rate' = [rate EXCEPT ![c] = IF rate[c] < 0 THEN 0 ELSE rate[c]]
      BY <2>1, <2>2 DEF RequestNextVSync
    <3>2. rate' \in [Conn -> Nat \cup {-1}]
      BY <3>1 DEF TypeOK
    <3>3. triggerThisTime' \in [Conn -> BOOLEAN]
      BY <2>1, <2>2 DEF RequestNextVSync, TypeOK
    <3>4. vsyncEnabled' = TRUE /\ registered' \in BOOLEAN /\ listeners' = 1
      BY <2>1, <2>2, EnableKeepsListener DEF RequestNextVSync
    <3> QED BY <2>1, <3>2, <3>3, <3>4 DEF TypeOK, RequestNextVSync
  <2>3. CASE c \notin connections
    BY <2>1, <2>3 DEF TypeOK, RequestNextVSync
  <2> QED BY <2>2, <2>3
<1>7. CASE \E c \in Conn, r \in AppRates : SetVSyncRate(c, r)
  <2>1. PICK c \in Conn, r \in AppRates : SetVSyncRate(c, r)
    BY <1>7
  <2>2. rate' \in [Conn -> Nat \cup {-1}]
    BY <2>1, RateAssumption DEF SetVSyncRate, TypeOK
  <2>3. vsyncEnabled' = TRUE /\ registered' \in BOOLEAN /\ listeners' = 1
    BY <2>1, EnableKeepsListener DEF SetVSyncRate
  <2> QED BY <2>1, <2>2, <2>3 DEF TypeOK, SetVSyncRate
<1>8. CASE \E w \in Window, l \in Level : SetQosVSyncRate(w, l)
  <2>1. PICK w \in Window, l \in Level : SetQosVSyncRate(w, l)
    BY <1>8
  <2>2. LevelRate[l] \in Nat
    BY RateAssumption
  <2>3. /\ highPriorityRate' \in [Conn -> Nat \cup {-1}]
        /\ highPriorityState' \in [Conn -> BOOLEAN]
        /\ levelOf' \in [Window -> Level \cup {"none"}]
    BY <2>1, <2>2 DEF SetQosVSyncRate, TypeOK
  <2>4. \/ vsyncEnabled' = TRUE /\ registered' \in BOOLEAN /\ listeners' = 1
        \/ UNCHANGED enableVars
    BY <2>1, EnableKeepsListener DEF SetQosVSyncRate
  <2>5. CASE UNCHANGED enableVars
    BY <2>1, <2>3, <2>5 DEF TypeOK, SetQosVSyncRate
  <2>6. CASE vsyncEnabled' = TRUE /\ registered' \in BOOLEAN /\ listeners' = 1
    BY <2>1, <2>3, <2>6 DEF TypeOK, SetQosVSyncRate
  <2> QED BY <2>4, <2>5, <2>6
<1>9. CASE \E m \in VSyncModes : SetVSyncMode(m)
  BY <1>9, RateAssumption DEF TypeOK, SetVSyncMode
<1>10. CASE \E g \in GeneratorRates, rates \in [Conn -> ConnRates \cup {NoChange}] :
              ChangeRefreshRate(g, rates)
  <2>1. PICK g \in GeneratorRates, rates \in [Conn -> ConnRates \cup {NoChange}] :
          ChangeRefreshRate(g, rates)
    BY <1>10
  <2>2. stranded' \subseteq Conn
    BY <2>1 DEF TypeOK, ChangeRefreshRate, LeftBehind
  <2>3. changingRates' \in [Conn -> ConnRates \cup {NoChange}]
    BY <2>1 DEF TypeOK, ChangeRefreshRate
  <2> QED BY <2>1, <2>2, <2>3 DEF TypeOK, ChangeRefreshRate
<1>11. CASE ListenerVsyncEventCB
  BY <1>11 DEF TypeOK, ListenerVsyncEventCB
<1>12. CASE OnVSyncTrigger
  <2>1. /\ vsyncPulseFreq' \in [Conn -> Nat \ {0}]
        /\ pulsePhase' \in [Conn -> Nat]
        /\ stranded' \subseteq Conn
    BY <1>12, NewPulseType DEF OnVSyncTrigger, TypeOK
  <2>2. generatorRefreshRate' \in GeneratorRates \cup {0}
    BY <1>12, GeneratorStride DEF OnVSyncTrigger
  <2>3. vsyncCount' \in 0..(VSyncCycle - 1)
    BY <1>12, ModRange, RateAssumption DEF OnVSyncTrigger, TypeOK
  <2>4. /\ rate' \in [Conn -> Nat \cup {-1}]
        /\ triggerThisTime' \in [Conn -> BOOLEAN]
        /\ changingRates' \in [Conn -> ConnRates \cup {NoChange}]
    BY <1>12 DEF OnVSyncTrigger, TypeOK
  <2>5. conns' \subseteq Conn
    BY <1>12 DEF OnVSyncTrigger, Collected, TypeOK
  <2>6. due = 1 /\ vsyncEnabled /\ listeners = 1
    BY <1>12 DEF OnVSyncTrigger
  <2>7. CASE \E c \in connections : Waits(c)
    <3>1. /\ IF conns' = {} THEN AfterTrigger ELSE pc' = "post" /\ UNCHANGED due
          /\ UNCHANGED enableVars
      BY <1>12, <2>7, Zenon DEF OnVSyncTrigger
    <3>2. \/ pc' = "post" /\ due' = 1
          \/ pc' = "wait" /\ due' = 0
      BY <2>6, <3>1 DEF AfterTrigger
    <3> QED BY <1>12, <2>1, <2>2, <2>3, <2>4, <2>5, <2>6, <3>1, <3>2 DEF TypeOK, OnVSyncTrigger
  <2>8. CASE ~\E c \in connections : Waits(c)
    <3>1. vsyncEnabled' = FALSE /\ registered' \in BOOLEAN /\ listeners' = 0
      BY <1>12, <2>8, DisableRemovesListener DEF OnVSyncTrigger
    <3>2. pc' = "wait" /\ due' = 0
      BY <1>12, <2>6, <2>8 DEF OnVSyncTrigger, AfterTrigger
    <3> QED BY <1>12, <2>1, <2>2, <2>3, <2>4, <2>5, <3>1, <3>2 DEF TypeOK, OnVSyncTrigger
  <2> QED BY <2>7, <2>8
<1>13. CASE \E c \in Conn : PostEvent(c)
  BY <1>13 DEF TypeOK, PostEvent
<1>14. CASE HandlePostResult
  <2>1. due = 1 /\ vsyncEnabled /\ posted.conn \in Conn
    BY <1>14 DEF HandlePostResult
  <2>2. /\ connections' \subseteq Conn
        /\ connectionCounter' \in [Pid -> Int]
        /\ connectionsMap' \in [Key -> SUBSET Conn]
    BY <1>14, <2>1, ConnAssumption DEF HandlePostResult, RemoveConnection, Unfiled, TypeOK
  <2>3. /\ rate' \in [Conn -> Nat \cup {-1}]
        /\ triggerThisTime' \in [Conn -> BOOLEAN]
    <3>1. CASE posted.ret = "EAGAIN"
      <4>1. rate' = [rate EXCEPT ![posted.conn] =
                       IF rate[posted.conn] < 0 THEN 0 ELSE rate[posted.conn]]
        BY <1>14, <3>1 DEF HandlePostResult
      <4>2. rate' \in [Conn -> Nat \cup {-1}]
        BY <4>1, <2>1 DEF TypeOK
      <4>3. triggerThisTime' \in [Conn -> BOOLEAN]
        BY <1>14, <2>1, <3>1 DEF HandlePostResult, TypeOK
      <4> QED BY <4>2, <4>3
    <3>2. CASE posted.ret # "EAGAIN"
      BY <1>14, <3>2 DEF HandlePostResult, TypeOK
    <3> QED BY <3>1, <3>2
  <2>4. /\ due' \in Nat
        /\ pc' \in {"wait", "post"}
        /\ pc' = "post" => due' = 1
    BY <1>14, <2>1 DEF HandlePostResult, AfterTrigger
  <2> QED BY <1>14, <2>1, <2>2, <2>3, <2>4 DEF TypeOK, HandlePostResult
<1>15. CASE UNCHANGED vars
  BY <1>15 DEF TypeOK, vars
<1> QED BY <1>1, <1>2, <1>3, <1>4, <1>5, <1>6, <1>7, <1>8, <1>9, <1>10, <1>11,
           <1>12, <1>13, <1>14, <1>15 DEF Next

\* The variables have their types, whatever the threads do, and the controller
\* has exactly one listener in the generator while VSync is on (the list itself
\* has no check against duplicates, vsync_generator.cpp:552).
THEOREM ThreadInvariant == Spec => [](TypeOK /\ OneListener /\ ResultPosted)
  BY InitThread, StepThread, PTL DEF Spec, ThreadInv

\* The types alone; above all, a rate that does not fit the generator's never
\* leaves a connection without a pulse frequency, by which the code divides.
THEOREM DistributorTypes == Spec => []TypeOK
  BY ThreadInvariant, PTL

-----------------------------------------------------------------------------
(* Who still uses a connection, and what dead connections can be owed.      *)

\* Everything that holds a connection holds an open one.
InUse ==
  /\ \A c \in connections \cup calls \cup conns : life[c] = "open"
  /\ pc = "result" => life[posted.conn] = "open"

\* A connection nobody was given yet has nothing requested.
Fresh == \A c \in Conn : life[c] # "open" => rate[c] = -1 /\ ~triggerThisTime[c]

\* No request and no full socket of a dead registered connection is under way.
DeadCalls ==
  \A c \in connections : isDead[c] =>
    /\ c \notin calls
    /\ ~(pc = "result" /\ posted = [conn |-> c, ret |-> "EAGAIN"])

ConnInv == InUse /\ Fresh /\ DeadCalls /\ DeadNeverArmed

LEMMA InitConn == Init => ConnInv
  BY DEF Init, ConnInv, InUse, Fresh, DeadCalls, DeadNeverArmed

\* RemoveConnection only shrinks the set of registered connections.
LEMMA RemoveShrinks ==
  ASSUME NEW c, RemoveConnection(c)
  PROVE  connections' = connections \ {c}
  BY DEF RemoveConnection

LEMMA StepConn == ThreadInv /\ ConnInv /\ [Next]_vars => ConnInv'
<1> SUFFICES ASSUME ThreadInv, ConnInv, [Next]_vars PROVE ConnInv'
  OBVIOUS
<1>0. TypeOK /\ ResultPosted /\ InUse /\ Fresh /\ DeadCalls /\ DeadNeverArmed
  BY DEF ThreadInv, ConnInv
<1> USE DEF ConnInv, InUse, Fresh, DeadCalls, DeadNeverArmed
<1>1. CASE \E c \in Conn : CreateConnection(c)
  BY <1>0, <1>1 DEF TypeOK, CreateConnection
<1>2. CASE \E c \in Conn : AddConnection(c)
  <2>1. PICK c \in Conn : AddConnection(c)
    BY <1>2
  <2>2. c \notin connections \cup calls \cup conns /\ (pc = "result" => posted.conn # c)
    BY <1>0, <2>1 DEF AddConnection
  <2>3. connections' \subseteq connections \cup {c}
    BY <2>1 DEF AddConnection
  <2>4. life' = [life EXCEPT ![c] = "open"] \/ (life' = [life EXCEPT ![c] = "failed"] /\ UNCHANGED connections)
    BY <2>1 DEF AddConnection
  <2>5. InUse'
    <3>1. UNCHANGED <<calls, conns, pc, posted>>
      BY <2>1 DEF AddConnection
    <3>2. \A d \in Conn \ {c} : life'[d] = life[d]
      BY <1>0, <2>4 DEF TypeOK
    <3>3. CASE life' = [life EXCEPT ![c] = "open"]
      <4>1. life'[c] = "open"
        BY <1>0, <3>3 DEF TypeOK
      <4>2. \A d \in connections' \cup calls' \cup conns' : life'[d] = "open"
        BY <1>0, <2>3, <3>1, <3>2, <4>1 DEF TypeOK
      <4>3. pc' = "result" => posted.conn \in Conn \ {c}
        BY <1>0, <2>2, <3>1 DEF ResultPosted
      <4> QED BY <1>0, <3>1, <3>2, <4>2, <4>3
    <3>4. CASE UNCHANGED connections
      <4>1. \A d \in connections' \cup calls' \cup conns' : life'[d] = "open"
        BY <1>0, <2>2, <3>1, <3>2, <3>4 DEF TypeOK
      <4>2. pc' = "result" => posted.conn \in Conn \ {c}
        BY <1>0, <2>2, <3>1 DEF ResultPosted
      <4> QED BY <1>0, <3>1, <3>2, <4>1, <4>2
    <3> QED BY <2>4, <3>3, <3>4
  <2>6. Fresh'
    BY <1>0, <2>1, <2>4 DEF AddConnection, TypeOK
  <2>7. DeadCalls' /\ DeadNeverArmed'
    <3>1. rate[c] = -1 /\ ~triggerThisTime[c]
      BY <1>0, <2>1 DEF AddConnection
    <3>2. pc = "result" => posted # [conn |-> c, ret |-> "EAGAIN"]
      BY <2>2
    <3> QED BY <1>0, <2>1, <2>2, <2>3, <3>1, <3>2 DEF AddConnection
  <2> QED BY <2>5, <2>6, <2>7
<1>3. CASE \E c \in Conn : Destroy(c)
  <2>1. PICK c \in Conn : Destroy(c)
    BY <1>3
  <2>2. connections' = connections \ {c}
    BY <2>1, RemoveShrinks DEF Destroy
  <2> QED BY <1>0, <2>1, <2>2 DEF Destroy, TypeOK
<1>4. CASE \E c \in Conn : ReleaseConnection(c)
  <2>1. PICK c \in Conn : ReleaseConnection(c)
    BY <1>4
  <2>2. InUse'
    BY <1>0, <2>1 DEF ReleaseConnection, TypeOK
  <2>3. Fresh'
    BY <1>0, <2>1 DEF ReleaseConnection, TypeOK
  <2>4. DeadCalls' /\ DeadNeverArmed'
    BY <1>0, <2>1 DEF ReleaseConnection, TypeOK
  <2> QED BY <2>2, <2>3, <2>4
<1>5. CASE \E c \in Conn : BeginRequest(c)
  BY <1>0, <1>5 DEF TypeOK, BeginRequest
<1>6. CASE \E c \in Conn : RequestNextVSync(c)
  <2>1. PICK c \in Conn : RequestNextVSync(c)
    BY <1>6
  <2>2. life[c] = "open" /\ (c \in connections => ~isDead[c])
    BY <1>0, <2>1 DEF RequestNextVSync
  <2>3. \A d \in Conn \ {c} : rate'[d] = rate[d] /\ triggerThisTime'[d] = triggerThisTime[d]
    <3>1. \/ rate' = [rate EXCEPT ![c] = IF rate[c] < 0 THEN 0 ELSE rate[c]]
          \/ rate' = rate
      BY <2>1 DEF RequestNextVSync
    <3>2. \/ triggerThisTime' = [triggerThisTime EXCEPT ![c] = TRUE]
          \/ triggerThisTime' = triggerThisTime
      BY <2>1 DEF RequestNextVSync
    <3> QED BY <1>0, <3>1, <3>2 DEF TypeOK
  <2>4. calls' \subseteq calls /\ UNCHANGED <<life, isDead, connections, conns, pc, posted>>
    BY <2>1 DEF RequestNextVSync
  <2> QED BY <1>0, <2>2, <2>3, <2>4 DEF TypeOK
<1>7. CASE \E c \in Conn, r \in AppRates : SetVSyncRate(c, r)
  <2>1. PICK c \in Conn, r \in AppRates : SetVSyncRate(c, r)
    BY <1>7
  <2>2. \A d \in Conn \ {c} : rate'[d] = rate[d]
    BY <2>1 DEF SetVSyncRate, TypeOK
  <2>3. UNCHANGED <<connVars, triggerThisTime, connections, conns, pc, posted>>
    BY <2>1 DEF SetVSyncRate
  <2> QED BY <1>0, <2>1, <2>2, <2>3 DEF SetVSyncRate, TypeOK
<1>8. CASE \E w \in Window, l \in Level : SetQosVSyncRate(w, l)
  BY <1>0, <1>8 DEF SetQosVSyncRate
<1>9. CASE \E m \in VSyncModes : SetVSyncMode(m)
  BY <1>0, <1>9 DEF SetVSyncMode
<1>10. CASE \E g \in GeneratorRates, rates \in [Conn -> ConnRates \cup {NoChange}] :
              ChangeRefreshRate(g, rates)
  BY <1>0, <1>10 DEF ChangeRefreshRate
<1>11. CASE ListenerVsyncEventCB
  BY <1>0, <1>11 DEF ListenerVsyncEventCB
<1>12. CASE OnVSyncTrigger
  <2>1. \A c \in Conn : rate'[c] \in {-1, rate[c]}
    BY <1>0, <1>12 DEF OnVSyncTrigger, TypeOK
  <2>2. \A c \in Conn : triggerThisTime'[c] => triggerThisTime[c]
    BY <1>0, <1>12, Zenon DEF OnVSyncTrigger
  <2>3. conns' \subseteq connections \cup conns
    BY <1>12, Zenon DEF OnVSyncTrigger, Collected
  <2>4. pc' # "result"
    BY <1>12 DEF OnVSyncTrigger, AfterTrigger
  <2>5. UNCHANGED <<connVars, connections>>
    BY <1>12 DEF OnVSyncTrigger
  <2> QED BY <1>0, <2>1, <2>2, <2>3, <2>4, <2>5 DEF TypeOK
<1>13. CASE \E c \in Conn : PostEvent(c)
  BY <1>0, <1>13 DEF PostEvent
<1>14. CASE HandlePostResult
  <2> DEFINE c == posted.conn
  <2>1. c \in Conn /\ posted = [conn |-> c, ret |-> posted.ret] /\ life[c] = "open"
    BY <1>0, <1>14 DEF HandlePostResult, ResultPosted
  <2>2. connections' \subseteq connections
    BY <1>14, RemoveShrinks DEF HandlePostResult
  <2>3. \A d \in Conn \ {c} : rate'[d] = rate[d] /\ triggerThisTime'[d] = triggerThisTime[d]
    <3>1. \/ rate' = [rate EXCEPT ![c] = IF rate[c] < 0 THEN 0 ELSE rate[c]]
          \/ rate' = rate
      BY <1>14 DEF HandlePostResult
    <3>2. \/ triggerThisTime' = [triggerThisTime EXCEPT ![c] = TRUE]
          \/ triggerThisTime' = triggerThisTime
      BY <1>14 DEF HandlePostResult
    <3> QED BY <1>0, <3>1, <3>2 DEF TypeOK
  <2>4. c \in connections /\ isDead[c] => UNCHANGED rateVars
    BY <1>0, <1>14, <2>1 DEF HandlePostResult
  <2>5. pc' # "result" /\ UNCHANGED <<life, isDead, calls, conns>>
    BY <1>14 DEF HandlePostResult, AfterTrigger
  <2>6. InUse' /\ DeadCalls'
    BY <1>0, <2>2, <2>5
  <2>7. Fresh'
    BY <1>0, <2>1, <2>3, <2>5
  <2>8. DeadNeverArmed'
    <3> SUFFICES ASSUME NEW d \in connections', isDead'[d]
                 PROVE  rate'[d] < 0 /\ ~triggerThisTime'[d]
      OBVIOUS
    <3>1. CASE d = c
      BY <1>0, <2>2, <2>4, <2>5, <3>1
    <3>2. CASE d # c
      BY <1>0, <2>2, <2>3, <2>5, <3>2 DEF TypeOK
    <3> QED BY <3>1, <3>2
  <2> QED BY <2>6, <2>7, <2>8
<1>15. CASE UNCHANGED vars
  BY <1>0, <1>15 DEF vars
<1> QED BY <1>1, <1>2, <1>3, <1>4, <1>5, <1>6, <1>7, <1>8, <1>9, <1>10, <1>11,
           <1>12, <1>13, <1>14, <1>15 DEF Next

\* The distributor never owes a dead connection an event: a request that passed
\* the isDead_ test before the death finds the connection gone, and a connection
\* added after its client's death was never requested.
THEOREM DeadConnections == Spec => []DeadNeverArmed
<1>1. Spec => []ThreadInv
  BY ThreadInvariant, PTL DEF ThreadInv
<1>2. ThreadInv /\ ConnInv /\ [Next]_vars => ConnInv'
  BY StepConn
<1>3. ConnInv => DeadNeverArmed
  BY DEF ConnInv
<1> QED BY <1>1, <1>2, <1>3, InitConn, PTL DEF Spec

-----------------------------------------------------------------------------
(* VSync stays on while an event is owed.                                   *)

\* The rate of a throttled connection is a period.
QosPositive == \A c \in Conn : highPriorityState[c] => highPriorityRate[c] > 0

RequestInv == RequestKeepsVSyncOn /\ QosPositive

LEMMA InitRequest == Init => RequestInv
  BY DEF Init, RequestInv, RequestKeepsVSyncOn, QosPositive

\* Neither way of collecting connections overlooks one that is owed an event.
LEMMA WantedWaits ==
  ASSUME TypeOK, QosPositive, NEW c \in connections, Wanted(c)
  PROVE  Waits(c)
<1>1. c \in Conn /\ rate[c] \in Int /\ highPriorityRate[c] \in Int
  BY DEF TypeOK
<1>2. rate[c] > 0 \/ (rate[c] = 0 /\ triggerThisTime[c])
  BY DEF Wanted
<1>3. WaitsLTPO(c)
  BY <1>2, Zenon DEF WaitsLTPO
<1>4. rate[c] >= 0
  BY <1>1, <1>2
<1>5. WaitsLTPS(c)
  <2>1. CASE highPriorityState[c]
    <3>1. highPriorityRate[c] > 0
      BY <1>1, <2>1 DEF QosPositive
    <3>2. RateInForce(c) = highPriorityRate[c]
      BY <2>1 DEF RateInForce
    <3> QED BY <1>4, <3>1, <3>2 DEF WaitsLTPS
  <2>2. CASE ~highPriorityState[c]
    <3>1. RateInForce(c) = rate[c]
      BY <2>2 DEF RateInForce
    <3> QED BY <1>1, <1>4, <3>1 DEF WaitsLTPS
  <2> QED BY <2>1, <2>2
<1> QED BY <1>3, <1>5 DEF Waits

LEMMA StepRequest ==
  ThreadInv /\ ConnInv /\ RequestInv /\ [Next]_vars => RequestInv'
<1> SUFFICES ASSUME ThreadInv, ConnInv, RequestInv, [Next]_vars PROVE RequestInv'
  OBVIOUS
<1>0. /\ TypeOK /\ OneListener /\ ResultPosted /\ Fresh
      /\ RequestKeepsVSyncOn /\ QosPositive
  BY DEF ThreadInv, ConnInv, RequestInv
<1> USE DEF RequestInv
\* Most actions change none of this.
<1>a. CASE UNCHANGED <<rateVars, qosVars, connections, vsyncEnabled>>
  BY <1>0, <1>a DEF RequestKeepsVSyncOn, QosPositive, Wanted
<1>1. CASE \E c \in Conn : CreateConnection(c)
  BY <1>1, <1>a DEF CreateConnection
<1>2. CASE \E c \in Conn : AddConnection(c)
  <2>1. PICK c \in Conn : AddConnection(c)
    BY <1>2
  <2>2. UNCHANGED <<rateVars, qosVars, vsyncEnabled>> /\ connections' \subseteq connections \cup {c}
    BY <2>1 DEF AddConnection
  <2>3. rate[c] = -1
    BY <1>0, <2>1 DEF AddConnection, Fresh
  <2> QED BY <1>0, <2>2, <2>3 DEF RequestKeepsVSyncOn, QosPositive, Wanted
<1>3. CASE \E c \in Conn : Destroy(c)
  <2>1. PICK c \in Conn : Destroy(c)
    BY <1>3
  <2>2. UNCHANGED <<rateVars, qosVars, vsyncEnabled>> /\ connections' \subseteq connections
    BY <2>1, RemoveShrinks DEF Destroy
  <2> QED BY <1>0, <2>2 DEF RequestKeepsVSyncOn, QosPositive, Wanted
<1>4. CASE \E c \in Conn : ReleaseConnection(c)
  <2>1. PICK c \in Conn : ReleaseConnection(c)
    BY <1>4
  <2>2. \A d \in Conn \ {c} : rate'[d] = rate[d] /\ triggerThisTime'[d] = triggerThisTime[d]
    BY <1>0, <2>1 DEF ReleaseConnection, TypeOK
  <2>3. connections' \subseteq Conn \ {c} /\ UNCHANGED <<connections, vsyncEnabled>>
    BY <1>0, <2>1 DEF ReleaseConnection, TypeOK
  <2>4. RequestKeepsVSyncOn'
    BY <1>0, <2>2, <2>3 DEF RequestKeepsVSyncOn, Wanted
  <2>5. QosPositive'
    BY <1>0, <2>1 DEF ReleaseConnection, QosPositive, TypeOK
  <2> QED BY <2>4, <2>5
<1>5. CASE \E c \in Conn : BeginRequest(c)
  BY <1>5, <1>a DEF BeginRequest
<1>6. CASE \E c \in Conn : RequestNextVSync(c)
  <2>1. PICK c \in Conn : RequestNextVSync(c)
    BY <1>6
  <2>2. CASE c \in connections
    <3>1. vsyncEnabled' = TRUE /\ UNCHANGED qosVars
      BY <1>0, <2>1, <2>2, EnableKeepsListener DEF RequestNextVSync
    <3> QED BY <1>0, <3>1 DEF RequestKeepsVSyncOn, QosPositive
  <2>3. CASE c \notin connections
    BY <2>1, <2>3, <1>a DEF RequestNextVSync
  <2> QED BY <2>2, <2>3
<1>7. CASE \E c \in Conn, r \in AppRates : SetVSyncRate(c, r)
  <2>1. vsyncEnabled' = TRUE /\ UNCHANGED qosVars
    BY <1>0, <1>7, EnableKeepsListener DEF SetVSyncRate
  <2> QED BY <1>0, <2>1 DEF RequestKeepsVSyncOn, QosPositive
<1>8. CASE \E w \in Window, l \in Level : SetQosVSyncRate(w, l)
  <2>1. PICK w \in Window, l \in Level : SetQosVSyncRate(w, l)
    BY <1>8
  <2>2. LevelRate[l] > 0
    BY RateAssumption
  <2>3. QosPositive'
    BY <1>0, <2>1, <2>2 DEF SetQosVSyncRate, QosPositive
  <2>4. UNCHANGED <<rateVars, connections>> /\ (vsyncEnabled' = TRUE \/ UNCHANGED vsyncEnabled)
    BY <1>0, <2>1, EnableKeepsListener DEF SetQosVSyncRate
  <2>5. RequestKeepsVSyncOn'
    BY <1>0, <2>4 DEF RequestKeepsVSyncOn, Wanted
  <2> QED BY <2>3, <2>5
<1>9. CASE \E m \in VSyncModes : SetVSyncMode(m)
  BY <1>9, <1>a DEF SetVSyncMode
<1>10. CASE \E g \in GeneratorRates, rates \in [Conn -> ConnRates \cup {NoChange}] :
              ChangeRefreshRate(g, rates)
  BY <1>10, <1>a DEF ChangeRefreshRate
<1>11. CASE ListenerVsyncEventCB
  BY <1>11, <1>a DEF ListenerVsyncEventCB
<1>12. CASE OnVSyncTrigger
  <2>1. vsyncEnabled = TRUE
    BY <1>0, <1>12 DEF OnVSyncTrigger, OneListener, TypeOK
  <2>2. UNCHANGED <<qosVars, connections>>
    BY <1>12 DEF OnVSyncTrigger
  <2>3. CASE \E c \in connections : Waits(c)
    <3>1. vsyncEnabled' = TRUE
      BY <1>12, <2>1, <2>3, Zenon DEF OnVSyncTrigger
    <3> QED BY <1>0, <2>2, <3>1 DEF RequestKeepsVSyncOn, QosPositive
  <2>4. CASE ~\E c \in connections : Waits(c)
    <3>1. \A c \in connections : ~Wanted(c)
      BY <1>0, <2>4, WantedWaits
    <3>2. \A c \in Conn : rate'[c] \in {-1, rate[c]}
      BY <1>0, <1>12 DEF OnVSyncTrigger, TypeOK
    <3>3. \A c \in Conn : triggerThisTime'[c] => triggerThisTime[c]
      BY <1>0, <1>12, Zenon DEF OnVSyncTrigger
    <3>4. \A c \in connections' : ~Wanted(c)'
      BY <1>0, <2>2, <3>1, <3>2, <3>3 DEF Wanted, TypeOK
    <3> QED BY <1>0, <2>2, <3>4 DEF RequestKeepsVSyncOn, QosPositive
  <2> QED BY <2>3, <2>4
<1>13. CASE \E c \in Conn : PostEvent(c)
  BY <1>13, <1>a DEF PostEvent
<1>14. CASE HandlePostResult
  <2>1. vsyncEnabled' = TRUE /\ UNCHANGED qosVars
    BY <1>0, <1>14 DEF HandlePostResult, OneListener, TypeOK
  <2> QED BY <1>0, <2>1 DEF RequestKeepsVSyncOn, QosPositive
<1>15. CASE UNCHANGED vars
  BY <1>15, <1>a DEF vars
<1> QED BY <1>1, <1>2, <1>3, <1>4, <1>5, <1>6, <1>7, <1>8, <1>9, <1>10, <1>11,
           <1>12, <1>13, <1>14, <1>15 DEF Next

\* Whatever the order of requests, rate changes, throttling, mode changes and
\* events, OnVSyncTrigger never turns VSync off while a registered connection
\* is owed an event, and a connection re-armed after a full socket still finds
\* it on although nothing enables it there.
THEOREM RequestsServed == Spec => []RequestKeepsVSyncOn
<1>1. Spec => [](ThreadInv /\ ConnInv)
  <2>1. Init => ThreadInv /\ ConnInv
    BY InitThread, InitConn
  <2>2. ThreadInv /\ ConnInv /\ [Next]_vars => ThreadInv' /\ ConnInv'
    BY StepThread, StepConn
  <2> QED BY <2>1, <2>2, PTL DEF Spec
<1>2. ThreadInv /\ ConnInv /\ RequestInv /\ [Next]_vars => RequestInv'
  BY StepRequest
<1>3. RequestInv => RequestKeepsVSyncOn
  BY DEF RequestInv
<1> QED BY <1>1, <1>2, <1>3, InitRequest, PTL DEF Spec

-----------------------------------------------------------------------------
(* What SetQosVSyncRate finds, and the rates it leaves.                     *)

\* A connection is filed under its own keys only.
FiledUnderKey == \A k \in Key : \A c \in connectionsMap[k] : k \in QosKeys(c)

\* A connection nobody was given yet has no Qos rate.
FreshQos == \A c \in Conn : life[c] # "open" => ~highPriorityState[c]

MapInv == MapWithinConnections /\ FiledUnderKey /\ FreshQos /\ QosAgrees

LEMMA InitMap == Init => MapInv
  BY DEF Init, MapInv, MapWithinConnections, FiledUnderKey, FreshQos, QosAgrees, Key

\* A removed connection is filed nowhere any more, and no other is filed anew.
LEMMA RemoveUnfiles ==
  ASSUME TypeOK, MapWithinConnections, FiledUnderKey, NEW c \in Conn, RemoveConnection(c)
  PROVE  /\ \A k \in Key : connectionsMap'[k] \subseteq connectionsMap[k]
         /\ MapWithinConnections'
<1>1. CASE c \in connections
  <2>1. connectionsMap' = Unfiled(c) /\ connections' = connections \ {c}
    BY <1>1 DEF RemoveConnection
  <2>2. \A k \in Key : connectionsMap'[k] \subseteq connectionsMap[k]
    BY <2>1 DEF Unfiled
  <2>3. \A k \in Key : c \notin connectionsMap'[k]
    <3> SUFFICES ASSUME NEW k \in Key, c \in connectionsMap'[k] PROVE FALSE
      OBVIOUS
    <3>1. k \in QosKeys(c)
      BY <2>2 DEF FiledUnderKey
    <3>2. k = WindowOf[c] \/ (c \in NamedByPid /\ k = PidOf[c])
      BY <3>1 DEF QosKeys
    <3> QED BY <2>1, <3>2 DEF Unfiled
  <2> QED BY <2>1, <2>2, <2>3 DEF MapWithinConnections
<1>2. CASE c \notin connections
  BY <1>2 DEF RemoveConnection, MapWithinConnections
<1> QED BY <1>1, <1>2

\* MapInv speaks of the Qos state of the connections that are filed.
LEMMA ShrinkKeepsMap ==
  ASSUME MapInv, MapWithinConnections', UNCHANGED qosVars,
         \A k \in Key : connectionsMap'[k] \subseteq connectionsMap[k],
         \A c \in Conn : life'[c] = "open" \/ life'[c] = life[c]
  PROVE  MapInv'
<1>1. FiledUnderKey'
  BY DEF MapInv, FiledUnderKey, QosKeys
<1>2. FreshQos'
  BY DEF MapInv, FreshQos
<1>3. QosAgrees'
  BY DEF MapInv, QosAgrees, Key
<1> QED BY <1>1, <1>2, <1>3 DEF MapInv

LEMMA StepMap == ThreadInv /\ ConnInv /\ MapInv /\ [Next]_vars => MapInv'
<1> SUFFICES ASSUME ThreadInv, ConnInv, MapInv, [Next]_vars PROVE MapInv'
  OBVIOUS
<1>0. /\ TypeOK /\ ResultPosted /\ InUse
      /\ MapWithinConnections /\ FiledUnderKey /\ FreshQos /\ QosAgrees
  BY DEF ThreadInv, ConnInv, MapInv
\* Most actions change none of this.
<1>a. CASE UNCHANGED <<life, qosVars, connections, connectionsMap>>
  BY <1>0, <1>a DEF MapInv, MapWithinConnections, FiledUnderKey, FreshQos, QosAgrees, QosKeys
<1>1. CASE \E c \in Conn : CreateConnection(c)
  BY <1>0, <1>1 DEF CreateConnection, MapInv, MapWithinConnections, FiledUnderKey,
                    FreshQos, QosAgrees, QosKeys, TypeOK
<1>2. CASE \E c \in Conn : AddConnection(c)
  <2>1. PICK c \in Conn : AddConnection(c)
    BY <1>2
  <2>2. UNCHANGED qosVars /\ ~highPriorityState[c]
    BY <1>0, <2>1 DEF AddConnection, FreshQos
  <2>3. \A d \in Conn : life'[d] = life[d] \/ d = c
    BY <1>0, <2>1 DEF AddConnection, TypeOK
  <2>4. FreshQos'
    BY <1>0, <2>2, <2>3 DEF FreshQos
  <2>5. \A k \in Key : /\ connectionsMap'[k] \subseteq connectionsMap[k] \cup {c}
                       /\ c \in connectionsMap'[k] => c \in connections' /\ (c \in connectionsMap[k] \/ k \in QosKeys(c))
    BY <1>0, <2>1 DEF AddConnection, MapWithinConnections
  <2>6. connections \subseteq connections'
    BY <2>1 DEF AddConnection
  <2>7. MapWithinConnections' /\ FiledUnderKey'
    BY <1>0, <2>5, <2>6 DEF MapWithinConnections, FiledUnderKey, QosKeys
  <2>8. QosAgrees'
    BY <1>0, <2>2, <2>5 DEF QosAgrees, Key
  <2> QED BY <2>4, <2>7, <2>8 DEF MapInv
<1>3. CASE \E c \in Conn : Destroy(c)
  <2>1. PICK c \in Conn : Destroy(c)
    BY <1>3
  <2>2. RemoveConnection(c) /\ UNCHANGED <<life, qosVars>>
    BY <2>1 DEF Destroy
  <2> QED BY <1>0, <2>2, RemoveUnfiles, ShrinkKeepsMap
<1>4. CASE \E c \in Conn : ReleaseConnection(c)
  <2>1. PICK c \in Conn : ReleaseConnection(c)
    BY <1>4
  <2>2. UNCHANGED <<connections, connectionsMap, levelOf>> /\ (\A k \in Key : c \notin connectionsMap[k])
    BY <2>1 DEF ReleaseConnection
  <2>3. \A d \in Conn \ {c} : /\ highPriorityRate'[d] = highPriorityRate[d]
                              /\ highPriorityState'[d] = highPriorityState[d]
                              /\ life'[d] = life[d]
    BY <1>0, <2>1 DEF ReleaseConnection, TypeOK
  <2>4. ~highPriorityState'[c]
    BY <1>0, <2>1 DEF ReleaseConnection, TypeOK
  <2>5. MapWithinConnections' /\ FiledUnderKey'
    BY <1>0, <2>2 DEF MapWithinConnections, FiledUnderKey, QosKeys
  <2>6. FreshQos'
    BY <1>0, <2>3, <2>4 DEF FreshQos
  <2>7. QosAgrees'
    BY <1>0, <2>2, <2>4, <2>3 DEF QosAgrees, Key, TypeOK
  <2> QED BY <2>5, <2>6, <2>7 DEF MapInv
<1>5. CASE \E c \in Conn : BeginRequest(c)
  BY <1>5, <1>a DEF BeginRequest
<1>6. CASE \E c \in Conn : RequestNextVSync(c)
  BY <1>6, <1>a DEF RequestNextVSync
<1>7. CASE \E c \in Conn, r \in AppRates : SetVSyncRate(c, r)
  BY <1>7, <1>a DEF SetVSyncRate
<1>8. CASE \E w \in Window, l \in Level : SetQosVSyncRate(w, l)
  <2>1. PICK w \in Window, l \in Level : SetQosVSyncRate(w, l)
    BY <1>8
  <2> DEFINE changed == {c \in QosTargets(w, l) : highPriorityRate[c] # LevelRate[l]}
  <2>2. /\ UNCHANGED <<life, connections, connectionsMap>>
        /\ \A c \in Conn : highPriorityRate'[c] =
                             IF c \in changed THEN LevelRate[l] ELSE highPriorityRate[c]
        /\ \A c \in Conn : highPriorityState'[c] = (c \in changed \/ highPriorityState[c])
        /\ levelOf' = [levelOf EXCEPT ![w] = l]
    BY <2>1 DEF SetQosVSyncRate
  <2>3. w \in Key /\ PidOfWindow[w] \in Key /\ PidOfWindow[w] \in Pid
    BY ConnAssumption DEF Key
  <2>4. MapWithinConnections' /\ FiledUnderKey'
    BY <1>0, <2>2 DEF MapWithinConnections, FiledUnderKey, QosKeys
  <2>5. FreshQos'
    <3>1. changed \subseteq connections
      BY <1>0, <2>3 DEF QosTargets, MapWithinConnections
    <3> QED BY <1>0, <2>2, <3>1 DEF FreshQos, InUse
  <2>6. QosAgrees'
    <3> SUFFICES ASSUME NEW v \in Window, NEW c \in connectionsMap[v], highPriorityState'[c]
                 PROVE  levelOf'[v] # "none" /\ highPriorityRate'[c] = LevelRate[levelOf'[v]]
      BY <2>2 DEF QosAgrees
    <3>1. v \in Key /\ c \in Conn /\ v \in QosKeys(c)
      BY <1>0 DEF Key, TypeOK, FiledUnderKey
    <3>2. v = WindowOf[c] /\ QosKeys(c) = {v}
      BY <3>1, ConnAssumption DEF QosKeys
    <3>3. CASE v = w
      <4>1. c \in QosTargets(w, l)
        BY <3>3 DEF QosTargets
      <4>2. highPriorityRate'[c] = LevelRate[l]
        BY <2>2, <3>1, <4>1
      <4>3. levelOf'[v] = l
        BY <1>0, <2>2, <3>3 DEF TypeOK
      <4>4. levelOf'[v] # "none"
        BY <4>3, RateAssumption
      <4> QED BY <4>2, <4>3, <4>4
    <3>4. CASE v # w
      <4>1. w \notin QosKeys(c) /\ PidOfWindow[w] \notin QosKeys(c)
        BY <2>3, <3>2, <3>4, ConnAssumption
      <4>2. c \notin changed
        BY <1>0, <2>3, <4>1 DEF QosTargets, FiledUnderKey
      <4>3. levelOf'[v] = levelOf[v]
        BY <1>0, <2>2, <3>4 DEF TypeOK
      <4>4. highPriorityState[c] /\ highPriorityRate'[c] = highPriorityRate[c]
        BY <2>2, <3>1, <4>2
      <4> QED BY <1>0, <4>3, <4>4 DEF QosAgrees
    <3> QED BY <3>3, <3>4
  <2> QED BY <2>4, <2>5, <2>6 DEF MapInv
<1>9. CASE \E m \in VSyncModes : SetVSyncMode(m)
  BY <1>9, <1>a DEF SetVSyncMode
<1>10. CASE \E g \in GeneratorRates, rates \in [Conn -> ConnRates \cup {NoChange}] :
              ChangeRefreshRate(g, rates)
  BY <1>10, <1>a DEF ChangeRefreshRate
<1>11. CASE ListenerVsyncEventCB
  BY <1>11, <1>a DEF ListenerVsyncEventCB
<1>12. CASE OnVSyncTrigger
  BY <1>12, <1>a DEF OnVSyncTrigger
<1>13. CASE \E c \in Conn : PostEvent(c)
  BY <1>13, <1>a DEF PostEvent
<1>14. CASE HandlePostResult
  <2>1. UNCHANGED <<life, qosVars>> /\ posted.conn \in Conn
    BY <1>0, <1>14 DEF HandlePostResult, ResultPosted
  <2>2. CASE posted.ret = "OTHER"
    <3>1. RemoveConnection(posted.conn)
      BY <1>14, <2>2 DEF HandlePostResult
    <3> QED BY <1>0, <2>1, <3>1, RemoveUnfiles, ShrinkKeepsMap
  <2>3. CASE posted.ret # "OTHER"
    BY <1>14, <2>1, <2>3, <1>a DEF HandlePostResult
  <2> QED BY <2>2, <2>3
<1>15. CASE UNCHANGED vars
  BY <1>15, <1>a DEF vars
<1> QED BY <1>1, <1>2, <1>3, <1>4, <1>5, <1>6, <1>7, <1>8, <1>9, <1>10, <1>11,
           <1>12, <1>13, <1>14, <1>15 DEF Next

\* connectionsMap_ holds no connection that was removed, and the connections
\* filed under a window never keep the rate of a level other than the window's
\* latest, although connections of other keys are throttled and removed.
THEOREM QosRates == Spec => [](MapWithinConnections /\ QosAgrees)
<1>1. Spec => [](ThreadInv /\ ConnInv)
  <2>1. Init => ThreadInv /\ ConnInv
    BY InitThread, InitConn
  <2>2. ThreadInv /\ ConnInv /\ [Next]_vars => ThreadInv' /\ ConnInv'
    BY StepThread, StepConn
  <2> QED BY <2>1, <2>2, PTL DEF Spec
<1>2. ThreadInv /\ ConnInv /\ MapInv /\ [Next]_vars => MapInv'
  BY StepMap
<1>3. MapInv => MapWithinConnections /\ QosAgrees
  BY DEF MapInv
<1> QED BY <1>1, <1>2, <1>3, InitMap, PTL DEF Spec

\* SetQosVSyncRate never reaches a connection that RemoveConnection took away,
\* whichever of window and process it was filed under.
THEOREM MapHoldsRegistered == Spec => []MapWithinConnections
  BY QosRates, PTL

-----------------------------------------------------------------------------
(* The number of connections of a process.                                  *)

\* The registered connections of process p.
OfPid(p) == {c \in connections : PidOf[c] = p}

CounterInv ==
  /\ CounterMatchesConnections
  /\ IsFiniteSet(connections)

LEMMA InitCounter == Init => CounterInv
<1> SUFFICES ASSUME Init PROVE CounterInv
  OBVIOUS
<1>1. connections = {} /\ \A p \in Pid : connectionCounter[p] = 0
  BY DEF Init
<1>2. IsFiniteSet({}) /\ Cardinality({}) = 0
  BY FS_EmptySet
<1>3. \A p \in Pid : {c \in connections : PidOf[c] = p} = {}
  BY <1>1
<1>4. VSYNC_CONNECTION_MAX_SIZE \in Nat
  BY RateAssumption
<1>5. \A p \in Pid : Cardinality({c \in connections : PidOf[c] = p}) = 0
  BY <1>2, <1>3
<1>6. \A p \in Pid : connectionCounter[p] <= VSYNC_CONNECTION_MAX_SIZE + 1
  BY <1>1, <1>4
<1> QED BY <1>1, <1>2, <1>5, <1>6 DEF CounterInv, CounterMatchesConnections

\* The other processes' connections stay as they are when one is removed.
LEMMA RemoveKeepsCounter ==
  ASSUME TypeOK, CounterInv, NEW c \in Conn, RemoveConnection(c)
  PROVE  CounterInv'
<1>1. CASE c \in connections
  <2>1. connections' = connections \ {c} /\ IsFiniteSet(connections)
    BY <1>1 DEF RemoveConnection, CounterInv
  <2>2. IsFiniteSet(connections')
    BY <2>1, FS_RemoveElement
  <2>3. ASSUME NEW p \in Pid
        PROVE  /\ connectionCounter'[p] = Cardinality(OfPid(p)')
               /\ connectionCounter'[p] <= VSYNC_CONNECTION_MAX_SIZE + 1
    <3>1. /\ connectionCounter[p] = Cardinality(OfPid(p))
          /\ connectionCounter[p] <= VSYNC_CONNECTION_MAX_SIZE + 1
          /\ connectionCounter[p] \in Int
      BY DEF CounterInv, CounterMatchesConnections, OfPid, TypeOK
    <3>2. IsFiniteSet(OfPid(p))
      BY <2>1, FS_Subset DEF OfPid
    <3>3. CASE p = PidOf[c]
      <4>1. OfPid(p)' = OfPid(p) \ {c} /\ c \in OfPid(p)
        BY <1>1, <2>1, <3>3 DEF OfPid
      <4>2. Cardinality(OfPid(p)') = Cardinality(OfPid(p)) - 1
        BY <3>2, <4>1, FS_RemoveElement
      <4>3. connectionCounter'[p] = connectionCounter[p] - 1
        BY <1>1, <3>3 DEF RemoveConnection, TypeOK
      <4> QED BY <3>1, <4>2, <4>3, RateAssumption
    <3>4. CASE p # PidOf[c]
      <4>1. OfPid(p)' = OfPid(p)
        BY <2>1, <3>4 DEF OfPid
      <4>2. connectionCounter'[p] = connectionCounter[p]
        BY <1>1, <3>4 DEF RemoveConnection, TypeOK
      <4> QED BY <3>1, <4>1, <4>2
    <3> QED BY <3>3, <3>4
  <2> QED BY <2>2, <2>3 DEF CounterInv, CounterMatchesConnections, OfPid
<1>2. CASE c \notin connections
  BY <1>2 DEF RemoveConnection, CounterInv, CounterMatchesConnections
<1> QED BY <1>1, <1>2

LEMMA AddKeepsCounter ==
  ASSUME TypeOK, InUse, CounterInv, NEW c \in Conn, AddConnection(c)
  PROVE  CounterInv'
<1>1. CASE connectionCounter[PidOf[c]] > VSYNC_CONNECTION_MAX_SIZE
  BY <1>1 DEF AddConnection, CounterInv, CounterMatchesConnections
<1>2. CASE ~(connectionCounter[PidOf[c]] > VSYNC_CONNECTION_MAX_SIZE)
  <2>1. connections' = connections \cup {c} /\ IsFiniteSet(connections)
    BY <1>2 DEF AddConnection, CounterInv
  <2>2. c \notin connections
    BY DEF AddConnection, InUse
  <2>3. IsFiniteSet(connections')
    BY <2>1, FS_AddElement
  <2>4. ASSUME NEW p \in Pid
        PROVE  /\ connectionCounter'[p] = Cardinality(OfPid(p)')
               /\ connectionCounter'[p] <= VSYNC_CONNECTION_MAX_SIZE + 1
    <3>1. /\ connectionCounter[p] = Cardinality(OfPid(p))
          /\ connectionCounter[p] <= VSYNC_CONNECTION_MAX_SIZE + 1
          /\ connectionCounter[p] \in Int
      BY DEF CounterInv, CounterMatchesConnections, OfPid, TypeOK
    <3>2. IsFiniteSet(OfPid(p))
      BY <2>1, FS_Subset DEF OfPid
    <3>3. CASE p = PidOf[c]
      <4>1. OfPid(p)' = OfPid(p) \cup {c} /\ c \notin OfPid(p)
        BY <2>1, <2>2, <3>3 DEF OfPid
      <4>2. Cardinality(OfPid(p)') = Cardinality(OfPid(p)) + 1
        BY <3>2, <4>1, FS_AddElement
      <4>3. connectionCounter'[p] = connectionCounter[p] + 1
        BY <1>2, <3>3 DEF AddConnection, TypeOK
      <4> QED BY <1>2, <3>1, <3>3, <4>2, <4>3, RateAssumption
    <3>4. CASE p # PidOf[c]
      <4>1. OfPid(p)' = OfPid(p)
        BY <2>1, <3>4 DEF OfPid
      <4>2. connectionCounter'[p] = connectionCounter[p]
        BY <1>2, <3>4 DEF AddConnection, TypeOK
      <4> QED BY <3>1, <4>1, <4>2
    <3> QED BY <3>3, <3>4
  <2> QED BY <2>3, <2>4 DEF CounterInv, CounterMatchesConnections, OfPid
<1> QED BY <1>1, <1>2

LEMMA StepCounter == ThreadInv /\ ConnInv /\ CounterInv /\ [Next]_vars => CounterInv'
<1> SUFFICES ASSUME ThreadInv, ConnInv, CounterInv, [Next]_vars PROVE CounterInv'
  OBVIOUS
<1>0. TypeOK /\ ResultPosted /\ InUse
  BY DEF ThreadInv, ConnInv
<1>a. CASE UNCHANGED regVars
  BY <1>a DEF CounterInv, CounterMatchesConnections
<1>1. CASE \E c \in Conn : AddConnection(c)
  BY <1>0, <1>1, AddKeepsCounter
<1>2. CASE \E c \in Conn : Destroy(c)
  BY <1>0, <1>2, RemoveKeepsCounter DEF Destroy
<1>3. CASE HandlePostResult
  <2>1. RemoveConnection(posted.conn) \/ UNCHANGED regVars
    BY <1>3 DEF HandlePostResult
  <2>2. posted.conn \in Conn
    BY <1>0, <1>3 DEF HandlePostResult, ResultPosted
  <2> QED BY <1>0, <1>a, <2>1, <2>2, RemoveKeepsCounter
<1>4. CASE \/ \E c \in Conn : \/ CreateConnection(c) \/ ReleaseConnection(c)
                              \/ BeginRequest(c) \/ RequestNextVSync(c)
           \/ \E c \in Conn, r \in AppRates : SetVSyncRate(c, r)
  BY <1>4, <1>a DEF CreateConnection, ReleaseConnection, BeginRequest,
                    RequestNextVSync, SetVSyncRate
<1>5. CASE \/ \E w \in Window, l \in Level : SetQosVSyncRate(w, l)
           \/ \E m \in VSyncModes : SetVSyncMode(m)
           \/ \E g \in GeneratorRates, rates \in [Conn -> ConnRates \cup {NoChange}] :
                ChangeRefreshRate(g, rates)
  BY <1>5, <1>a DEF SetQosVSyncRate, SetVSyncMode, ChangeRefreshRate
<1>6. CASE ListenerVsyncEventCB \/ OnVSyncTrigger \/ \E c \in Conn : PostEvent(c)
  BY <1>6, <1>a DEF ListenerVsyncEventCB, OnVSyncTrigger, PostEvent
<1>7. CASE UNCHANGED vars
  BY <1>7, <1>a DEF vars
<1> QED BY <1>1, <1>2, <1>3, <1>4, <1>5, <1>6, <1>7 DEF Next

\* connectionCounter_ is the number of registered connections of each process,
\* whether they are destroyed, die or are removed for a failed socket, and at
\* most one more than VSYNC_CONNECTION_MAX_SIZE.
THEOREM ConnectionsCounted == Spec => []CounterMatchesConnections
<1>1. Spec => [](ThreadInv /\ ConnInv)
  <2>1. Init => ThreadInv /\ ConnInv
    BY InitThread, InitConn
  <2>2. ThreadInv /\ ConnInv /\ [Next]_vars => ThreadInv' /\ ConnInv'
    BY StepThread, StepConn
  <2> QED BY <2>1, <2>2, PTL DEF Spec
<1>2. ThreadInv /\ ConnInv /\ CounterInv /\ [Next]_vars => CounterInv'
  BY StepCounter
<1>3. CounterInv => CounterMatchesConnections
  BY DEF CounterInv
<1> QED BY <1>1, <1>2, <1>3, InitCounter, PTL DEF Spec
-----------------------------------------------------------------------------
(* Pulses under LTPO.                                                       *)

\* A connection nobody was given yet follows no rate.
FreshPulse == \A c \in Conn : life[c] # "open" => vsyncPulseFreq[c] = 1

PulseInv == PulseAligned /\ FreshPulse

LEMMA InitPulse == Init => PulseInv
  BY DEF Init, PulseInv, PulseAligned, FreshPulse

\* What UpdateChangeDataLocked hands over and ChangeConnsRateLocked makes of it
\* keeps a connection's frequency and phase multiples of the generator's stride.
LEMMA TriggerAligns ==
  ASSUME TypeOK, PulseAligned, NEW c \in connections,
         c \notin stranded \/ RateChanges(c),
         currRefreshRate > 0, NewPulseFreq(c) > 1
  PROVE  /\ NewPulseFreq(c) % Stride(currRefreshRate) = 0
         /\ NewPulsePhase(c) % Stride(currRefreshRate) = 0
<1> DEFINE s == Stride(currRefreshRate)
<1>0. /\ c \in Conn
      /\ vsyncPulseFreq[c] \in Nat \ {0} /\ pulsePhase[c] \in Nat
      /\ changingRates[c] \in ConnRates \cup {NoChange}
  BY DEF TypeOK
<1>1. /\ currRefreshRate \in Nat \ {0}
      /\ VSYNC_MAX_REFRESHRATE % currRefreshRate = 0
  BY RateAssumption DEF TypeOK, VSYNC_MAX_REFRESHRATE
<1>2. s \in Nat \ {0}
  BY <1>1, StridePositive
<1>3. NewGeneratorRate = currRefreshRate /\ Pulses = s
  BY DEF NewGeneratorRate, Pulses
<1>4. CASE RateChanges(c)
  <2> DEFINE r == changingRates[c]
  <2>1. RateFits(r) /\ NewPulseFreq(c) = Stride(r)
    BY <1>4 DEF NewPulseFreq
  <2>2. r \in Nat \ {0} /\ currRefreshRate % r = 0
    BY <1>0, <1>3, <1>4, <2>1, RateAssumption DEF RateChanges, RateFits
  <2>3. Stride(r) % s = 0
    <3>1. VSYNC_MAX_REFRESHRATE \in Nat \ {0}
      BY DEF VSYNC_MAX_REFRESHRATE
    <3> QED BY <1>1, <2>2, <3>1, StridesNest DEF Stride
  <2>4. NewPulsePhase(c) = 0 /\ 0 % s = 0
    BY <1>2, <1>4 DEF NewPulsePhase
  <2> QED BY <2>1, <2>3, <2>4
<1>5. CASE ~RateChanges(c)
  <2>1. /\ NewPulseFreq(c) = vsyncPulseFreq[c]
        /\ NewPulsePhase(c) = (pulsePhase[c] + s) % vsyncPulseFreq[c]
    BY <1>3, <1>5 DEF NewPulseFreq, NewPulsePhase
  <2>2. changingRates[c] = NoChange
    BY <1>5 DEF RateChanges
  <2>3. vsyncPulseFreq[c] % s = 0 /\ pulsePhase[c] % s = 0
    BY <1>5, <2>1, <2>2 DEF PulseAligned
  <2> HIDE DEF s
  <2>4. pulsePhase[c] + s \in Nat /\ (pulsePhase[c] + s) % s = 0
    BY <1>0, <1>2, <2>3, SumKeepsDivisor
  <2>5. ((pulsePhase[c] + s) % vsyncPulseFreq[c]) % s = 0
    BY <1>0, <1>2, <2>3, <2>4, ModKeepsDivisor
  <2> QED BY <2>1, <2>3, <2>5 DEF s
<1> QED BY <1>4, <1>5

LEMMA StepPulse == ThreadInv /\ ConnInv /\ PulseInv /\ [Next]_vars => PulseInv'
<1> SUFFICES ASSUME ThreadInv, ConnInv, PulseInv, [Next]_vars PROVE PulseInv'
  OBVIOUS
<1>0. TypeOK /\ InUse /\ PulseAligned /\ FreshPulse
  BY DEF ThreadInv, ConnInv, PulseInv
\* Most actions change none of this.
<1>a. ASSUME UNCHANGED <<pulseVars, changingRates, currRefreshRate>>,
             connections' \subseteq connections,
             \A c \in Conn : life'[c] = "open" \/ life'[c] = life[c]
                             \/ vsyncPulseFreq[c] = 1
      PROVE  PulseInv'
  BY <1>0, <1>a DEF PulseInv, PulseAligned, FreshPulse
<1>1. CASE \E c \in Conn : CreateConnection(c)
  BY <1>0, <1>1, <1>a DEF CreateConnection, FreshPulse, TypeOK
<1>2. CASE \E c \in Conn : AddConnection(c)
  <2>1. PICK c \in Conn : AddConnection(c)
    BY <1>2
  <2>2. vsyncPulseFreq[c] = 1 /\ connections' \subseteq connections \cup {c}
    BY <1>0, <2>1 DEF AddConnection, FreshPulse
  <2>3. UNCHANGED <<pulseVars, changingRates, currRefreshRate>>
    BY <2>1 DEF AddConnection
  <2>4. PulseAligned'
    BY <1>0, <2>2, <2>3 DEF PulseAligned
  <2>5. \A d \in Conn : life'[d] = life[d] \/ d = c
    BY <1>0, <2>1 DEF AddConnection, TypeOK
  <2>6. FreshPulse'
    BY <1>0, <2>2, <2>3, <2>5 DEF FreshPulse
  <2> QED BY <2>4, <2>6 DEF PulseInv
<1>3. CASE \E c \in Conn : Destroy(c)
  BY <1>3, <1>a, RemoveShrinks DEF Destroy
<1>4. CASE \E c \in Conn : ReleaseConnection(c)
  <2>1. PICK c \in Conn : ReleaseConnection(c)
    BY <1>4
  <2>2. /\ c \notin connections /\ vsyncPulseFreq'[c] = 1
        /\ UNCHANGED <<connections, currRefreshRate>>
    BY <1>0, <2>1 DEF ReleaseConnection, TypeOK
  <2>3. \A d \in Conn \ {c} : /\ vsyncPulseFreq'[d] = vsyncPulseFreq[d]
                              /\ pulsePhase'[d] = pulsePhase[d]
                              /\ changingRates'[d] = changingRates[d]
                              /\ life'[d] = life[d]
                              /\ d \in stranded' <=> d \in stranded
    BY <1>0, <2>1 DEF ReleaseConnection, TypeOK
  <2>4. PulseAligned'
    BY <1>0, <2>2, <2>3 DEF PulseAligned, TypeOK
  <2>5. FreshPulse'
    BY <1>0, <2>2, <2>3 DEF FreshPulse
  <2> QED BY <2>4, <2>5 DEF PulseInv
<1>5. CASE \/ \E c \in Conn : BeginRequest(c) \/ RequestNextVSync(c)
           \/ \E c \in Conn, r \in AppRates : SetVSyncRate(c, r)
  BY <1>5, <1>a DEF BeginRequest, RequestNextVSync, SetVSyncRate
<1>6. CASE \/ \E w \in Window, l \in Level : SetQosVSyncRate(w, l)
           \/ \E m \in VSyncModes : SetVSyncMode(m)
  BY <1>6, <1>a DEF SetQosVSyncRate, SetVSyncMode
<1>7. CASE \E g \in GeneratorRates, rates \in [Conn -> ConnRates \cup {NoChange}] :
             ChangeRefreshRate(g, rates)
  <2>1. PICK g \in GeneratorRates, rates \in [Conn -> ConnRates \cup {NoChange}] :
          ChangeRefreshRate(g, rates)
    BY <1>7
  <2>2. /\ UNCHANGED <<life, vsyncPulseFreq, pulsePhase, connections>>
        /\ currRefreshRate' = g
        /\ stranded' = stranded \cup LeftBehind(g, rates)
    BY <2>1 DEF ChangeRefreshRate
  <2>3. \A c \in Conn : changingRates'[c] =
                          IF rates[c] # NoChange THEN rates[c] ELSE changingRates[c]
    BY <2>1 DEF ChangeRefreshRate
  <2>4. \A c \in connections :
          changingRates'[c] = NoChange => changingRates[c] = NoChange /\ rates[c] = NoChange
    BY <1>0, <2>3 DEF TypeOK
  <2>5. FreshPulse'
    BY <1>0, <2>2 DEF FreshPulse
  <2>6. CASE currRefreshRate > 0 /\ g % currRefreshRate = 0
    <3> SUFFICES ASSUME NEW c \in connections \ stranded,
                        vsyncPulseFreq[c] > 1, changingRates'[c] = NoChange
                 PROVE  /\ vsyncPulseFreq[c] % Stride(g) = 0
                        /\ pulsePhase[c] % Stride(g) = 0
      BY <2>2, <2>5 DEF PulseInv, PulseAligned
    <3>1. /\ vsyncPulseFreq[c] % Stride(currRefreshRate) = 0
          /\ pulsePhase[c] % Stride(currRefreshRate) = 0
      BY <1>0, <2>4, <2>6 DEF PulseAligned
    <3>2. /\ currRefreshRate \in Nat \ {0} /\ VSYNC_MAX_REFRESHRATE % currRefreshRate = 0
          /\ g \in Nat \ {0} /\ VSYNC_MAX_REFRESHRATE % g = 0
      BY <1>0, <2>6, RateAssumption DEF TypeOK, VSYNC_MAX_REFRESHRATE
    <3>3. Stride(currRefreshRate) \in Nat \ {0} /\ Stride(g) \in Nat \ {0}
      BY <3>2, StridePositive
    <3>4. Stride(currRefreshRate) % Stride(g) = 0
      <4>1. VSYNC_MAX_REFRESHRATE \in Nat \ {0}
        BY DEF VSYNC_MAX_REFRESHRATE
      <4> QED BY <2>6, <3>2, <4>1, StridesNest DEF Stride
    <3>5. vsyncPulseFreq[c] \in Nat /\ pulsePhase[c] \in Nat
      BY <1>0 DEF TypeOK
    <3> QED BY <3>1, <3>3, <3>4, <3>5, DivisorTransitive
  <2>7. CASE ~(currRefreshRate > 0 /\ g % currRefreshRate = 0)
    <3>1. \A c \in connections \ stranded' :
            vsyncPulseFreq[c] > 1 => rates[c] # NoChange \/ changingRates[c] # NoChange
      BY <2>2, <2>7 DEF LeftBehind
    <3>2. PulseAligned'
      BY <2>2, <2>4, <3>1 DEF PulseAligned
    <3> QED BY <2>5, <3>2 DEF PulseInv
  <2> QED BY <2>6, <2>7
<1>8. CASE OnVSyncTrigger
  <2>1. /\ UNCHANGED <<life, connections, currRefreshRate>>
        /\ \A c \in Conn : /\ vsyncPulseFreq'[c] = NewPulseFreq(c)
                           /\ pulsePhase'[c] = NewPulsePhase(c)
        /\ stranded' = {c \in stranded : ~RateChanges(c)}
    BY <1>8 DEF OnVSyncTrigger
  <2>2. PulseAligned'
    <3> SUFFICES ASSUME NEW c \in connections,
                        c \notin stranded \/ RateChanges(c),
                        currRefreshRate > 0, NewPulseFreq(c) > 1
                 PROVE  /\ NewPulseFreq(c) % Stride(currRefreshRate) = 0
                        /\ NewPulsePhase(c) % Stride(currRefreshRate) = 0
      BY <1>0, <2>1 DEF PulseAligned, TypeOK
    <3> QED BY <1>0, TriggerAligns
  <2>3. FreshPulse'
    <3> SUFFICES ASSUME NEW c \in Conn, life[c] # "open" PROVE NewPulseFreq(c) = 1
      BY <2>1 DEF FreshPulse
    <3>1. c \notin connections
      BY <1>0 DEF InUse
    <3> QED BY <1>0, <3>1 DEF NewPulseFreq, RateChanges, FreshPulse
  <2> QED BY <2>2, <2>3 DEF PulseInv
<1>9. CASE ListenerVsyncEventCB \/ \E c \in Conn : PostEvent(c)
  BY <1>9, <1>a DEF ListenerVsyncEventCB, PostEvent
<1>10. CASE HandlePostResult
  <2>1. connections' \subseteq connections
    BY <1>10, RemoveShrinks DEF HandlePostResult
  <2> QED BY <1>10, <1>a, <2>1 DEF HandlePostResult
<1>11. CASE UNCHANGED vars
  BY <1>11, <1>a DEF vars
<1> QED BY <1>1, <1>2, <1>3, <1>4, <1>5, <1>6, <1>7, <1>8, <1>9, <1>10, <1>11
        DEF Next

\* Through changes of the generator's rate with and without rates for the
\* connections, refused rates, connections that come and go and full-rate
\* fallbacks, a registered connection that follows a rate has a frequency and a
\* phase the generator's stride divides, or a new rate waiting for it; the only
\* exception is one left behind, without a rate, by a change of the generator's
\* rate to one that is not a multiple of what it was.
THEOREM PulsesAlign == Spec => []PulseAligned
<1>1. Spec => [](ThreadInv /\ ConnInv)
  <2>1. Init => ThreadInv /\ ConnInv
    BY InitThread, InitConn
  <2>2. ThreadInv /\ ConnInv /\ [Next]_vars => ThreadInv' /\ ConnInv'
    BY StepThread, StepConn
  <2> QED BY <2>1, <2>2, PTL DEF Spec
<1>2. ThreadInv /\ ConnInv /\ PulseInv /\ [Next]_vars => PulseInv'
  BY StepPulse
<1>3. PulseInv => PulseAligned
  BY DEF PulseInv
<1> QED BY <1>1, <1>2, <1>3, InitPulse, PTL DEF Spec

\* Counted up by a stride that divides it and its modulus, a phase meets zero.
LEMMA PhaseReturns ==
  ASSUME NEW s \in Nat \ {0}, NEW f \in Nat \ {0}, NEW x \in Nat,
         f % s = 0, x % s = 0
  PROVE  \E k \in Nat : (x + k * s) % f = 0
<1> DEFINE p == x \div s
           l == f \div s
           k == p * (l - 1)
<1>1. p \in Nat /\ x = s * p /\ l \in Nat /\ f = s * l
  BY CoDivisor
<1> HIDE DEF p, l
<1>2. l # 0
  BY <1>1
<1>3. k \in Nat
  <2>1. l - 1 \in Nat
    BY <1>1, <1>2
  <2> QED BY <1>1, <2>1
<1>4. k = p * l - p /\ p * l \in Nat
  BY <1>1
<1>5. x + k * s = f * p
  <2>1. k * s = (p * l) * s - p * s
    BY <1>1, <1>4
  <2>2. (p * l) * s = f * p /\ p * s = x
    BY <1>1
  <2> QED BY <1>1, <1>3, <2>1, <2>2
<1> HIDE DEF k
<1>6. (x + k * s) % f = 0
  BY <1>1, <1>5, DivisorOfProduct
<1> QED BY <1>3, <1>6

\* The generator has a number of pulses after which the phase of c is zero.
PhaseMeetsZero(c) ==
  \E k \in Nat :
    (pulsePhase[c] + k * Stride(currRefreshRate)) % vsyncPulseFreq[c] = 0

\* A registered connection that follows a rate of its own, with no new one
\* waiting and not left behind by a change of the generator's, is not passed over by every pulse the generator can make: at some
\* number of them its phase is zero, and only there CollectConnectionsLTPO
\* looks at its requests.
THEOREM PulsesReturn ==
  Spec => [](\A c \in connections \ stranded :
               /\ currRefreshRate > 0 /\ vsyncPulseFreq[c] > 1
               /\ changingRates[c] = NoChange
               => PhaseMeetsZero(c))
<1> DEFINE Returns ==
      \A c \in connections \ stranded :
        /\ currRefreshRate > 0 /\ vsyncPulseFreq[c] > 1
        /\ changingRates[c] = NoChange
        => PhaseMeetsZero(c)
<1>1. TypeOK /\ PulseAligned => Returns
  <2> SUFFICES ASSUME TypeOK, PulseAligned, NEW c \in connections \ stranded,
                      currRefreshRate > 0, vsyncPulseFreq[c] > 1,
                      changingRates[c] = NoChange
               PROVE  PhaseMeetsZero(c)
    OBVIOUS
  <2>1. vsyncPulseFreq[c] \in Nat \ {0} /\ pulsePhase[c] \in Nat
    BY DEF TypeOK
  <2>2. /\ currRefreshRate \in Nat \ {0}
        /\ VSYNC_MAX_REFRESHRATE % currRefreshRate = 0
    BY RateAssumption DEF TypeOK, VSYNC_MAX_REFRESHRATE
  <2>3. Stride(currRefreshRate) \in Nat \ {0}
    BY <2>2, StridePositive
  <2>4. /\ vsyncPulseFreq[c] % Stride(currRefreshRate) = 0
        /\ pulsePhase[c] % Stride(currRefreshRate) = 0
    BY DEF PulseAligned
  <2> QED BY <2>1, <2>3, <2>4, PhaseReturns DEF PhaseMeetsZero
<1> QED BY <1>1, PulsesAlign, DistributorTypes, PTL
=============================================================================
