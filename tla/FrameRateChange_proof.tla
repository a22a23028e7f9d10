------------------------ MODULE FrameRateChange_proof ------------------------
(***************************************************************************)
(* Proofs about FrameRateChange for any linkers, rates and votes: the      *)
(* types, and that the rates of the linkers reach the connections.         *)
(***************************************************************************)
EXTENDS FrameRateChange, NaturalsInduction, WellFoundedInduction, TLAPS

-----------------------------------------------------------------------------
(* The rates.                                                              *)

\* CalcRefreshRate finds a rate of the screen for every vote.
LEMMA CalcRefreshRateType ==
  ASSUME NEW m \in Nat
  PROVE  CalcRefreshRate(m) \in ScreenRate
<1> DEFINE reaching == {r \in ScreenRate : r >= m}
<1>1. CASE reaching # {}
  <2>1. reaching \subseteq Nat
    BY ScreenAssumption
  <2>2. PICK r \in reaching : \A s \in reaching : <<s, r>> \notin OpToRel(<, Nat)
    BY <1>1, <2>1, NatLessThanWellFounded, WFMin
  <2>3. \A a, b \in Nat : a < b => <<a, b>> \in OpToRel(<, Nat)
    BY Zenon DEF OpToRel
  <2>4. \A s \in reaching : ~(s < r)
    BY <2>1, <2>2, <2>3, Zenon
  <2>5. \A s \in reaching : r <= s
    BY <2>1, <2>4
  <2> QED
    BY <1>1, <2>5 DEF CalcRefreshRate
<1>2. CASE reaching = {}
  BY <1>2, ScreenAssumption DEF CalcRefreshRate
<1> QED
  BY <1>1, <1>2

\* GetDrawingFrameRate yields a natural number for every rate and preference,
\* its undefined case included.
LEMMA DrawingFrameRatesType ==
  ASSUME NEW r \in Nat, NEW p \in Nat
  PROVE  DrawingFrameRates(r, p) \subseteq Nat
<1>1. CASE p = 0 \/ r = 0 \/ r % p = 0
  BY <1>1 DEF DrawingFrameRates
<1>2. CASE p # 0 /\ r # 0 /\ r % p # 0
  <2>1. Rounded(r, p) \in Nat
    <3>1. 2 * r + p \in Nat /\ 2 * p \in Nat \ {0}
      BY <1>2
    <3>2. \A a \in Nat, b \in Nat \ {0} : a \div b \in Nat
      OBVIOUS
    <3> QED
      BY <3>1, <3>2 DEF Rounded
  <2>2. CASE Rounded(r, p) = 0
    BY <1>2, <2>2, RateAssumption DEF DrawingFrameRates
  <2>3. CASE Rounded(r, p) # 0
    <3>1. r \div Rounded(r, p) \in Nat
      <4>1. \A b \in Nat \ {0} : r \div b \in Nat
        OBVIOUS
      <4> QED
        BY <2>1, <2>3, <4>1
    <3> QED
      BY <1>2, <2>3, <3>1 DEF DrawingFrameRates
  <2> QED
    BY <2>2, <2>3
<1> QED
  BY <1>1, <1>2

\* The generator accepts only divisors of VSYNC_MAX_REFRESHRATE.
LEMMA AcceptedRateType ==
  ASSUME NEW r \in Nat, RateAccepted(r)
  PROVE  r \in GeneratorRate
<1>1. r > 0 /\ 360 % r = 0
  BY DEF RateAccepted, VSYNC_MAX_REFRESHRATE
<1>2. r <= 360
  <2>1. SUFFICES ASSUME r > 360 PROVE FALSE
    OBVIOUS
  <2>2. 360 % r = 360
    BY <2>1
  <2> QED
    BY <1>1, <2>2
<1> QED
  BY <1>1, <1>2 DEF GeneratorRate, VSYNC_MAX_REFRESHRATE

-----------------------------------------------------------------------------
(* Types.                                                                  *)

\* A frame is only begun with room for its task.
RoomForTask == mpc # "idle" => tasks < MaxTasks
TypeInv == TypeOK /\ RoomForTask

LEMMA TypeInvariant == Spec => []TypeInv
<1>0. MaxTasks \in Nat
  BY RateAssumption
<1>1. Init => TypeInv
  <2> SUFFICES ASSUME Init PROVE TypeInv
    OBVIOUS
  <2> USE DEF Init
  <2>1. tasks \in 0..MaxTasks /\ RoomForTask
    BY <1>0 DEF RoomForTask
  <2>2. /\ appChangeData \in [Linker -> Nat \cup {NoChange}]
        /\ changingRates \in [Linker -> Nat \cup {NoChange}]
        /\ linkerRate \in [Linker -> Nat]
        /\ connRate \in [Linker -> Nat]
    OBVIOUS
  <2> QED
    BY <2>1, <2>2 DEF TypeInv, TypeOK
<1>2. TypeInv /\ [Next]_vars => TypeInv'
  <2> SUFFICES ASSUME TypeInv, [Next]_vars PROVE TypeInv'
    OBVIOUS
  <2> USE DEF TypeInv, TypeOK, RoomForTask
  <2>1. CASE Reset
    BY <2>1 DEF Reset, linkerVars, taskVars, generatorVars
  <2>2. CASE ClearAppChangeData
    BY <2>2 DEF ClearAppChangeData, taskVars, generatorVars, historyVars
  <2>3. ASSUME NEW m \in Vote, CalcControllerRate(m) PROVE TypeInv'
    <3>1. m \in Nat /\ CalcRefreshRate(m) \in ScreenRate /\ CalcRefreshRate(m) \in Nat
      BY RateAssumption, ScreenAssumption, CalcRefreshRateType
    <3>2. DrawingFrameRates(CalcRefreshRate(m), m) \subseteq Nat
      BY <3>1, DrawingFrameRatesType
    <3>3. controllerRate' \in Nat
      BY <2>3, <3>2 DEF CalcControllerRate
    <3> QED
      BY <2>3, <3>1, <3>3
      DEF CalcControllerRate, linkerVars, taskVars, generatorVars, historyVars
  <2>4. CASE CompareControllerRate
    BY <2>4 DEF CompareControllerRate, linkerVars, taskVars, generatorVars, historyVars
  <2>5. ASSUME NEW l \in Linker, NEW p \in Preferred, CollectLinker(l, p) PROVE TypeInv'
    <3>1. currRefreshRate \in Nat /\ p \in Nat
      BY RateAssumption, ScreenAssumption
    <3>2. DrawingFrameRates(currRefreshRate, p) \subseteq Nat
      BY <3>1, DrawingFrameRatesType
    <3>3. /\ linkerRate' \in [Linker -> Nat]
          /\ appChangeData' \in [Linker -> Nat \cup {NoChange}]
      BY <2>5, <3>2 DEF CollectLinker, linkerVars
    <3> QED
      BY <2>5, <3>3 DEF CollectLinker, taskVars, generatorVars, historyVars
  <2>6. CASE FinishFrame
    BY <2>6, <1>0 DEF FinishFrame, linkerVars, generatorVars, historyVars
  <2>7. CASE BeginTask
    BY <2>7, <1>0 DEF BeginTask, frameVars, linkerVars, generatorVars, historyVars
  <2>8. CASE ChangeGeneratorRate
    <3>1. RateAccepted(taskRate) => taskRate \in GeneratorRate
      BY AcceptedRateType
    <3>2. MergedRates \in [Linker -> Nat \cup {NoChange}]
      BY DEF MergedRates
    <3> QED
      BY <2>8, <3>1, <3>2 DEF ChangeGeneratorRate, frameVars, linkerVars
  <2>9. CASE BecomeReady
    BY <2>9 DEF BecomeReady, frameVars, linkerVars, taskVars, historyVars
  <2>10. CASE AddListener
    BY <2>10 DEF AddListener, frameVars, linkerVars, taskVars, historyVars
  <2>11. CASE UpdateChangeData
    BY <2>11 DEF UpdateChangeData, frameVars, linkerVars, taskVars, historyVars
  <2>12. CASE UNCHANGED vars
    BY <2>12 DEF vars, frameVars, linkerVars, taskVars, generatorVars, historyVars
  <2> QED
    BY <2>1, <2>2, <2>3, <2>4, <2>5, <2>6, <2>7, <2>8, <2>9, <2>10, <2>11, <2>12
    DEF Next
<1> QED
  BY <1>1, <1>2, PTL DEF Spec

\* The generator never holds a rate that is zero or does not divide
\* VSYNC_MAX_REFRESHRATE, whatever rate the task finds in the manager.
THEOREM FrameRateTypes == Spec => []TypeOK
<1>1. TypeInv => TypeOK
  BY DEF TypeInv
<1> QED
  BY <1>1, TypeInvariant, PTL

-----------------------------------------------------------------------------
(* Delivery.  While nothing was missed, frames and tasks take turns, so each *)
(* linker's rate is found in the first of three places that has one for it:  *)
(* the manager's vector as long as a task is going to take it, the           *)
(* generator's, and the connection.                                          *)

\* The manager's vector never holds an old rate, and is empty before a frame
\* starts to fill it.
DataAgrees ==
  /\ \A l \in Linker : appChangeData[l] \in {NoChange, linkerRate[l]}
  /\ mpc \in {"vote", "compare"} => \A l \in Linker : appChangeData[l] = NoChange

TakeTurns ==
  ~missed =>
    /\ mpc # "idle" => ~TaskOutstanding
    /\ tasks <= 1
    /\ tpc = "locked" => tasks = 0

Taken == mpc = "collect" \/ TaskOutstanding
Due(l) ==
  IF Taken /\ appChangeData[l] # NoChange THEN appChangeData[l]
  ELSE IF changingRates[l] # NoChange THEN changingRates[l]
  ELSE connRate[l]
AllDue == ~missed => \A l \in Linker : Due(l) = linkerRate[l]

DeliveryInv == TypeOK /\ DataAgrees /\ TakeTurns /\ AllDue

LEMMA DeliveryInit == Init /\ TypeOK => DeliveryInv
<1> SUFFICES ASSUME Init, TypeOK PROVE DataAgrees /\ TakeTurns /\ AllDue
  BY DEF DeliveryInv
<1> QED
  BY DEF Init, DataAgrees, TakeTurns, AllDue, Due, Taken, TaskOutstanding, NoChange

LEMMA DeliveryNext == DeliveryInv /\ TypeOK' /\ [Next]_vars => DeliveryInv'
<1> SUFFICES ASSUME DeliveryInv, TypeOK', [Next]_vars
             PROVE  DataAgrees' /\ TakeTurns' /\ AllDue'
  BY DEF DeliveryInv
<1> USE DEF DeliveryInv, TypeOK, DataAgrees, TakeTurns, AllDue, Due, Taken,
            TaskOutstanding
<1>1. CASE Reset
  BY <1>1 DEF Reset, linkerVars, taskVars, generatorVars
<1>2. CASE ClearAppChangeData
  BY <1>2 DEF ClearAppChangeData, taskVars, generatorVars, historyVars
<1>3. ASSUME NEW m \in Vote, CalcControllerRate(m)
      PROVE  DataAgrees' /\ TakeTurns' /\ AllDue'
  BY <1>3 DEF CalcControllerRate, linkerVars, taskVars, generatorVars, historyVars
<1>4. CASE CompareControllerRate
  BY <1>4 DEF CompareControllerRate, linkerVars, taskVars, generatorVars, historyVars
<1>5. ASSUME NEW l \in Linker, NEW p \in Preferred, CollectLinker(l, p)
      PROVE  DataAgrees' /\ TakeTurns' /\ AllDue'
  <2>1. CASE UNCHANGED linkerVars
    BY <1>5, <2>1 DEF CollectLinker, linkerVars, taskVars, generatorVars, historyVars
  <2>2. ASSUME NEW f,
               linkerRate' = [linkerRate EXCEPT ![l] = f],
               appChangeData' = [appChangeData EXCEPT ![l] = f]
        PROVE  DataAgrees' /\ TakeTurns' /\ AllDue'
    BY <1>5, <2>2 DEF CollectLinker, taskVars, generatorVars, historyVars, NoChange
  <2> QED
    BY <1>5, <2>1, <2>2 DEF CollectLinker
<1>6. CASE FinishFrame
  BY <1>6 DEF FinishFrame, FrameRateChanged, linkerVars, generatorVars, historyVars
<1>7. CASE BeginTask
  BY <1>7 DEF BeginTask, frameVars, linkerVars, generatorVars, historyVars
<1>8. CASE ChangeGeneratorRate
  <2>1. CASE RateAccepted(taskRate)
    BY <1>8, <2>1
    DEF ChangeGeneratorRate, MergedRates, AllRatesSent, frameVars, linkerVars
  <2>2. CASE ~RateAccepted(taskRate)
    BY <1>8, <2>2 DEF ChangeGeneratorRate, frameVars, linkerVars
  <2> QED
    BY <2>1, <2>2
<1>9. CASE BecomeReady
  BY <1>9 DEF BecomeReady, frameVars, linkerVars, taskVars, historyVars
<1>10. CASE AddListener
  BY <1>10 DEF AddListener, frameVars, linkerVars, taskVars, historyVars
<1>11. CASE UpdateChangeData
  BY <1>11 DEF UpdateChangeData, frameVars, linkerVars, taskVars, historyVars
<1>12. CASE UNCHANGED vars
  BY <1>12 DEF vars, frameVars, linkerVars, taskVars, generatorVars, historyVars
<1> QED
  BY <1>1, <1>2, <1>3, <1>4, <1>5, <1>6, <1>7, <1>8, <1>9, <1>10, <1>11, <1>12
  DEF Next

LEMMA DeliveryInvariant == Spec => []DeliveryInv
<1>1. Init /\ TypeOK => DeliveryInv
  BY DeliveryInit
<1>2. DeliveryInv /\ TypeOK' /\ [Next]_vars => DeliveryInv'
  BY DeliveryNext
<1> QED
  BY <1>1, <1>2, FrameRateTypes, PTL DEF Spec

\* Once nothing waits, every connection has its linker's rate, unless a task
\* was overtaken or refused since all rates were last sent.
THEOREM RatesSettle == Spec => []SettledRates
<1>1. DeliveryInv => SettledRates
  BY DEF DeliveryInv, AllDue, Due, Taken, SettledRates, NothingWaits
<1> QED
  BY <1>1, DeliveryInvariant, PTL

-----------------------------------------------------------------------------
(* Completeness.  The manager counts as a change only what differs from      *)
(* currentRate_, the generator what differs from its own rate.  As long as   *)
(* the two agree, or will once the waiting change is applied, a change the   *)
(* generator makes is one the manager sends rates for all linkers with.      *)

AllIn(rates) == \A l \in Linker : rates[l] # NoChange

InStep == currentRate = IF changingRate # 0 THEN changingRate ELSE genRate
WaitsWithAll == changingRate # 0 => AllIn(changingRates)
CollectsAll ==
  mpc = "collect" =>
    /\ rateChanged <=> controllerRate # currentRate
    /\ rateChanged => \A l \in Linker \ todo : appChangeData[l] # NoChange
TaskHasAll ==
  /\ tasks > 0 /\ controllerRate # currentRate => AllIn(appChangeData)
  /\ tpc = "locked" /\ taskRate # currentRate => AllIn(appChangeData)

CompleteInv ==
  ~missed /\ ~kept => InStep /\ WaitsWithAll /\ CollectsAll /\ TaskHasAll

LEMMA CompleteInit == Init => CompleteInv
BY DEF Init, CompleteInv, InStep, WaitsWithAll, CollectsAll, TaskHasAll

LEMMA CompleteNext ==
  CompleteInv /\ DeliveryInv /\ TypeOK' /\ [Next]_vars => CompleteInv'
<1> SUFFICES ASSUME CompleteInv, DeliveryInv, TypeOK', [Next]_vars,
                    ~missed', ~kept'
             PROVE  InStep' /\ WaitsWithAll' /\ CollectsAll' /\ TaskHasAll'
  BY DEF CompleteInv
<1>0. TypeOK /\ TakeTurns
  BY DEF DeliveryInv
<1> USE DEF CompleteInv, InStep, WaitsWithAll, CollectsAll, TaskHasAll, AllIn,
            TypeOK, TakeTurns, TaskOutstanding
<1>1. CASE Reset
  BY <1>0, <1>1 DEF Reset, linkerVars, taskVars, generatorVars
<1>2. CASE ClearAppChangeData
  BY <1>0, <1>2 DEF ClearAppChangeData, taskVars, generatorVars, historyVars
<1>3. ASSUME NEW m \in Vote, CalcControllerRate(m)
      PROVE  InStep' /\ WaitsWithAll' /\ CollectsAll' /\ TaskHasAll'
  BY <1>0, <1>3
  DEF CalcControllerRate, linkerVars, taskVars, generatorVars, historyVars
<1>4. CASE CompareControllerRate
  BY <1>0, <1>4
  DEF CompareControllerRate, linkerVars, taskVars, generatorVars, historyVars
<1>5. ASSUME NEW l \in Linker, NEW p \in Preferred, CollectLinker(l, p)
      PROVE  InStep' /\ WaitsWithAll' /\ CollectsAll' /\ TaskHasAll'
  <2>1. PICK f \in DrawingFrameRates(currRefreshRate, p) :
          IF Differs(l, f)
          THEN appChangeData' = [appChangeData EXCEPT ![l] = f] /\ f # NoChange
          ELSE UNCHANGED appChangeData
    <3>1. currRefreshRate \in Nat /\ p \in Nat
      BY <1>0, ScreenAssumption, RateAssumption
    <3>2. DrawingFrameRates(currRefreshRate, p) \subseteq Nat
      BY <3>1, DrawingFrameRatesType
    <3> QED
      BY <1>5, <3>2 DEF CollectLinker, linkerVars, NoChange
  <2>2. rateChanged => Differs(l, f)
    BY DEF Differs
  <2> QED
    BY <1>0, <1>5, <2>1, <2>2 DEF CollectLinker, taskVars, generatorVars, historyVars
<1>6. CASE FinishFrame
  BY <1>0, <1>6 DEF FinishFrame, linkerVars, generatorVars, historyVars
<1>7. CASE BeginTask
  BY <1>0, <1>7 DEF BeginTask, frameVars, linkerVars, generatorVars, historyVars
<1>8. CASE ChangeGeneratorRate
  <2>1. RateAccepted(taskRate) /\ mpc = "idle" /\ tasks = 0
    BY <1>0, <1>8 DEF ChangeGeneratorRate, AllRatesSent
  <2>2. AllIn(appChangeData) => AllIn(changingRates')
    BY <1>8, <2>1 DEF ChangeGeneratorRate, MergedRates
  <2>3. AllIn(changingRates) => AllIn(changingRates')
    BY <1>8, <2>1 DEF ChangeGeneratorRate, MergedRates
  <2>4. CASE taskRate # genRate
    <3>1. AllIn(appChangeData) \/ AllIn(changingRates)
      BY <1>8, <2>1, <2>4 DEF ChangeGeneratorRate, AllRatesSent
    <3> QED
      BY <1>0, <1>8, <2>1, <2>2, <2>3, <2>4, <3>1
      DEF ChangeGeneratorRate, RateAccepted, frameVars
  <2>5. CASE taskRate = genRate
    <3>1. changingRate = 0 /\ changingRate' = 0
      BY <1>0, <1>8, <2>1, <2>5 DEF ChangeGeneratorRate
    <3>2. mpc' = "idle" /\ tasks' = 0 /\ tpc' = "idle"
      BY <1>8, <2>1 DEF ChangeGeneratorRate, frameVars
    <3>3. currentRate' = genRate'
      BY <1>8, <2>5 DEF ChangeGeneratorRate
    <3> QED
      BY <3>1, <3>2, <3>3
  <2> QED
    BY <2>4, <2>5
<1>9. CASE BecomeReady
  BY <1>0, <1>9 DEF BecomeReady, frameVars, linkerVars, taskVars, historyVars
<1>10. CASE AddListener
  BY <1>0, <1>10 DEF AddListener, frameVars, linkerVars, taskVars, historyVars
<1>11. CASE UpdateChangeData
  <2>1. changingRate # 0 => changingRate > 0
    BY <1>0 DEF GeneratorRate
  <2> QED
    BY <1>0, <1>11, <2>1
    DEF UpdateChangeData, frameVars, linkerVars, taskVars, historyVars
<1>12. CASE UNCHANGED vars
  BY <1>0, <1>12 DEF vars, frameVars, linkerVars, taskVars, generatorVars, historyVars
<1> QED
  BY <1>1, <1>2, <1>3, <1>4, <1>5, <1>6, <1>7, <1>8, <1>9, <1>10, <1>11, <1>12
  DEF Next

\* A change of the generator's rate waits together with rates for all linkers,
\* with the exceptions RatesWithChange names.
THEOREM ChangesAreComplete == Spec => []RatesWithChange
<1>1. Init => CompleteInv
  BY CompleteInit
<1>2. CompleteInv /\ DeliveryInv /\ TypeOK' /\ [Next]_vars => CompleteInv'
  BY CompleteNext
<1>3. CompleteInv => RatesWithChange
  BY DEF CompleteInv, WaitsWithAll, AllIn, RatesWithChange
<1> QED
  BY <1>1, <1>2, <1>3, FrameRateTypes, DeliveryInvariant, PTL DEF Spec

\* The generator only lags behind the manager through a kept change: this is
\* GeneratorFollows with that exception.
GeneratorFollowsUnlessKept ==
  NothingWaits /\ ~missed /\ ~kept => genRate = currentRate

\* So the case MCFrameRatePending finds is the only one.
THEOREM OnlyKeptChangesDiverge == Spec => []GeneratorFollowsUnlessKept
<1>1. Init => CompleteInv
  BY CompleteInit
<1>2. CompleteInv /\ DeliveryInv /\ TypeOK' /\ [Next]_vars => CompleteInv'
  BY CompleteNext
<1>3. CompleteInv => GeneratorFollowsUnlessKept
  BY DEF CompleteInv, InStep, NothingWaits, GeneratorFollowsUnlessKept
<1> QED
  BY <1>1, <1>2, <1>3, FrameRateTypes, DeliveryInvariant, PTL DEF Spec
=============================================================================
