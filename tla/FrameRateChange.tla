--------------------------- MODULE FrameRateChange ---------------------------
(***************************************************************************)
(* How a change of frame rate travels from the HgmFrameRateManager to the  *)
(* VSync connections on an LTPO screen.  Source:                           *)
(* src/rosen/modules/hyper_graphic_manager/core/frame_rate_manager and the *)
(* VSyncGenerator.                                                         *)
(*                                                                         *)
(* Threads: the main thread computes, once a frame, a panel refresh rate,  *)
(* a controller rate and a rate for the linker of every application        *)
(* (UniProcessDataForLtpo); HgmTaskHandleThread runs the task posted at    *)
(* the end of a frame that changed something, which reads the manager's    *)
(* fields again; the generator thread applies what was asked for at its    *)
(* next turn.  A step of the main thread ends where the task can see or    *)
(* change what it uses.                                                    *)
(*                                                                         *)
(* A linker stands for its connection as well.  Its expected range is      *)
(* static, [p, p, p]; the vote's range always is.  Phase offsets, target   *)
(* times and the panel's own pending rate are left out.                    *)
(***************************************************************************)
EXTENDS Integers

CONSTANTS
  Linker,      \* frame-rate linkers of the applications
  ScreenRate,  \* refresh rates the screen supports
  Vote,        \* maxima the vote can result in
  Preferred,   \* preferred rates of the linkers' ranges
  Saturated,   \* UINT32_MAX, what casting an infinite quotient gives on arm64
  MaxTasks     \* bound: tasks waiting for HgmTaskHandleThread

VSYNC_MAX_REFRESHRATE == 360
NoChange == -1   \* no entry in a vector of <linker, rate> pairs

ASSUME ScreenAssumption ==
  /\ ScreenRate \subseteq Nat \ {0}
  /\ \E r \in ScreenRate : \A s \in ScreenRate : s <= r
ASSUME RateAssumption ==
  /\ Vote \subseteq Nat
  /\ Preferred \subseteq Nat
  /\ Saturated \in Nat \ {0}
  /\ VSYNC_MAX_REFRESHRATE % Saturated # 0
  /\ MaxTasks \in Nat

VARIABLES
  \* HgmFrameRateManager, main thread
  mpc,             \* "idle", "clear", "vote", "compare", "collect"
  currRefreshRate, \* currRefreshRate_
  controllerRate,  \* controllerRate_
  appChangeData,   \* appChangeData_: a rate or NoChange per linker
  rateChanged,     \* controllerRateChanged
  todo,            \* linkers the loop has yet to visit
  linkerRate,      \* frameRate_ of each RSRenderFrameRateLinker
  \* HgmTaskHandleThread and HgmVSyncGeneratorController
  tasks,           \* posted tasks not yet begun
  tpc,             \* "idle", or "locked": has appChangeDataMutex_
  taskRate,        \* the controllerRate it has read
  currentRate,     \* currentRate_
  \* VSyncGenerator
  ready,           \* vsyncMode_ is LTPO and pulse_ is known
  registered,      \* the app controller is in listenersRecord_
  genRate,         \* currRefreshRate_
  changingRate,    \* changingGeneratorRefreshRate_, 0 when there is none
  changingRates,   \* changingRefreshRates_: a rate or NoChange per linker
  \* VSyncDistributor
  connRate,        \* the rate last delivered to each linker's connection
  \* history
  missed,          \* since all rates were last sent at once, a task was
                   \* overtaken by the next frame, or its change refused
  kept             \* since then, a change waited on after it was taken back

frameVars == <<mpc, currRefreshRate, controllerRate, rateChanged, todo>>
linkerVars == <<appChangeData, linkerRate>>
taskVars == <<tasks, tpc, taskRate, currentRate>>
generatorVars == <<ready, registered, genRate, changingRate, changingRates, connRate>>
historyVars == <<missed, kept>>
vars == <<frameVars, linkerVars, taskVars, generatorVars, historyVars>>

GeneratorRate == {r \in 1..VSYNC_MAX_REFRESHRATE : VSYNC_MAX_REFRESHRATE % r = 0}

\* The generator divides by its rate: it never holds one that is zero or does
\* not divide VSYNC_MAX_REFRESHRATE, although the task may pass it any.
TypeOK ==
  /\ mpc \in {"idle", "clear", "vote", "compare", "collect"}
  /\ currRefreshRate \in ScreenRate \cup {0}
  /\ controllerRate \in Nat
  /\ appChangeData \in [Linker -> Nat \cup {NoChange}]
  /\ rateChanged \in BOOLEAN
  /\ todo \subseteq Linker
  /\ linkerRate \in [Linker -> Nat]
  /\ tasks \in 0..MaxTasks
  /\ tpc \in {"idle", "locked"}
  /\ taskRate \in Nat
  /\ currentRate \in Nat
  /\ ready \in BOOLEAN
  /\ registered \in BOOLEAN
  /\ genRate \in GeneratorRate \cup {0}
  /\ changingRate \in GeneratorRate \cup {0}
  /\ changingRates \in [Linker -> Nat \cup {NoChange}]
  /\ connRate \in [Linker -> Nat]
  /\ missed \in BOOLEAN
  /\ kept \in BOOLEAN

Init ==
  /\ mpc = "idle"
  /\ currRefreshRate = 0
  /\ controllerRate = 0
  /\ appChangeData = [l \in Linker |-> NoChange]
  /\ rateChanged = FALSE
  /\ todo = {}
  /\ linkerRate = [l \in Linker |-> 0]
  /\ tasks = 0
  /\ tpc = "idle"
  /\ taskRate = 0
  /\ currentRate = 0
  /\ ready = FALSE
  /\ registered = FALSE
  /\ genRate = 0
  /\ changingRate = 0
  /\ changingRates = [l \in Linker |-> NoChange]
  /\ connRate = [l \in Linker |-> 0]
  /\ missed = FALSE
  /\ kept = FALSE

-----------------------------------------------------------------------------
(* The rates of a frame.                                                   *)

\* The lowest supported rate that reaches m, else the highest there is.
CalcRefreshRate(m) ==
  LET reaching == {r \in ScreenRate : r >= m}
  IN IF reaching # {} THEN CHOOSE r \in reaching : \A s \in reaching : r <= s
     ELSE CHOOSE r \in ScreenRate : \A s \in ScreenRate : s <= r

Rounded(r, p) == (2 * r + p) \div (2 * p)   \* std::round(r / p)

\* GetDrawingFrameRate(r, [p, p, p]).  A preferred rate above 2 * r makes it
\* divide by zero and cast infinity to uint32_t, which C++ leaves undefined.
DrawingFrameRates(r, p) ==
  IF p = 0 \/ r = 0 THEN {0}
  ELSE IF r % p = 0 THEN {p}
  ELSE IF Rounded(r, p) = 0 THEN {0, Saturated}
  ELSE {r \div Rounded(r, p)}

-----------------------------------------------------------------------------
(* The main thread: UniProcessDataForLtpo.                                 *)

TaskOutstanding == tasks > 0 \/ tpc = "locked"

\* Reset up to its mutex.
Reset ==
  /\ mpc = "idle"
  /\ tasks < MaxTasks
  /\ currRefreshRate' = 0
  /\ controllerRate' = 0
  /\ missed' = (missed \/ TaskOutstanding)
  /\ mpc' = "clear"
  /\ UNCHANGED <<rateChanged, todo, linkerVars, taskVars, generatorVars, kept>>

\* The rest of it.
ClearAppChangeData ==
  /\ mpc = "clear"
  /\ tpc # "locked"
  /\ appChangeData' = [l \in Linker |-> NoChange]
  /\ mpc' = "vote"
  /\ UNCHANGED <<currRefreshRate, controllerRate, rateChanged, todo,
                 linkerRate, taskVars, generatorVars, historyVars>>

\* CalcRefreshRate and the controller's rate, for a vote with maximum m.
CalcControllerRate(m) ==
  /\ mpc = "vote"
  /\ currRefreshRate' = CalcRefreshRate(m)
  /\ \E rsFrameRate \in DrawingFrameRates(CalcRefreshRate(m), m) :
       controllerRate' = IF rsFrameRate > 0 THEN rsFrameRate ELSE currentRate
  /\ mpc' = "compare"
  /\ UNCHANGED <<rateChanged, todo, linkerVars, taskVars, generatorVars, historyVars>>

CompareControllerRate ==
  /\ mpc = "compare"
  /\ rateChanged' = (controllerRate # currentRate)
  /\ todo' = Linker
  /\ mpc' = "collect"
  /\ UNCHANGED <<currRefreshRate, controllerRate, linkerVars, taskVars, generatorVars,
                 historyVars>>

\* Mutant: a change of the controller's rate does not matter.
DiffersForLinker(l, appFrameRate) == appFrameRate # linkerRate[l]

Differs(l, appFrameRate) == appFrameRate # linkerRate[l] \/ rateChanged

\* One round of CollectFrameRateChange's loop.  While the screen is touched,
\* the linker's rate is zero, as if it preferred none.
CollectLinker(l, p) ==
  /\ mpc = "collect"
  /\ l \in todo
  /\ todo' = todo \ {l}
  /\ \E appFrameRate \in DrawingFrameRates(currRefreshRate, p) :
       IF Differs(l, appFrameRate)
       THEN /\ tpc # "locked"
            /\ linkerRate' = [linkerRate EXCEPT ![l] = appFrameRate]
            /\ appChangeData' = [appChangeData EXCEPT ![l] = appFrameRate]
       ELSE UNCHANGED linkerVars
  /\ UNCHANGED <<mpc, currRefreshRate, controllerRate, rateChanged, taskVars,
                 generatorVars, historyVars>>

FrameRateChanged == rateChanged \/ \E l \in Linker : appChangeData[l] # NoChange

\* HandleFrameRateChangeForLTPO posts the task.
FinishFrame ==
  /\ mpc = "collect"
  /\ todo = {}
  /\ tasks' = IF FrameRateChanged THEN tasks + 1 ELSE tasks
  /\ mpc' = "idle"
  /\ UNCHANGED <<currRefreshRate, controllerRate, rateChanged, todo, linkerVars,
                 tpc, taskRate, currentRate, generatorVars, historyVars>>

-----------------------------------------------------------------------------
(* The task.                                                               *)

\* It locks appChangeDataMutex_ and reads controllerRate_, as it now is.
BeginTask ==
  /\ tasks > 0
  /\ tpc = "idle"
  /\ tasks' = tasks - 1
  /\ taskRate' = controllerRate
  /\ tpc' = "locked"
  /\ UNCHANGED <<frameVars, linkerVars, currentRate, generatorVars, historyVars>>

\* Mutant: the rate is not checked.
AnyRateAccepted(r) == ready

RateAccepted(r) ==
  /\ ready
  /\ r > 0
  /\ VSYNC_MAX_REFRESHRATE % r = 0

\* Mutant: a waiting rate is not replaced.
KeptRates ==
  [l \in Linker |-> IF changingRates[l] # NoChange
                    THEN changingRates[l] ELSE appChangeData[l]]

\* UpdateChangeRefreshRatesLocked.
MergedRates ==
  [l \in Linker |-> IF appChangeData[l] # NoChange
                    THEN appChangeData[l] ELSE changingRates[l]]

\* All rates are sent, and neither a frame nor another task is under way.
AllRatesSent ==
  /\ \A l \in Linker : appChangeData[l] # NoChange
  /\ mpc = "idle"
  /\ tasks = 0

\* ChangeGeneratorRefreshRateModel, and the controller's currentRate_, whatever
\* it returned.  A change to another rate that is still waiting stays.
ChangeGeneratorRate ==
  /\ tpc = "locked"
  /\ IF RateAccepted(taskRate)
     THEN /\ changingRates' = MergedRates
          /\ missed' = (missed /\ ~AllRatesSent)
          /\ IF taskRate # genRate
             THEN changingRate' = taskRate /\ kept' = (kept /\ ~AllRatesSent)
             ELSE UNCHANGED changingRate /\ kept' = (kept \/ changingRate # 0)
     ELSE /\ missed' = TRUE
          /\ UNCHANGED <<changingRate, changingRates, kept>>
  /\ currentRate' = taskRate
  /\ tpc' = "idle"
  /\ UNCHANGED <<frameVars, linkerVars, tasks, taskRate, ready, registered,
                 genRate, connRate>>

-----------------------------------------------------------------------------
(* The generator.                                                          *)

\* The first hardware samples fix the pulse, and the mode is switched to LTPO.
BecomeReady ==
  /\ ~ready
  /\ ready' = TRUE
  /\ UNCHANGED <<frameVars, linkerVars, taskVars, registered, genRate,
                 changingRate, changingRates, connRate, historyVars>>

\* The app controller is turned on for the first time.
AddListener ==
  /\ ~registered
  /\ registered' = TRUE
  /\ UNCHANGED <<frameVars, linkerVars, taskVars, ready, genRate,
                 changingRate, changingRates, connRate, historyVars>>

\* UpdateChangeDataLocked, when it runs: there are listeners and the timing is
\* right.  The connections' rates wait for the app controller.
UpdateChangeData ==
  /\ ready
  /\ genRate' = IF changingRate > 0 THEN changingRate ELSE genRate
  /\ changingRate' = 0
  /\ IF registered
     THEN /\ connRate' = [l \in Linker |->
               IF changingRates[l] # NoChange THEN changingRates[l] ELSE connRate[l]]
          /\ changingRates' = [l \in Linker |-> NoChange]
     ELSE UNCHANGED <<connRate, changingRates>>
  /\ UNCHANGED <<frameVars, linkerVars, taskVars, ready, registered, historyVars>>

-----------------------------------------------------------------------------
Next ==
  \/ Reset
  \/ ClearAppChangeData
  \/ \E m \in Vote : CalcControllerRate(m)
  \/ CompareControllerRate
  \/ \E l \in Linker, p \in Preferred : CollectLinker(l, p)
  \/ FinishFrame
  \/ BeginTask
  \/ ChangeGeneratorRate
  \/ BecomeReady
  \/ AddListener
  \/ UpdateChangeData

Spec == Init /\ [][Next]_vars

-----------------------------------------------------------------------------
(* Properties.                                                             *)

NothingWaits ==
  /\ mpc = "idle"
  /\ ~TaskOutstanding
  /\ changingRate = 0
  /\ \A l \in Linker : changingRates[l] = NoChange

\* Rates pass through the manager's vector, a task and the generator's vector,
\* each of which may be filled again before it is emptied; in the end every
\* connection has the rate its linker shows, unless a task was overtaken by the
\* next frame's Reset or refused since all rates were last sent.
SettledRates ==
  NothingWaits /\ ~missed => \A l \in Linker : connRate[l] = linkerRate[l]

\* A new generator rate is never applied without rates for all connections, to
\* which VSyncDistributor aligns their phases anew: they wait together, or the
\* connections' rates for longer.  Besides the exception above, a change kept
\* after it was taken back leaves the generator with another rate than the
\* manager believes, and a later change may not be one to the manager.
RatesWithChange ==
  changingRate # 0 /\ ~missed /\ ~kept =>
    \A l \in Linker : changingRates[l] # NoChange

\* "refreshRateNotChanged, generatorRefreshRate:%u, currRefreshRate_:%u"
\* (vsync_generator.cpp:665): after a request for the rate the generator has,
\* its rate is not changed, and in the end it is the rate last asked for.
GeneratorFollows == NothingWaits /\ ~missed => genRate = currentRate
=============================================================================
