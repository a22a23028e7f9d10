----------------------- MODULE TransactionOrder_proof -----------------------
(***************************************************************************)
(* Theorems of TransactionOrder: a frame waits for its barrier and for     *)
(* nothing else; every transaction of a connected client is in one place;  *)
(* and until an index is skipped, a client's transactions are executed in  *)
(* the order it sent them.                                                 *)
(***************************************************************************)
EXTENDS TransactionOrder, TLAPS, WellFoundedInduction, FiniteSetTheorems,
        SequenceTheorems

-----------------------------------------------------------------------------
(* Tasks of the unmarshalling thread.                                      *)

Task == Parcel \cup {Barrier}

\* What is left when a task is taken out, elsewhere than at the end too.
LEMMA RemovedTask ==
  ASSUME NEW s \in Seq(Task), NEW k \in 1..Len(s)
  PROVE  /\ RemoveAt(s, k) \in Seq(Task)
         /\ Len(RemoveAt(s, k)) = Len(s) - 1
         /\ \A j \in 1..(Len(s) - 1) :
              RemoveAt(s, k)[j] = IF j < k THEN s[j] ELSE s[j + 1]
<1> DEFINE a == SubSeq(s, 1, k - 1)
           b == SubSeq(s, k + 1, Len(s))
<1>1. /\ a \in Seq(Task) /\ Len(a) = k - 1
      /\ \A j \in 1..(k - 1) : a[j] = s[j]
  OBVIOUS
<1>2. /\ b \in Seq(Task) /\ Len(b) = Len(s) - k
      /\ \A j \in 1..(Len(s) - k) : b[j] = s[j + k]
  OBVIOUS
<1>3. RemoveAt(s, k) = a \o b
  BY DEF RemoveAt
<1> HIDE DEF a, b
<1>4. /\ a \o b \in Seq(Task) /\ Len(a \o b) = Len(a) + Len(b)
      /\ \A j \in 1..(Len(a) + Len(b)) :
           (a \o b)[j] = IF j <= Len(a) THEN a[j] ELSE b[j - Len(a)]
  BY <1>1, <1>2, ConcatProperties
<1>5. \A j \in 1..(Len(s) - 1) : (a \o b)[j] = IF j < k THEN s[j] ELSE s[j + 1]
  <2> TAKE j \in 1..(Len(s) - 1)
  <2>1. CASE j < k BY <2>1, <1>1, <1>2, <1>4
  <2>2. CASE ~(j < k)
    <3>1. j - (k - 1) \in 1..(Len(s) - k) /\ (j - (k - 1)) + k = j + 1 BY <2>2
    <3>2. b[j - (k - 1)] = s[j + 1] BY <3>1, <1>2
    <3> QED BY <3>2, <2>2, <1>1, <1>2, <1>4
  <2> QED BY <2>1, <2>2
<1> QED BY <1>1, <1>2, <1>3, <1>4, <1>5

\* Its tasks are in a sequence, and each parcel is posted once.
PostedOnce ==
  \A j, k \in DOMAIN tasks :
    j # k /\ tasks[j] # Barrier /\ tasks[k] # Barrier =>
      <<tasks[j].pid, tasks[j].idx>> # <<tasks[k].pid, tasks[k].idx>>

\* Membership in Posted, in this state and in the next.
LEMMA PostedIs ==
  ASSUME NEW p
  PROVE \A i : i \in Posted(p) <=>
          \E k \in DOMAIN tasks : tasks[k] # Barrier /\ tasks[k].pid = p /\ tasks[k].idx = i
  BY DEF Posted

LEMMA PostedThen ==
  ASSUME NEW p
  PROVE \A i : i \in Posted(p)' <=>
          \E k \in DOMAIN tasks' : tasks'[k] # Barrier /\ tasks'[k].pid = p /\ tasks'[k].idx = i
  BY DEF Posted

\* A parcel appended is posted, and nothing else changes.
LEMMA PostedParcel ==
  ASSUME TypeOK, NEW p \in Process, NEW i \in Nat, NEW b \in BOOLEAN,
         tasks' = Append(tasks, [pid |-> p, idx |-> i, pending |-> b])
  PROVE  /\ \A q \in Process : Posted(q)' = IF q = p THEN Posted(q) \cup {i} ELSE Posted(q)
         /\ PostedOnce /\ i \notin Posted(p) => PostedOnce'
<1> DEFINE t == [pid |-> p, idx |-> i, pending |-> b]
<1>1. t \in Parcel /\ t # Barrier BY BarrierAssumption DEF Parcel
<1>2. tasks \in Seq(Task) BY DEF TypeOK, Task
<1>3. /\ DOMAIN tasks' = 1..(Len(tasks) + 1)
      /\ DOMAIN tasks = 1..Len(tasks)
      /\ \A k \in 1..Len(tasks) : tasks'[k] = tasks[k]
      /\ tasks'[Len(tasks) + 1] = t
  BY <1>2
<1>4. t.pid = p /\ t.idx = i OBVIOUS
<1> HIDE DEF t
<1>5. ASSUME NEW q \in Process PROVE Posted(q)' = IF q = p THEN Posted(q) \cup {i} ELSE Posted(q)
  <2>1. ASSUME NEW x
        PROVE  x \in Posted(q)' <=> x \in IF q = p THEN Posted(q) \cup {i} ELSE Posted(q)
    <3>1. x \in Posted(q)' <=>
            \/ \E k \in DOMAIN tasks : tasks[k] # Barrier /\ tasks[k].pid = q /\ tasks[k].idx = x
            \/ q = p /\ x = i
      BY <1>1, <1>2, <1>3, <1>4, PostedThen
    <3> QED BY <3>1, PostedIs
  <2> QED BY <2>1
<1>6. PostedOnce /\ i \notin Posted(p) => PostedOnce'
  BY <1>1, <1>2, <1>3, <1>4, PostedIs DEF PostedOnce
<1> QED BY <1>5, <1>6

\* A barrier appended leaves the parcels posted as they are.
LEMMA PostedBarrier ==
  ASSUME TypeOK, tasks' = Append(tasks, Barrier)
  PROVE  /\ \A q \in Process : Posted(q)' = Posted(q)
         /\ PostedOnce => PostedOnce'
<1>2. tasks \in Seq(Task) BY DEF TypeOK, Task
<1>3. /\ DOMAIN tasks' = 1..(Len(tasks) + 1)
      /\ DOMAIN tasks = 1..Len(tasks)
      /\ \A k \in 1..Len(tasks) : tasks'[k] = tasks[k]
      /\ tasks'[Len(tasks) + 1] = Barrier
  BY <1>2
<1>5. ASSUME NEW q \in Process PROVE Posted(q)' = Posted(q)
  <2>1. ASSUME NEW x PROVE x \in Posted(q)' <=> x \in Posted(q)
    <3>1. x \in Posted(q)' <=>
            \E k \in DOMAIN tasks : tasks[k] # Barrier /\ tasks[k].pid = q /\ tasks[k].idx = x
      BY <1>2, <1>3, PostedThen
    <3> QED BY <3>1, PostedIs
  <2> QED BY <2>1
<1>6. PostedOnce => PostedOnce'
  BY <1>2, <1>3 DEF PostedOnce
<1> QED BY <1>5, <1>6

\* A parcel removed is posted no more, as it was posted once.
LEMMA RemovedParcel ==
  ASSUME TypeOK, PostedOnce, NEW k \in DOMAIN tasks, tasks[k] # Barrier,
         tasks' = RemoveAt(tasks, k)
  PROVE  /\ \A q \in Process :
              Posted(q)' = IF q = tasks[k].pid THEN Posted(q) \ {tasks[k].idx} ELSE Posted(q)
         /\ PostedOnce'
<1>2. tasks \in Seq(Task) BY DEF TypeOK, Task
<1>3. /\ DOMAIN tasks' = 1..(Len(tasks) - 1)
      /\ DOMAIN tasks = 1..Len(tasks)
      /\ \A j \in 1..(Len(tasks) - 1) : tasks'[j] = IF j < k THEN tasks[j] ELSE tasks[j + 1]
  BY <1>2, RemovedTask
<1>4. \A j \in DOMAIN tasks :
        j # k => \E l \in DOMAIN tasks' : tasks'[l] = tasks[j]
  <2> TAKE j \in DOMAIN tasks
  <2> HAVE j # k
  <2>1. CASE j < k BY <2>1, <1>3, <1>2
  <2>2. CASE j > k
    <3>1. j - 1 \in DOMAIN tasks' /\ tasks'[j - 1] = tasks[j] BY <2>2, <1>3, <1>2
    <3> QED BY <3>1
  <2> QED BY <2>1, <2>2, <1>3
<1>5. \A l \in DOMAIN tasks' :
        \E j \in DOMAIN tasks : j # k /\ tasks'[l] = tasks[j]
  <2> TAKE l \in DOMAIN tasks'
  <2>1. CASE l < k BY <2>1, <1>3, <1>2
  <2>2. CASE ~(l < k)
    <3>1. l + 1 \in DOMAIN tasks /\ l + 1 # k /\ tasks'[l] = tasks[l + 1]
      BY <2>2, <1>3, <1>2
    <3> QED BY <3>1
  <2> QED BY <2>1, <2>2
<1>6. ASSUME NEW q \in Process
      PROVE  Posted(q)' = IF q = tasks[k].pid THEN Posted(q) \ {tasks[k].idx} ELSE Posted(q)
  <2>1. ASSUME NEW x
        PROVE  x \in Posted(q)' <=>
                 x \in IF q = tasks[k].pid THEN Posted(q) \ {tasks[k].idx} ELSE Posted(q)
    <3>1. x \in Posted(q)' <=>
            \E j \in DOMAIN tasks :
              j # k /\ tasks[j] # Barrier /\ tasks[j].pid = q /\ tasks[j].idx = x
      BY <1>4, <1>5, PostedThen
    <3>2. x \in Posted(q) <=>
            \E j \in DOMAIN tasks : tasks[j] # Barrier /\ tasks[j].pid = q /\ tasks[j].idx = x
      BY PostedIs
    <3>3. \A j \in DOMAIN tasks : j # k /\ tasks[j] # Barrier =>
            ~(tasks[j].pid = tasks[k].pid /\ tasks[j].idx = tasks[k].idx)
      BY DEF PostedOnce
    <3> QED BY <3>1, <3>2, <3>3
  <2> QED BY <2>1
<1>7. PostedOnce'
  <2> DEFINE g(l) == IF l < k THEN l ELSE l + 1
  <2>1. \A l \in DOMAIN tasks' : g(l) \in DOMAIN tasks /\ tasks'[l] = tasks[g(l)]
    BY <1>2, <1>3
  <2>2. \A l, m \in DOMAIN tasks' : l # m => g(l) # g(m)
    BY <1>2, <1>3
  <2> HIDE DEF g
  <2> QED BY <2>1, <2>2 DEF PostedOnce
<1> QED BY <1>6, <1>7

\* A barrier removed leaves the parcels posted as they are.
LEMMA RemovedBarrier ==
  ASSUME TypeOK, tasks # <<>>, tasks[1] = Barrier, tasks' = Tail(tasks)
  PROVE  /\ \A q \in Process : Posted(q)' = Posted(q)
         /\ PostedOnce => PostedOnce'
<1>2. tasks \in Seq(Task) BY DEF TypeOK, Task
<1>3. /\ DOMAIN tasks' = 1..(Len(tasks) - 1)
      /\ DOMAIN tasks = 1..Len(tasks)
      /\ \A j \in 1..(Len(tasks) - 1) : tasks'[j] = tasks[j + 1]
  BY <1>2
<1>4. \A j \in DOMAIN tasks :
        j # 1 => \E l \in DOMAIN tasks' : tasks'[l] = tasks[j]
  <2> TAKE j \in DOMAIN tasks
  <2> HAVE j # 1
  <2>1. j - 1 \in DOMAIN tasks' /\ tasks'[j - 1] = tasks[j] BY <1>3, <1>2
  <2> QED BY <2>1
<1>5. \A l \in DOMAIN tasks' :
        \E j \in DOMAIN tasks : j # 1 /\ tasks'[l] = tasks[j]
  <2> TAKE l \in DOMAIN tasks'
  <2>1. l + 1 \in DOMAIN tasks /\ l + 1 # 1 /\ tasks'[l] = tasks[l + 1]
    BY <1>3, <1>2
  <2> QED BY <2>1
<1>6. ASSUME NEW q \in Process PROVE Posted(q)' = Posted(q)
  <2>1. ASSUME NEW x PROVE x \in Posted(q)' <=> x \in Posted(q)
    <3>1. x \in Posted(q)' <=>
            \E k \in DOMAIN tasks : tasks[k] # Barrier /\ tasks[k].pid = q /\ tasks[k].idx = x
      BY <1>4, <1>5, PostedThen
    <3> QED BY <3>1, PostedIs
  <2> QED BY <2>1
<1>7. PostedOnce => PostedOnce'
  BY <1>2, <1>3 DEF PostedOnce
<1> QED BY <1>6, <1>7

-----------------------------------------------------------------------------
(* The walk over the data of a client.  It is defined by recursion on the  *)
(* index; what holds of it is shown by induction on the set of indices for *)
(* which it holds.                                                         *)

\* A set with zero and every successor is all of Nat: else the least number
\* outside of it would have a predecessor inside.
LEMMA InductionOnSet ==
  ASSUME NEW S \in SUBSET Nat, 0 \in S, \A n \in S : n + 1 \in S
  PROVE  S = Nat
<1> DEFINE R == OpToRel(<, Nat)
<1>1. IsWellFoundedOn(R, Nat) BY NatLessThanWellFounded
<1> SUFFICES ASSUME Nat \ S # {} PROVE FALSE
  OBVIOUS
<1>2. PICK m \in Nat \ S : \A y \in Nat \ S : <<y, m>> \notin R
  <2> HIDE DEF R
  <2> QED BY <1>1, WFMin
<1>3. m # 0 /\ m - 1 \in Nat OBVIOUS
<1>4. <<m - 1, m>> \in R BY <1>3 DEF OpToRel
<1>5. m - 1 \in S BY <1>2, <1>3, <1>4
<1>6. (m - 1) + 1 = m OBVIOUS
<1> QED BY <1>5, <1>6

IsWalk(f, p, n) ==
  f = [i \in 0..n |-> IF i = 0 THEN Begin(p) ELSE Advance(f[i - 1], p, i)]

\* The recursion of Walk has a solution, of every length.
LEMMA WalkExists ==
  ASSUME NEW p
  PROVE  \A n \in Nat : \E f : IsWalk(f, p, n)
<1> DEFINE S == {n \in Nat : \E f : IsWalk(f, p, n)}
<1>1. 0 \in S
  <2> DEFINE f == [i \in 0..0 |-> Begin(p)]
  <2>1. IsWalk(f, p, 0) BY DEF IsWalk
  <2> HIDE DEF f
  <2> QED BY <2>1
<1>2. ASSUME NEW n \in S PROVE n + 1 \in S
  <2>1. n \in Nat OBVIOUS
  <2>2. PICK g : IsWalk(g, p, n) OBVIOUS
  <2> DEFINE f == [i \in 0..(n + 1) |-> IF i = n + 1 THEN Advance(g[n], p, n + 1) ELSE g[i]]
  <2>3. IsWalk(f, p, n + 1)
    <3>1. ASSUME NEW i \in 0..(n + 1)
          PROVE  f[i] = IF i = 0 THEN Begin(p) ELSE Advance(f[i - 1], p, i)
      <4>1. CASE i = n + 1 BY <4>1, <2>1
      <4>2. CASE i # n + 1
        <5>1. i \in 0..n /\ f[i] = g[i] BY <4>2, <2>1
        <5>2. i # 0 => f[i - 1] = g[i - 1] BY <5>1, <2>1
        <5>3. g[i] = IF i = 0 THEN Begin(p) ELSE Advance(g[i - 1], p, i)
          BY <2>2, <5>1 DEF IsWalk
        <5> QED BY <5>1, <5>2, <5>3
      <4> QED BY <4>1, <4>2
    <3> QED BY <3>1 DEF IsWalk
  <2> HIDE DEF f
  <2> QED BY <2>1, <2>3
<1>3. S \in SUBSET Nat OBVIOUS
<1> HIDE DEF S
<1>4. S = Nat BY <1>1, <1>2, <1>3, InductionOnSet
<1> QED BY <1>4 DEF S

\* Walk is the last value of one.
LEMMA WalkIs ==
  ASSUME NEW p \in Process
  PROVE  \E f : IsWalk(f, p, MaxIndex[p]) /\ Walk(p) = f[MaxIndex[p]]
<1> DEFINE walk == CHOOSE f : IsWalk(f, p, MaxIndex[p])
<1>1. MaxIndex[p] \in Nat BY BoundAssumption
<1>2. IsWalk(walk, p, MaxIndex[p]) BY <1>1, WalkExists
<1>3. Walk(p) = walk[MaxIndex[p]] BY DEF Walk, IsWalk
<1> HIDE DEF walk
<1> QED BY <1>2, <1>3

WalkType(p) ==
  [last : Nat, wait : {NoWait} \cup 0..MaxWait, stop : 1..(MaxIndex[p] + 1),
   skip : BOOLEAN, late : BOOLEAN]

\* After it has looked at the data up to i: where it may have stopped, and that
\* what it lets through goes on where what was executed ends.
Reached(w, p, i) ==
  /\ w \in WalkType(p)
  /\ effective[p] = {} => w.wait = waited[p]
  /\ w.stop \in 1..i \cup {MaxIndex[p] + 1}
  /\ \/ w.skip
     \/ applied[p] = 1..lastIndex[p] =>
          applied[p] \cup {j \in effective[p] : j < w.stop /\ j <= i} = 1..w.last

\* The walk begins where the last frame ended.
LEMMA BeginReached ==
  ASSUME TypeOK, NEW p \in Process, effective[p] \subseteq 1..MaxIndex[p]
  PROVE  Reached(Begin(p), p, 0)
<1>1. MaxIndex[p] \in Nat BY BoundAssumption
<1>2. Begin(p) \in WalkType(p) BY <1>1 DEF Begin, WalkType, TypeOK
<1>3. {j \in effective[p] : j < Begin(p).stop /\ j <= 0} = {} OBVIOUS
<1> QED BY <1>1, <1>2, <1>3 DEF Reached, Begin

\* Looking at one more index keeps what was reached so far.
LEMMA AdvanceReached ==
  ASSUME TypeOK, NEW p \in Process, effective[p] \subseteq 1..MaxIndex[p],
         NEW i \in 1..MaxIndex[p], NEW w, Reached(w, p, i - 1)
  PROVE  Reached(Advance(w, p, i), p, i)
<1> DEFINE M == MaxIndex[p]
           v == Advance(w, p, i)
           Through(u, n) == {j \in effective[p] : j < u.stop /\ j <= n}
<1>1. M \in Nat /\ SKIP_COMMAND_FREQ_LIMIT \in Nat BY BoundAssumption
<1>2. w \in WalkType(p) BY DEF Reached
<1>5. /\ w.last \in Nat /\ w.wait \in {NoWait} \cup 0..MaxWait /\ w.stop \in 1..(M + 1)
      /\ w.skip \in BOOLEAN /\ w.late \in BOOLEAN
      /\ w = [last |-> w.last, wait |-> w.wait, stop |-> w.stop, skip |-> w.skip, late |-> w.late]
  BY <1>2 DEF WalkType
<1>6. i \in Nat /\ i \in 1..(M + 1) BY <1>1
<1>3. CASE ~(Goes(w, p) /\ i \in effective[p])
  <2>1. v = w BY <1>3 DEF Advance
  <2>2. Through(w, i) = Through(w, i - 1)
    <3>1. i \notin effective[p] \/ w.stop \in 1..(i - 1) BY <1>1, <1>3 DEF Goes, Reached
    <3> QED BY <1>1, <3>1
  <2> QED BY <1>1, <2>1, <2>2 DEF Reached
<1>4. CASE Goes(w, p) /\ i \in effective[p]
  <2>0. effective[p] # {} BY <1>4
  <2>1. v = Visit(w, p, i) BY <1>4 DEF Advance
  <2>2. w.stop = M + 1 BY <1>1, <1>2, <1>4 DEF Goes, WalkType
  <2>3. Through(w, i) = Through(w, i - 1) \cup {i} BY <1>1, <1>4, <2>2
  <2>4. CASE v = [w EXCEPT !.stop = i, !.late = TRUE]
    <3>4. v = [last |-> w.last, wait |-> w.wait, stop |-> i, skip |-> w.skip, late |-> TRUE]
      BY <1>5, <2>4
    <3>1. v \in WalkType(p) BY <1>5, <1>6, <3>4 DEF WalkType
    <3>2. v.stop = i /\ v.skip = w.skip /\ v.last = w.last BY <1>2, <2>4 DEF WalkType
    <3>3. Through(v, i) = Through(w, i - 1) BY <1>1, <2>2, <3>2
    <3> QED BY <1>1, <2>0, <3>1, <3>2, <3>3 DEF Reached
  <2>5. CASE i = w.last + 1 /\ v = [w EXCEPT !.last = i]
    <3>1. v \in WalkType(p) BY <1>1, <1>2, <2>5 DEF WalkType
    <3>2. v.stop = w.stop /\ v.skip = w.skip /\ v.last = i BY <1>2, <2>5 DEF WalkType
    <3>3. Through(v, i) = Through(w, i - 1) \cup {i} BY <2>3, <3>2
    <3>4. 1..i = 1..w.last \cup {i} BY <1>2, <2>5 DEF WalkType
    <3> QED BY <1>1, <2>0, <2>2, <3>1, <3>2, <3>3, <3>4 DEF Reached
  <2>6. CASE v = [w EXCEPT !.last = i, !.wait = NoWait, !.skip = TRUE]
    <3>4. v = [last |-> i, wait |-> NoWait, stop |-> w.stop, skip |-> TRUE, late |-> w.late]
      BY <1>5, <2>6
    <3>1. v \in WalkType(p) BY <1>5, <1>6, <3>4 DEF WalkType
    <3>2. v.stop = w.stop /\ v.skip BY <1>2, <2>6 DEF WalkType
    <3> QED BY <1>1, <2>0, <2>2, <3>1, <3>2 DEF Reached
  <2>7. CASE v = [w EXCEPT !.stop = i, !.wait = IF w.wait = NoWait THEN 0 ELSE w.wait]
    <3> DEFINE t == IF w.wait = NoWait THEN 0 ELSE w.wait
    <3>4. v = [last |-> w.last, wait |-> t, stop |-> i, skip |-> w.skip, late |-> w.late]
      BY <1>5, <2>7
    <3>5. t \in {NoWait} \cup 0..MaxWait BY <1>1, <1>5 DEF MaxWait
    <3> HIDE DEF t
    <3>1. v \in WalkType(p) BY <1>5, <1>6, <3>4, <3>5 DEF WalkType
    <3>2. v.stop = i /\ v.skip = w.skip /\ v.last = w.last BY <1>2, <2>7 DEF WalkType
    <3>3. Through(v, i) = Through(w, i - 1) BY <1>1, <2>2, <3>2
    <3> QED BY <1>1, <2>0, <3>1, <3>2, <3>3 DEF Reached
  <2> QED BY <2>1, <2>4, <2>5, <2>6, <2>7 DEF Visit, TakeNext, TakeAfterGap
<1> QED BY <1>3, <1>4

\* So the whole walk has it.
LEMMA WalkReached ==
  ASSUME TypeOK, NEW p \in Process, effective[p] \subseteq 1..MaxIndex[p]
  PROVE  Reached(Walk(p), p, MaxIndex[p])
<1>1. MaxIndex[p] \in Nat BY BoundAssumption
<1>2. PICK f : IsWalk(f, p, MaxIndex[p]) /\ Walk(p) = f[MaxIndex[p]] BY WalkIs
<1> DEFINE S == {n \in Nat : n <= MaxIndex[p] => Reached(f[n], p, n)}
<1>3. 0 \in S
  <2>1. f[0] = Begin(p) BY <1>1, <1>2 DEF IsWalk
  <2> QED BY <2>1, BeginReached
<1>4. ASSUME NEW n \in S PROVE n + 1 \in S
  <2> SUFFICES ASSUME n + 1 <= MaxIndex[p] PROVE Reached(f[n + 1], p, n + 1)
    OBVIOUS
  <2>1. n \in Nat /\ n + 1 \in 1..MaxIndex[p] /\ (n + 1) - 1 = n BY <1>1
  <2>2. Reached(f[n], p, n) BY <1>1, <2>1
  <2>3. f[n + 1] = Advance(f[n], p, n + 1) BY <1>1, <1>2, <2>1 DEF IsWalk
  <2> QED BY <2>1, <2>2, <2>3, AdvanceReached
<1>5. S \in SUBSET Nat OBVIOUS
<1> HIDE DEF S
<1>6. S = Nat BY <1>3, <1>4, <1>5, InductionOnSet
<1> QED BY <1>1, <1>2, <1>6 DEF S

LEMMA MinOfTwo ==
  ASSUME NEW a \in Nat, NEW b \in Nat
  PROVE  Min({a, b}) \in {a, b} /\ Min({a, b}) <= a
<1>1. \E x \in {a, b} : \A y \in {a, b} : x <= y
  <2>1. CASE a <= b BY <2>1
  <2>2. CASE b <= a BY <2>2
  <2> QED BY <2>1, <2>2
<1> QED BY <1>1 DEF Min

-----------------------------------------------------------------------------
(* The places of a client's transactions.                                  *)

\* No client sends more than it may, and what is anywhere was sent.
Sent ==
  \A p \in Process :
    /\ index[p] <= MaxIndex[p]
    /\ \A k \in 1..6 : Places(p)[k] \subseteq 1..index[p]

PlacesInv == TypeOK /\ PostedOnce /\ Sent

\* The main thread's data has indices the client may send.
LEMMA EffectiveSent ==
  ASSUME PlacesInv, NEW p \in Process
  PROVE  effective[p] \subseteq 1..MaxIndex[p]
<1>1. index[p] \in Nat /\ index[p] <= MaxIndex[p] /\ MaxIndex[p] \in Nat
  BY BoundAssumption DEF PlacesInv, TypeOK, Sent
<1>2. Places(p)[5] = effective[p] BY DEF Places
<1>3. Places(p)[5] \subseteq 1..index[p] BY DEF PlacesInv, Sent
<1> QED BY <1>1, <1>2, <1>3

\* Each step keeps the types.
LEMMA TypeStep ==
  ASSUME PlacesInv, [Next]_vars
  PROVE  TypeOK'
<1> USE DEF PlacesInv
<1>n. NoWait \in Int /\ MaxWait \in Nat /\ (\A p \in Process : MaxIndex[p] \in Nat)
  BY BoundAssumption DEF NoWait, MaxWait
<1>t. tasks \in Seq(Task) BY DEF TypeOK, Task
<1>0. CASE UNCHANGED vars
  BY <1>0 DEF TypeOK, vars, clientVars, vsyncVars, unmarshalVars, switches, frameVars, dataVars, historyVars
<1> USE DEF clientVars, vsyncVars, unmarshalVars, switches, frameVars, dataVars, historyVars
<1>i. Idle \in [at : {"idle", "mark", "ask"}, idx : Nat, pending : BOOLEAN]
      /\ [Idle EXCEPT !.at = "ask"] \in [at : {"idle", "mark", "ask"}, idx : Nat, pending : BOOLEAN]
  BY DEF Idle
<1>1. ASSUME NEW p \in Process, LoseParcel(p) PROVE TypeOK'
  <2>1. index[p] + 1 \in Nat BY DEF TypeOK
  <2> QED BY <1>1, <2>1 DEF LoseParcel, TypeOK
<1>2. ASSUME NEW p \in Process, RecvRSTransactionData(p) PROVE TypeOK'
  <2>1. index[p] + 1 \in Nat BY DEF TypeOK
  <2>2. tooNew' \subseteq Process \X Nat
    BY <1>2, <2>1 DEF RecvRSTransactionData, NextParcel, Stamp, TypeOK
  <2> QED BY <1>2, <2>1, <2>2 DEF RecvRSTransactionData, NextParcel, TypeOK
<1>3. ASSUME NEW p \in Process, NEW size \in Size, RecvParcel(p, size) PROVE TypeOK'
  <2>1. index[p] + 1 \in Nat BY DEF TypeOK
  <2>2. tooNew' \subseteq Process \X Nat
    BY <1>3, <2>1 DEF RecvParcel, NextParcel, Stamp, TypeOK
  <2> DEFINE b == size = "pending"
             t == [pid |-> p, idx |-> index[p] + 1, pending |-> b]
             c == [at |-> "mark", idx |-> index[p] + 1, pending |-> b]
  <2>3. b \in BOOLEAN OBVIOUS
  <2>4. tasks' = Append(tasks, t) /\ ipc' = [ipc EXCEPT ![p] = c]
    BY <1>3 DEF RecvParcel
  <2> HIDE DEF b
  <2>5. t \in Parcel /\ c \in [at : {"idle", "mark", "ask"}, idx : Nat, pending : BOOLEAN]
    BY <2>1, <2>3 DEF Parcel
  <2> HIDE DEF t, c
  <2>6. tasks' \in Seq(Parcel \cup {Barrier}) BY <2>4, <2>5, <1>t DEF Task
  <2>7. ipc' \in [Process -> [at : {"idle", "mark", "ask"}, idx : Nat, pending : BOOLEAN]]
    BY <2>4, <2>5 DEF TypeOK
  <2> QED BY <1>3, <2>1, <2>2, <2>6, <2>7 DEF RecvParcel, NextParcel, TypeOK
<1>4. ASSUME NEW p \in Process, MarkCachedData(p) PROVE TypeOK'
  <2>1. ipc[p].idx \in Nat BY DEF TypeOK
  <2>2. cachedDeps' \subseteq Process \X Nat BY <1>4, <2>1 DEF MarkCachedData, TypeOK
  <2>3. ipc' \in [Process -> [at : {"idle", "mark", "ask"}, idx : Nat, pending : BOOLEAN]]
    BY <1>4, <1>i DEF MarkCachedData, TypeOK
  <2> QED BY <1>4, <2>2, <2>3 DEF MarkCachedData, TypeOK
<1>5. ASSUME NEW p \in Process, RequestNextVSync(p) PROVE TypeOK'
  BY <1>5, <1>i DEF RequestNextVSync, TypeOK
<1>6. ASSUME NEW k \in DOMAIN tasks, Unmarshal(k) PROVE TypeOK'
  <2>1. k \in 1..Len(tasks) /\ tasks[k] \in Parcel BY <1>6, <1>t DEF Unmarshal, Task
  <2>2. tasks' \in Seq(Parcel \cup {Barrier})
    BY <1>6, <1>t, <2>1, RemovedTask DEF Unmarshal, Task
  <2>3. tasks[k].pid \in Process /\ tasks[k].idx \in Nat /\ tasks[k].pending \in BOOLEAN
    BY <2>1 DEF Parcel
  <2> QED BY <1>6, <2>2, <2>3 DEF Unmarshal, TypeOK
<1>7. CASE UnmarshalAsks BY <1>7 DEF UnmarshalAsks, TypeOK
<1>m. ASSUME NEW from \in [Process -> SUBSET Nat]
      PROVE  Merged(from) \in [Process -> SUBSET Nat]
  BY DEF Merged, TypeOK
<1>8. CASE RunBarrier
  <2>1. tasks # <<>> BY <1>8, <1>t DEF RunBarrier, Runnable
  <2>2. tasks' \in Seq(Parcel \cup {Barrier}) BY <1>8, <1>t, <2>1 DEF RunBarrier, Task
  <2>3. effective' \in [Process -> SUBSET Nat]
    BY <1>8, <1>m DEF RunBarrier, TakeUnmarshalled, TypeOK
  <2>4. finished' \in Nat BY <1>8 DEF RunBarrier, TypeOK
  <2>5. unmarshalled' \in [Process -> SUBSET Nat] /\ willHaveCachedData' \in BOOLEAN
    BY <1>8 DEF RunBarrier, TakeUnmarshalled, Nothing
  <2>6. UNCHANGED <<clientVars, vsyncVars, switches, cachedDeps, umAsks, pc, needWait,
                    deps, cached, known, lastIndex, waited, historyVars>>
    BY <1>8 DEF RunBarrier
  <2> QED BY <2>2, <2>3, <2>4, <2>5, <2>6 DEF TypeOK
<1>9. ASSUME NEW n \in 1..MaxWait, Pulse(n) PROVE TypeOK'
  <2>1. ASSUME NEW p \in Process, waited[p] # NoWait
        PROVE  Min({MaxWait, waited[p] + n}) \in 0..MaxWait
    <3>1. waited[p] + n \in Nat BY <1>n, <2>1 DEF TypeOK
    <3> QED BY <1>n, <3>1, MinOfTwo
  <2>2. waited' \in [Process -> {NoWait} \cup 0..MaxWait] BY <1>9, <2>1 DEF Pulse
  <2> QED BY <1>9, <2>2 DEF Pulse, TypeOK
<1>10. CASE OtherRequest BY <1>10 DEF OtherRequest, TypeOK
<1>11. CASE OnVsync
  <2>1. effective' \in [Process -> SUBSET Nat] BY <1>11, <1>m DEF OnVsync, TypeOK
  <2> QED BY <1>11, <2>1 DEF OnVsync, Nothing, TypeOK
<1>b. PostBarrier => tasks' \in Seq(Parcel \cup {Barrier})
  BY <1>t DEF PostBarrier, Task
<1>12. CASE CheckUnmarshalled
  <2>1. tasks' \in Seq(Parcel \cup {Barrier}) BY <1>12, <1>b, <1>t DEF CheckUnmarshalled, Task
  <2> QED BY <1>12, <2>1 DEF CheckUnmarshalled, TypeOK
<1>13. CASE ForceRefreshForUni
  <2>1. effective' \in [Process -> SUBSET Nat] BY <1>13, <1>m DEF ForceRefreshForUni, TypeOK
  <2>2. tasks' \in Seq(Parcel \cup {Barrier}) BY <1>13, <1>b DEF ForceRefreshForUni
  <2> QED BY <1>13, <2>1, <2>2 DEF ForceRefreshForUni, Nothing, TypeOK
<1>14. CASE NoNeedToWait BY <1>14 DEF NoNeedToWait, TypeOK
<1>15. CASE BarrierPassed BY <1>15 DEF BarrierPassed, TypeOK
<1>16. CASE TakeDeps BY <1>16 DEF TakeDeps, TypeOK
<1>17. CASE DepsDone
  <2>1. effective' \in [Process -> SUBSET Nat]
    BY <1>17, <1>m DEF DepsDone, TakeUnmarshalled, TypeOK
  <2> QED BY <1>17, <2>1 DEF DepsDone, TakeUnmarshalled, Nothing, TypeOK
<1>18. CASE ProcessCommand
  <2>1. ASSUME NEW p \in Process
        PROVE Walk(p).last \in Nat /\ Walk(p).wait \in {NoWait} \cup 0..MaxWait
    BY WalkReached, EffectiveSent DEF Reached, WalkType
  <2>2. lastIndex' \in [Process -> Nat] /\ waited' \in [Process -> {NoWait} \cup 0..MaxWait]
    BY <1>18, <2>1 DEF ProcessCommand
  <2>3. effective' \in [Process -> SUBSET Nat] /\ applied' \in [Process -> SUBSET Nat]
        /\ skipped' \subseteq Process /\ putOff' \subseteq Process
    BY <1>18 DEF ProcessCommand, TypeOK
  <2>4. asked' \in BOOLEAN
    BY <1>18, BoundAssumption DEF ProcessCommand, RequestNextVsyncForCachedCommand, TypeOK
  <2>5. pc' = "render" /\ UNCHANGED <<clientVars, pulse, tooNew, unmarshalVars, needWait,
                                     finished, deps, cached, known>>
    BY <1>18 DEF ProcessCommand
  <2> QED BY <2>2, <2>3, <2>4, <2>5 DEF TypeOK
<1>19. CASE Render BY <1>19 DEF Render, TypeOK
<1>20. ASSUME NEW p \in Process, ClearTransactionDataPidInfo(p) PROVE TypeOK'
  BY <1>20 DEF ClearTransactionDataPidInfo, TypeOK
<1>21. {"posted", "pending"} \subseteq Size BY DEF Size
<1> QED
  BY <1>0, <1>1, <1>2, <1>3, <1>4, <1>5, <1>6, <1>7, <1>8, <1>9, <1>10, <1>11, <1>12, <1>13,
     <1>14, <1>15, <1>16, <1>17, <1>18, <1>19, <1>20, <1>21
  DEF Next, BinderStep, UnmarshalStep, FrameStep

LEMMA PlacesAre ==
  ASSUME NEW p
  PROVE  /\ Places(p)[1] = lost[p] /\ Places(p)[2] = Posted(p)
         /\ Places(p)[3] = unmarshalled[p] /\ Places(p)[4] = cached[p]
         /\ Places(p)[5] = effective[p] /\ Places(p)[6] = applied[p]
  BY DEF Places

LEMMA PlacesThen ==
  ASSUME NEW p
  PROVE  /\ Places(p)'[1] = lost'[p] /\ Places(p)'[2] = Posted(p)'
         /\ Places(p)'[3] = unmarshalled'[p] /\ Places(p)'[4] = cached'[p]
         /\ Places(p)'[5] = effective'[p] /\ Places(p)'[6] = applied'[p]
  BY DEF Places

\* What a step may do with the transactions of a client: nothing; take a new
\* one; hand some on; forget some, if the client is gone.
Stays(p) == index'[p] = index[p] /\ \A k \in 1..6 : Places(p)'[k] = Places(p)[k]
Gets(p, a) ==
  /\ index'[p] = index[p] + 1
  /\ index[p] < MaxIndex[p]
  /\ \A k \in 1..6 : Places(p)'[k] = IF k = a THEN Places(p)[k] \cup {index[p] + 1}
                                     ELSE Places(p)[k]
Hands(p, a, b, D) ==
  /\ index'[p] = index[p]
  /\ D \subseteq Places(p)[a]
  /\ \A k \in 1..6 : Places(p)'[k] = IF k = a THEN Places(p)[k] \ D
                                     ELSE IF k = b THEN Places(p)[k] \cup D ELSE Places(p)[k]
Forgets(p) ==
  /\ index'[p] = index[p]
  /\ p \notin known'
  /\ \A k \in 1..6 : Places(p)'[k] \subseteq Places(p)[k]

HandedOn(p) ==
  \/ Stays(p)
  \/ \E a \in 1..6 : Gets(p, a)
  \/ \E a, b \in 1..6, D \in SUBSET Nat : a # b /\ Hands(p, a, b, D)
  \/ Forgets(p)

\* The data merged goes to the main thread's map, or is dropped.
LEMMA MergedHandedOn ==
  ASSUME TypeOK, NEW p \in Process, NEW a \in {3, 4},
         effective' = Merged(IF a = 3 THEN unmarshalled ELSE cached),
         unmarshalled' = IF a = 3 THEN Nothing ELSE unmarshalled,
         cached' = IF a = 4 THEN Nothing ELSE cached,
         Posted(p)' = Posted(p), UNCHANGED <<index, lost, applied, known>>
  PROVE  HandedOn(p)
<1> DEFINE D == IF a = 3 THEN unmarshalled[p] ELSE cached[p]
<1>1. D \in SUBSET Nat BY DEF TypeOK
<1>2. CASE p \in known
  <2>1. effective'[p] = effective[p] \cup D BY <1>2 DEF Merged
  <2>2. Places(p)[a] = D /\ Places(p)'[a] = {} BY PlacesAre, PlacesThen DEF Nothing
  <2>3. \A k \in 1..6 : k # a /\ k # 5 => Places(p)'[k] = Places(p)[k]
    BY PlacesAre, PlacesThen
  <2>4. Places(p)'[5] = Places(p)[5] \cup D BY <2>1, PlacesAre, PlacesThen
  <2> HIDE DEF D
  <2>5. Hands(p, a, 5, D) BY <2>2, <2>3, <2>4 DEF Hands
  <2> QED BY <1>1, <2>5 DEF HandedOn
<1>3. CASE p \notin known
  <2>1. effective'[p] = effective[p] BY <1>3 DEF Merged
  <2>2. Forgets(p)
    BY <1>3, <2>1, PlacesAre, PlacesThen DEF Forgets, Nothing
  <2> QED BY <2>2 DEF HandedOn
<1> QED BY <1>2, <1>3

\* Every step is of that form for every client.
LEMMA StepHandsOn ==
  ASSUME PlacesInv, [Next]_vars
  PROVE  /\ \A p \in Process : HandedOn(p)
         /\ PostedOnce'
         /\ known' \subseteq known
<1> USE DEF PlacesInv
<1> DEFINE Goal == /\ \A p \in Process : HandedOn(p)
                   /\ PostedOnce'
                   /\ known' \subseteq known
<1>s. ASSUME PostedOnce', known' = known, UNCHANGED <<index, lost, unmarshalled, cached, effective, applied>>,
             \A q \in Process : Posted(q)' = Posted(q)
      PROVE  Goal
  BY <1>s, PlacesAre, PlacesThen DEF HandedOn, Stays
<1>u. ASSUME UNCHANGED tasks PROVE PostedOnce' /\ \A q : Posted(q)' = Posted(q)
  BY <1>u DEF PostedOnce, Posted
<1>0. CASE UNCHANGED vars
  BY <1>0, <1>s, <1>u DEF vars, clientVars, vsyncVars, unmarshalVars, switches, frameVars, dataVars, historyVars
<1> USE DEF clientVars, vsyncVars, unmarshalVars, switches, frameVars, dataVars, historyVars
<1>1. ASSUME NEW p \in Process, LoseParcel(p) PROVE Goal
  <2>1. Gets(p, 1)
    BY <1>1, <1>u, PlacesAre, PlacesThen DEF LoseParcel, Gets, TypeOK
  <2>2. ASSUME NEW q \in Process, q # p PROVE Stays(q)
    BY <1>1, <1>u, <2>2, PlacesAre, PlacesThen DEF LoseParcel, Stays, TypeOK
  <2> QED BY <1>1, <1>u, <2>1, <2>2 DEF LoseParcel, HandedOn
<1>2. ASSUME NEW p \in Process, RecvRSTransactionData(p) PROVE Goal
  <2>1. Gets(p, 4)
    BY <1>2, <1>u, PlacesAre, PlacesThen DEF RecvRSTransactionData, NextParcel, Gets, TypeOK
  <2>2. ASSUME NEW q \in Process, q # p PROVE Stays(q)
    BY <1>2, <1>u, <2>2, PlacesAre, PlacesThen DEF RecvRSTransactionData, NextParcel, Stays, TypeOK
  <2> QED BY <1>2, <1>u, <2>1, <2>2 DEF RecvRSTransactionData, HandedOn
<1>3. ASSUME NEW p \in Process, NEW size \in Size, RecvParcel(p, size) PROVE Goal
  <2>1. /\ index[p] \in Nat /\ index[p] < MaxIndex[p]
        /\ index' = [index EXCEPT ![p] = index[p] + 1]
        /\ UNCHANGED <<lost, unmarshalled, cached, effective, applied, known>>
    BY <1>3 DEF RecvParcel, NextParcel, TypeOK
  <2> DEFINE b == size = "pending"
  <2>2. tasks' = Append(tasks, [pid |-> p, idx |-> index[p] + 1, pending |-> b])
    BY <1>3 DEF RecvParcel
  <2>3. b \in BOOLEAN OBVIOUS
  <2> HIDE DEF b
  <2>4. index[p] + 1 \notin Posted(p)
    <3>1. Posted(p) \subseteq 1..index[p] BY PlacesAre DEF Sent
    <3> QED BY <2>1, <3>1
  <2>5. /\ \A q \in Process : Posted(q)' = IF q = p THEN Posted(q) \cup {index[p] + 1} ELSE Posted(q)
        /\ PostedOnce'
    BY <2>1, <2>2, <2>3, <2>4, PostedParcel
  <2>6. Gets(p, 2) BY <2>1, <2>5, PlacesAre, PlacesThen DEF Gets, TypeOK
  <2>7. ASSUME NEW q \in Process, q # p PROVE Stays(q)
    BY <2>1, <2>5, <2>7, PlacesAre, PlacesThen DEF Stays, TypeOK
  <2> QED BY <2>1, <2>5, <2>6, <2>7 DEF HandedOn
<1>4. ASSUME NEW p \in Process, MarkCachedData(p) PROVE Goal
  BY <1>4, <1>s, <1>u DEF MarkCachedData
<1>5. ASSUME NEW p \in Process, RequestNextVSync(p) PROVE Goal
  BY <1>5, <1>s, <1>u DEF RequestNextVSync
<1>6. ASSUME NEW k \in DOMAIN tasks, Unmarshal(k) PROVE Goal
  <2>1. tasks[k] # Barrier /\ tasks' = RemoveAt(tasks, k)
        /\ UNCHANGED <<index, lost, cached, effective, applied, known>>
    BY <1>6 DEF Unmarshal
  <2>2. PICK p \in Process, i \in Nat : tasks[k].pid = p /\ tasks[k].idx = i
    <3>1. tasks[k] \in Parcel BY <2>1 DEF TypeOK
    <3> QED BY <3>1 DEF Parcel
  <2>3. unmarshalled' = [unmarshalled EXCEPT ![p] = @ \cup {i}]
    BY <1>6, <2>2 DEF Unmarshal
  <2>4. /\ \A q \in Process : Posted(q)' = IF q = p THEN Posted(q) \ {i} ELSE Posted(q)
        /\ PostedOnce'
    BY <2>1, <2>2, RemovedParcel
  <2>5. /\ Posted(p)' = Posted(p) \ {i}
        /\ unmarshalled'[p] = unmarshalled[p] \cup {i}
        /\ {i} \subseteq Posted(p)
    BY <2>1, <2>2, <2>3, <2>4, PostedIs DEF TypeOK
  <2>6. Hands(p, 2, 3, {i})
    BY <2>1, <2>5, PlacesAre, PlacesThen DEF Hands
  <2>7. ASSUME NEW q \in Process, q # p PROVE Stays(q)
    BY <2>1, <2>3, <2>4, <2>7, PlacesAre, PlacesThen DEF Stays, TypeOK
  <2>8. HandedOn(p) BY <2>2, <2>6 DEF HandedOn
  <2> QED BY <2>1, <2>4, <2>7, <2>8 DEF HandedOn
<1>7. CASE UnmarshalAsks BY <1>7, <1>s, <1>u DEF UnmarshalAsks
<1>8. CASE RunBarrier
  <2>1. tasks # <<>> /\ tasks[1] = Barrier /\ tasks' = Tail(tasks)
    <3>1. tasks \in Seq(Task) BY DEF TypeOK, Task
    <3> QED BY <1>8, <3>1 DEF RunBarrier, Runnable
  <2>2. PostedOnce' /\ \A q \in Process : Posted(q)' = Posted(q) BY <2>1, RemovedBarrier
  <2>3. \A q \in Process : HandedOn(q)
    BY <1>8, <2>2, MergedHandedOn DEF RunBarrier, TakeUnmarshalled
  <2> QED BY <1>8, <2>2, <2>3 DEF RunBarrier
<1>9. ASSUME NEW n \in 1..MaxWait, Pulse(n) PROVE Goal
  BY <1>9, <1>s, <1>u DEF Pulse
<1>10. CASE OtherRequest BY <1>10, <1>s, <1>u DEF OtherRequest
<1>11. CASE OnVsync
  <2>1. \A q \in Process : HandedOn(q)
    BY <1>11, <1>u, MergedHandedOn DEF OnVsync
  <2> QED BY <1>11, <1>u, <2>1 DEF OnVsync
<1>b. ASSUME PostBarrier \/ UNCHANGED tasks
      PROVE  PostedOnce' /\ \A q \in Process : Posted(q)' = Posted(q)
  BY <1>b, <1>u, PostedBarrier DEF PostBarrier
<1>12. CASE CheckUnmarshalled
  BY <1>12, <1>b, <1>s DEF CheckUnmarshalled
<1>13. CASE ForceRefreshForUni
  <2>1. PostedOnce' /\ \A q \in Process : Posted(q)' = Posted(q)
    BY <1>13, <1>b DEF ForceRefreshForUni
  <2>2. \A q \in Process : HandedOn(q)
    BY <1>13, <2>1, MergedHandedOn DEF ForceRefreshForUni
  <2> QED BY <1>13, <2>1, <2>2 DEF ForceRefreshForUni
<1>14. CASE NoNeedToWait BY <1>14, <1>s, <1>u DEF NoNeedToWait
<1>15. CASE BarrierPassed BY <1>15, <1>s, <1>u DEF BarrierPassed
<1>16. CASE TakeDeps BY <1>16, <1>s, <1>u DEF TakeDeps
<1>17. CASE DepsDone
  <2>1. \A q \in Process : HandedOn(q)
    BY <1>17, <1>u, MergedHandedOn DEF DepsDone, TakeUnmarshalled
  <2> QED BY <1>17, <1>u, <2>1 DEF DepsDone
<1>18. CASE ProcessCommand
  <2>1. ASSUME NEW p \in Process PROVE HandedOn(p)
    <3> DEFINE D == {i \in effective[p] : i < Walk(p).stop}
    <3>1. D \in SUBSET Nat BY DEF TypeOK
    <3>2. effective'[p] = effective[p] \ D /\ applied'[p] = applied[p] \cup D
      BY <1>18 DEF ProcessCommand
    <3>3. UNCHANGED <<index, lost, unmarshalled, cached, tasks>> BY <1>18 DEF ProcessCommand
    <3>4. D \subseteq effective[p] OBVIOUS
    <3> HIDE DEF D
    <3>5. Hands(p, 5, 6, D)
      BY <1>u, <3>2, <3>3, <3>4, PlacesAre, PlacesThen DEF Hands
    <3> QED BY <3>1, <3>5 DEF HandedOn
  <2> QED BY <1>18, <1>u, <2>1 DEF ProcessCommand
<1>19. CASE Render BY <1>19, <1>s, <1>u DEF Render
<1>20. ASSUME NEW p \in Process, ClearTransactionDataPidInfo(p) PROVE Goal
  <2>1. Forgets(p)
    BY <1>20, <1>u, PlacesAre, PlacesThen DEF ClearTransactionDataPidInfo, Forgets, TypeOK
  <2>2. ASSUME NEW q \in Process, q # p PROVE Stays(q)
    BY <1>20, <1>u, <2>2, PlacesAre, PlacesThen DEF ClearTransactionDataPidInfo, Stays, TypeOK
  <2> QED BY <1>20, <1>u, <2>1, <2>2 DEF ClearTransactionDataPidInfo, HandedOn
<1>21. {"posted", "pending"} \subseteq Size BY DEF Size
<1> QED
  BY <1>0, <1>1, <1>2, <1>3, <1>4, <1>5, <1>6, <1>7, <1>8, <1>9, <1>10, <1>11, <1>12, <1>13,
     <1>14, <1>15, <1>16, <1>17, <1>18, <1>19, <1>20, <1>21
  DEF Next, BinderStep, UnmarshalStep, FrameStep

\* And what is of that form keeps the places apart and complete.
LEMMA PlacesStep ==
  ASSUME PlacesInv, [Next]_vars
  PROVE  PlacesInv' /\ (EachInOnePlace => EachInOnePlace')
<1>1. TypeOK' /\ PostedOnce' BY TypeStep, StepHandsOn
<1>2. ASSUME NEW p \in Process PROVE index[p] \in Nat /\ MaxIndex[p] \in Nat
  BY BoundAssumption DEF PlacesInv, TypeOK
<1>3. Sent'
  <2> SUFFICES ASSUME NEW p \in Process
               PROVE  /\ index'[p] <= MaxIndex[p]
                      /\ \A k \in 1..6 : Places(p)'[k] \subseteq 1..index'[p]
    BY DEF Sent
  <2>1. index[p] <= MaxIndex[p] /\ \A k \in 1..6 : Places(p)[k] \subseteq 1..index[p]
    BY DEF PlacesInv, Sent
  <2>2. HandedOn(p) BY StepHandsOn
  <2>3. CASE Stays(p) BY <2>1, <2>3 DEF Stays
  <2>4. ASSUME NEW a \in 1..6, Gets(p, a)
        PROVE  index'[p] <= MaxIndex[p] /\ \A k \in 1..6 : Places(p)'[k] \subseteq 1..index'[p]
    BY <1>2, <2>1, <2>4 DEF Gets
  <2>5. ASSUME NEW a \in 1..6, NEW b \in 1..6, NEW D, Hands(p, a, b, D)
        PROVE  index'[p] <= MaxIndex[p] /\ \A k \in 1..6 : Places(p)'[k] \subseteq 1..index'[p]
    BY <2>1, <2>5 DEF Hands
  <2>6. CASE Forgets(p) BY <2>1, <2>6 DEF Forgets
  <2> QED BY <2>2, <2>3, <2>4, <2>5, <2>6 DEF HandedOn
<1>4. ASSUME EachInOnePlace PROVE EachInOnePlace'
  <2> DEFINE Once(P, n) == /\ UNION {P[k] : k \in 1..6} = 1..n
                           /\ \A j, k \in 1..6 : j # k => P[j] \cap P[k] = {}
  <2> SUFFICES ASSUME NEW p \in known' PROVE Once(Places(p)', index'[p])
    BY DEF EachInOnePlace
  <2> DEFINE P == Places(p)
             Q == Places(p)'
  <2>0. p \in known /\ p \in Process BY StepHandsOn DEF PlacesInv, TypeOK
  <2>1. Once(P, index[p]) BY <1>4, <2>0 DEF EachInOnePlace
  <2>2. HandedOn(p) BY <2>0, StepHandsOn
  <2>3. CASE Stays(p) BY <2>1, <2>3 DEF Stays
  <2>4. ASSUME NEW a \in 1..6, Gets(p, a) PROVE Once(Q, index'[p])
    <3>1. \A k \in 1..6 : P[k] \subseteq 1..index[p] BY <2>0 DEF PlacesInv, Sent
    <3>2. 1..index'[p] = 1..index[p] \cup {index[p] + 1} /\ index[p] + 1 \notin 1..index[p]
      BY <1>2, <2>0, <2>4 DEF Gets
    <3>3. \A k \in 1..6 : Q[k] = IF k = a THEN P[k] \cup {index[p] + 1} ELSE P[k]
      BY <2>4 DEF Gets
    <3> HIDE DEF P, Q
    <3>4. \A x : (\E k \in 1..6 : x \in Q[k]) <=> (\E k \in 1..6 : x \in P[k]) \/ x = index[p] + 1
      BY <3>3
    <3> DEFINE allP == UNION {P[k] : k \in 1..6}
               allQ == UNION {Q[k] : k \in 1..6}
    <3>7. allQ = 1..index'[p]
      <4>1. \A x : x \in allQ <=> \E k \in 1..6 : x \in Q[k] OBVIOUS
      <4>2. \A x : x \in allP <=> \E k \in 1..6 : x \in P[k] OBVIOUS
      <4>3. allP = 1..index[p] BY <2>1
      <4> HIDE DEF allP, allQ
      <4>4. \A x : x \in allQ <=> x \in 1..index'[p] BY <3>2, <3>4, <4>1, <4>2, <4>3
      <4> QED BY <4>4
    <3>5. \A j, k \in 1..6 : j # k => Q[j] \cap Q[k] = {}
      BY <2>1, <3>1, <3>2, <3>3
    <3> QED BY <3>5, <3>7
  <2>5. ASSUME NEW a \in 1..6, NEW b \in 1..6, NEW D, a # b, Hands(p, a, b, D)
        PROVE  Once(Q, index'[p])
    <3>1. D \subseteq P[a] /\ index'[p] = index[p] BY <2>5 DEF Hands
    <3>2. \A k \in 1..6 : Q[k] = IF k = a THEN P[k] \ D ELSE IF k = b THEN P[k] \cup D ELSE P[k]
      BY <2>5 DEF Hands
    <3> HIDE DEF P, Q
    <3>3. UNION {Q[k] : k \in 1..6} = UNION {P[k] : k \in 1..6}
      BY <2>5, <3>1, <3>2
    <3>4. \A j, k \in 1..6 : j # k => Q[j] \cap Q[k] = {}
      BY <2>1, <2>5, <3>1, <3>2
    <3> QED BY <2>1, <3>1, <3>3, <3>4
  <2>6. ~Forgets(p) BY DEF Forgets
  <2> QED BY <2>2, <2>3, <2>4, <2>5, <2>6 DEF HandedOn
<1> QED BY <1>1, <1>3, <1>4 DEF PlacesInv

LEMMA PlacesInit ==
  ASSUME Init
  PROVE  PlacesInv /\ EachInOnePlace
<1> USE DEF Init, Nothing
<1>1. \A p \in Process : MaxIndex[p] \in Nat BY BoundAssumption
<1>2. TypeOK
  <2>1. parallel \in BOOLEAN /\ uiDvsyncOn \in BOOLEAN BY BoundAssumption
  <2>2. ipc \in [Process -> [at : {"idle", "mark", "ask"}, idx : Nat, pending : BOOLEAN]]
    BY DEF Idle
  <2>3. tasks \in Seq(Parcel \cup {Barrier}) OBVIOUS
  <2>4. waited \in [Process -> {NoWait} \cup 0..MaxWait] OBVIOUS
  <2> QED BY <2>1, <2>2, <2>3, <2>4 DEF TypeOK
<1>3. DOMAIN tasks = {} OBVIOUS
<1>4. PostedOnce BY <1>3 DEF PostedOnce
<1>5. \A p \in Process : index[p] = 0 /\ \A k \in 1..6 : Places(p)[k] = {}
  BY <1>3, PlacesAre, PostedIs
<1> QED BY <1>1, <1>2, <1>4, <1>5 DEF PlacesInv, Sent, EachInOnePlace, TypeOK

\* The model's variables have their types, for all clients and bounds.
THEOREM TransactionTypes == Spec => []TypeOK
<1>1. Init => PlacesInv BY PlacesInit
<1>2. PlacesInv /\ [Next]_vars => PlacesInv' BY PlacesStep
<1>3. PlacesInv => TypeOK BY DEF PlacesInv
<1> QED BY <1>1, <1>2, <1>3, PTL DEF Spec

\* Whatever the sizes of the parcels and the order in which the binder threads,
\* RSUnmarshalThread and the main thread take their turns, a transaction of a
\* connected client is neither lost inside the service nor executed twice.
THEOREM TransactionsKept == Spec => []EachInOnePlace
<1> DEFINE Inv == PlacesInv /\ EachInOnePlace
<1>1. Init => Inv BY PlacesInit
<1>2. Inv /\ [Next]_vars => Inv' BY PlacesStep
<1>3. Inv => EachInOnePlace OBVIOUS
<1> QED BY <1>1, <1>2, <1>3, PTL DEF Spec

-----------------------------------------------------------------------------
(* Order.                                                                  *)

\* Only ProcessCommand executes, and only ClearTransactionDataPidInfo forgets.
LEMMA OrderStep ==
  ASSUME PlacesInv, InOrderUntilSkip, [Next]_vars
  PROVE  InOrderUntilSkip'
<1> USE DEF PlacesInv, InOrderUntilSkip
<1>0. CASE UNCHANGED vars BY <1>0 DEF vars, dataVars, historyVars
<1>1. CASE UNCHANGED <<known, skipped, applied, lastIndex>> BY <1>1
<1>2. ASSUME NEW p \in Process, ClearTransactionDataPidInfo(p) PROVE InOrderUntilSkip'
  BY <1>2 DEF ClearTransactionDataPidInfo, historyVars, TypeOK
<1>3. CASE ProcessCommand
  <2> SUFFICES ASSUME NEW p \in known' \ skipped' PROVE applied'[p] = 1..lastIndex'[p]
    OBVIOUS
  <2>1. p \in known \ skipped /\ p \in Process /\ ~Walk(p).skip
    BY <1>3 DEF ProcessCommand, TypeOK
  <2>2. MaxIndex[p] \in Nat /\ effective[p] \subseteq 1..MaxIndex[p]
    BY <2>1, BoundAssumption, EffectiveSent
  <2>3. Reached(Walk(p), p, MaxIndex[p]) BY <2>1, <2>2, WalkReached
  <2>4. lastIndex'[p] = Walk(p).last
        /\ applied'[p] = applied[p] \cup {i \in effective[p] : i < Walk(p).stop}
    BY <1>3, <2>1 DEF ProcessCommand
  <2>5. {i \in effective[p] : i < Walk(p).stop}
          = {i \in effective[p] : i < Walk(p).stop /\ i <= MaxIndex[p]}
    BY <2>2
  <2>6. applied[p] = 1..lastIndex[p] BY <2>1
  <2> QED BY <2>1, <2>3, <2>4, <2>5, <2>6 DEF Reached
<1> QED
  BY <1>0, <1>1, <1>2, <1>3
  DEF Next, BinderStep, UnmarshalStep, FrameStep, LoseParcel, RecvRSTransactionData, RecvParcel,
      MarkCachedData, RequestNextVSync, Unmarshal, RunBarrier, UnmarshalAsks, Pulse, OtherRequest,
      OnVsync, ForceRefreshForUni, CheckUnmarshalled, NoNeedToWait, BarrierPassed, TakeDeps,
      DepsDone, Render, dataVars, historyVars

\* However the transactions of a client come, in place or through
\* RSUnmarshalThread, and whenever frames look at them, those executed are the
\* ones it sent first, up to the index reached, until one is skipped.
THEOREM TransactionsInOrder == Spec => []InOrderUntilSkip
<1> DEFINE Inv == PlacesInv /\ InOrderUntilSkip
<1>1. Init => Inv
  <2>1. Init => \A p \in Process : applied[p] = {} /\ 1..lastIndex[p] = {}
    BY DEF Init, Nothing
  <2> QED BY <2>1, PlacesInit DEF InOrderUntilSkip, PlacesInv, TypeOK
<1>2. Inv /\ [Next]_vars => Inv' BY PlacesStep, OrderStep
<1>3. Inv => InOrderUntilSkip OBVIOUS
<1> QED BY <1>1, <1>2, <1>3, PTL DEF Spec

\* Nothing is merged for a client that is gone, and its walk is empty.
LEMMA ForgottenStep ==
  ASSUME PlacesInv, GoneIsForgotten, [Next]_vars
  PROVE  GoneIsForgotten'
<1> USE DEF PlacesInv, GoneIsForgotten
<1>0. CASE UNCHANGED vars BY <1>0 DEF vars, dataVars
<1>1. CASE UNCHANGED <<known, effective, waited>> BY <1>1
<1>2. ASSUME NEW p \in Process, ClearTransactionDataPidInfo(p) PROVE GoneIsForgotten'
  BY <1>2 DEF ClearTransactionDataPidInfo, TypeOK
<1>3. ASSUME NEW from, effective' = Merged(from), UNCHANGED <<known, waited>>
      PROVE  GoneIsForgotten'
  BY <1>3 DEF Merged
<1>4. ASSUME NEW n \in 1..MaxWait, Pulse(n) PROVE GoneIsForgotten'
  BY <1>4 DEF Pulse
<1>5. CASE ProcessCommand
  <2> SUFFICES ASSUME NEW p \in Process \ known' PROVE effective'[p] = {} /\ waited'[p] = NoWait
    OBVIOUS
  <2>1. p \in Process \ known /\ effective[p] = {} /\ waited[p] = NoWait
    BY <1>5 DEF ProcessCommand
  <2>2. Reached(Walk(p), p, MaxIndex[p]) BY <2>1, EffectiveSent, WalkReached
  <2>3. effective'[p] \subseteq effective[p] /\ waited'[p] = Walk(p).wait
    BY <1>5 DEF ProcessCommand
  <2> QED BY <2>1, <2>2, <2>3 DEF Reached
<1> QED
  BY <1>0, <1>1, <1>2, <1>3, <1>4, <1>5
  DEF Next, BinderStep, UnmarshalStep, FrameStep, LoseParcel, RecvRSTransactionData, RecvParcel,
      MarkCachedData, RequestNextVSync, Unmarshal, RunBarrier, UnmarshalAsks, OtherRequest,
      OnVsync, ForceRefreshForUni, CheckUnmarshalled, NoNeedToWait, BarrierPassed, TakeDeps,
      DepsDone, TakeUnmarshalled, Render, dataVars

\* What a client that has died still had on its way is not kept.
THEOREM GoneClientsForgotten == Spec => []GoneIsForgotten
<1> DEFINE Inv == PlacesInv /\ GoneIsForgotten
<1>1. Init => Inv BY PlacesInit DEF Init, GoneIsForgotten
<1>2. Inv /\ [Next]_vars => Inv' BY PlacesStep, ForgottenStep
<1>3. Inv => GoneIsForgotten OBVIOUS
<1> QED BY <1>1, <1>2, <1>3, PTL DEF Spec

-----------------------------------------------------------------------------
(* The refinement.                                                         *)

\* What the walk has let through when it has looked at the data up to i.
Through(w, p, i) == {j \in effective[p] : j < w.stop /\ j <= i}

\* T runs in turn from where the last frame ended, or past one gap.
RunsInTurn(p, T, n) == n >= lastIndex[p] /\ T = (lastIndex[p] + 1)..n

RunsPastGap(p, T, n) ==
  \E last \in {lastIndex[p]} \cup T, next \in T :
    /\ last >= lastIndex[p]
    /\ next > last + 1 \/ (last = lastIndex[p] /\ next =< last)
    /\ next =< n
    /\ T = ((lastIndex[p] + 1)..last) \cup (next..n)

\* The wait of a client is over when it is let past a gap, and begins anew.
OneGap(w, p, i) ==
  \/ /\ ~w.skip
     /\ RunsInTurn(p, Through(w, p, i), w.last)
     /\ w.wait = waited[p] \/ (waited[p] = NoWait /\ w.wait = 0)
  \/ /\ w.skip
     /\ waited[p] > SKIP_COMMAND_FREQ_LIMIT
     /\ w.wait \in {NoWait, 0}
     /\ RunsPastGap(p, Through(w, p, i), w.last)

LEMMA AdvanceOneGap ==
  ASSUME TypeOK, NEW p \in Process, effective[p] \subseteq 1..MaxIndex[p],
         NEW i \in 1..MaxIndex[p], NEW w, Reached(w, p, i - 1), OneGap(w, p, i - 1)
  PROVE  OneGap(Advance(w, p, i), p, i)
<1> DEFINE M == MaxIndex[p]
           v == Advance(w, p, i)
           T == Through(w, p, i - 1)
<1> SUFFICES OneGap(v, p, i)
  OBVIOUS
<1>1. /\ M \in Nat /\ SKIP_COMMAND_FREQ_LIMIT \in Nat /\ lastIndex[p] \in Nat
      /\ waited[p] \in {NoWait} \cup 0..MaxWait /\ NoWait = -1 /\ i \in Nat
  BY BoundAssumption DEF TypeOK, NoWait
<1>2. /\ w.last \in Nat /\ w.wait \in {NoWait} \cup 0..MaxWait /\ w.stop \in 1..(M + 1)
      /\ w.skip \in BOOLEAN /\ w.late \in BOOLEAN
      /\ w = [last |-> w.last, wait |-> w.wait, stop |-> w.stop, skip |-> w.skip, late |-> w.late]
  BY DEF Reached, WalkType
<1>3. \A j \in T : j \in 1..(i - 1) BY <1>1 DEF Through
<1>4. CASE ~(Goes(w, p) /\ i \in effective[p])
  <2>1. v = w BY <1>4 DEF Advance
  <2>2. Through(w, p, i) = T
    <3>1. i \notin effective[p] \/ w.stop \in 1..(i - 1) BY <1>1, <1>4 DEF Goes, Reached
    <3> QED BY <1>1, <3>1 DEF Through
  <2> QED BY <2>1, <2>2 DEF OneGap
<1>5. CASE Goes(w, p) /\ i \in effective[p]
  <2>1. v = Visit(w, p, i) BY <1>5 DEF Advance
  <2>2. w.stop = M + 1 BY <1>1, <1>2, <1>5 DEF Goes
  <2>3. Through(w, p, i) = T \cup {i} BY <1>1, <1>5, <2>2 DEF Through
  <2>s. ASSUME v.stop = i, v.skip = w.skip, v.last = w.last,
               v.wait = w.wait \/ (w.wait = NoWait /\ v.wait = 0)
        PROVE  OneGap(v, p, i)
    <3>1. Through(v, p, i) = T BY <1>1, <2>2, <2>s DEF Through
    <3> HIDE DEF v, T
    <3> QED BY <1>1, <2>s, <3>1 DEF OneGap, T
  <2>4. CASE v = [w EXCEPT !.stop = i, !.late = TRUE]
    <3>1. v = [last |-> w.last, wait |-> w.wait, stop |-> i, skip |-> w.skip, late |-> TRUE]
      BY <1>2, <2>4
    <3> HIDE DEF v
    <3> QED BY <2>s, <3>1
  <2>5. CASE i = w.last + 1 /\ v = [w EXCEPT !.last = i]
    <3>1. v = [last |-> i, wait |-> w.wait, stop |-> w.stop, skip |-> w.skip, late |-> w.late]
      BY <1>2, <2>5
    <3>2. v.stop = w.stop /\ v.skip = w.skip /\ v.last = w.last + 1 /\ v.wait = w.wait
      BY <2>5, <3>1
    <3>3. Through(v, p, i) = T \cup {i} BY <2>3, <3>2 DEF Through
    <3> HIDE DEF v
    <3>4. CASE ~w.skip
      <4>1. RunsInTurn(p, T, w.last) BY <3>4 DEF OneGap
      <4>2. RunsInTurn(p, T \cup {i}, v.last)
        BY <1>1, <1>2, <2>5, <3>2, <4>1 DEF RunsInTurn
      <4> QED BY <3>2, <3>3, <3>4, <4>2 DEF OneGap
    <3>5. CASE w.skip
      <4> HIDE DEF T
      <4>1. RunsPastGap(p, T, w.last) BY <3>5 DEF OneGap, T
      <4>2. PICK last \in {lastIndex[p]} \cup T, next \in T :
              /\ last >= lastIndex[p]
              /\ next > last + 1 \/ (last = lastIndex[p] /\ next =< last)
              /\ next =< w.last
              /\ T = ((lastIndex[p] + 1)..last) \cup (next..w.last)
        BY <4>1 DEF RunsPastGap
      <4>3. last \in Nat /\ next \in Nat BY <1>1, <1>3
      <4>4. (next..w.last) \cup {i} = next..v.last
        BY <1>2, <2>5, <3>2, <4>2, <4>3
      <4>5. T \cup {i} = ((lastIndex[p] + 1)..last) \cup (next..v.last)
        BY <4>2, <4>4
      <4>6. next =< v.last BY <1>2, <3>2, <4>2, <4>3
      <4>7. RunsPastGap(p, T \cup {i}, v.last)
        BY <4>2, <4>5, <4>6 DEF RunsPastGap
      <4> QED BY <3>2, <3>3, <3>5, <4>7 DEF OneGap
    <3> QED BY <1>2, <3>4, <3>5
  <2>6. CASE /\ i # w.last + 1
             /\ (IF w.wait = NoWait THEN 0 ELSE w.wait) > SKIP_COMMAND_FREQ_LIMIT
             /\ v = [w EXCEPT !.last = i, !.wait = NoWait, !.skip = TRUE]
    <3>1. v = [last |-> i, wait |-> NoWait, stop |-> w.stop, skip |-> TRUE, late |-> w.late]
      BY <1>2, <2>6
    <3>2. v.stop = w.stop /\ v.skip /\ v.last = i /\ v.wait = NoWait BY <3>1
    <3>3. Through(v, p, i) = T \cup {i} BY <2>3, <3>2 DEF Through
    <3>4. w.wait > SKIP_COMMAND_FREQ_LIMIT /\ w.wait # NoWait /\ w.wait # 0
      BY <1>1, <1>2, <2>6 DEF MaxWait
    <3>5. ~w.skip /\ waited[p] > SKIP_COMMAND_FREQ_LIMIT
          /\ w.last >= lastIndex[p] /\ T = (lastIndex[p] + 1)..w.last
      BY <3>4 DEF OneGap, RunsInTurn
    <3> HIDE DEF v, T
    <3>6. w.last # lastIndex[p] => w.last \in T BY <1>1, <1>2, <3>5
    <3>7. i > w.last + 1 \/ (w.last = lastIndex[p] /\ i =< w.last)
      BY <1>1, <1>2, <1>3, <2>6, <3>6
    <3>8. T \cup {i} = ((lastIndex[p] + 1)..w.last) \cup (i..v.last)
      BY <1>1, <3>2, <3>5
    <3>9. RunsPastGap(p, T \cup {i}, v.last)
      BY <1>1, <3>2, <3>5, <3>6, <3>7, <3>8 DEF RunsPastGap
    <3> QED BY <3>2, <3>3, <3>5, <3>9 DEF OneGap
  <2>7. CASE v = [w EXCEPT !.stop = i, !.wait = IF w.wait = NoWait THEN 0 ELSE w.wait]
    <3> DEFINE t == IF w.wait = NoWait THEN 0 ELSE w.wait
    <3>1. v = [last |-> w.last, wait |-> t, stop |-> i, skip |-> w.skip, late |-> w.late]
      BY <1>2, <2>7
    <3>2. t = w.wait \/ (w.wait = NoWait /\ t = 0) OBVIOUS
    <3> HIDE DEF v, t
    <3> QED BY <2>s, <3>1, <3>2
  <2> QED BY <2>1, <2>4, <2>5, <2>6, <2>7 DEF Visit, TakeNext, TakeAfterGap
<1> QED BY <1>4, <1>5

LEMMA WalkOneGap ==
  ASSUME TypeOK, NEW p \in Process, effective[p] \subseteq 1..MaxIndex[p]
  PROVE  OneGap(Walk(p), p, MaxIndex[p])
<1>1. MaxIndex[p] \in Nat BY BoundAssumption
<1>2. PICK f : IsWalk(f, p, MaxIndex[p]) /\ Walk(p) = f[MaxIndex[p]] BY WalkIs
<1> DEFINE S == {n \in Nat : n <= MaxIndex[p] => Reached(f[n], p, n) /\ OneGap(f[n], p, n)}
<1>3. 0 \in S
  <2>1. f[0] = Begin(p) BY <1>1, <1>2 DEF IsWalk
  <2>2. OneGap(Begin(p), p, 0)
    <3>1. Through(Begin(p), p, 0) = {} BY <1>1 DEF Through
    <3>2. lastIndex[p] \in Nat /\ (lastIndex[p] + 1)..lastIndex[p] = {} BY DEF TypeOK
    <3>3. ~Begin(p).skip /\ Begin(p).last = lastIndex[p] /\ Begin(p).wait = waited[p]
      BY DEF Begin
    <3>4. RunsInTurn(p, {}, lastIndex[p]) BY <3>2 DEF RunsInTurn
    <3> QED BY <3>1, <3>3, <3>4, Zenon DEF OneGap
  <2> QED BY <2>1, <2>2, BeginReached
<1>4. ASSUME NEW n \in S PROVE n + 1 \in S
  <2> SUFFICES ASSUME n + 1 <= MaxIndex[p]
               PROVE  Reached(f[n + 1], p, n + 1) /\ OneGap(f[n + 1], p, n + 1)
    OBVIOUS
  <2>1. n \in Nat /\ n + 1 \in 1..MaxIndex[p] /\ (n + 1) - 1 = n BY <1>1
  <2>2. Reached(f[n], p, n) /\ OneGap(f[n], p, n) BY <1>1, <2>1
  <2>3. f[n + 1] = Advance(f[n], p, n + 1) BY <1>1, <1>2, <2>1 DEF IsWalk
  <2> QED BY <2>1, <2>2, <2>3, AdvanceReached, AdvanceOneGap
<1>5. S \in SUBSET Nat OBVIOUS
<1> HIDE DEF S
<1>6. S = Nat BY <1>3, <1>4, <1>5, InductionOnSet
<1> QED BY <1>1, <1>2, <1>6 DEF S

KeptInv == PlacesInv /\ EachInOnePlace /\ GoneIsForgotten

\* What was sent, was not lost and has not been executed is with the service.
Unexecuted(p) ==
  IF p \in known THEN (1..index[p]) \ (lost[p] \cup applied[p]) ELSE {}

HereKnown == \A p \in Process : Here(p) = Unexecuted(p)

LEMMA HereIs == KeptInv => HereKnown
<1> SUFFICES ASSUME KeptInv, NEW p \in Process PROVE Here(p) = Unexecuted(p)
  BY DEF HereKnown
<1>1. CASE p \in known
  <2> DEFINE P == Places(p)
  <2>1. /\ UNION {P[k] : k \in 1..6} = 1..index[p]
        /\ \A j, k \in 1..6 : j # k => P[j] \cap P[k] = {}
    BY <1>1 DEF KeptInv, EachInOnePlace
  <2>2. /\ P[1] = lost[p] /\ P[2] = Posted(p) /\ P[3] = unmarshalled[p]
        /\ P[4] = cached[p] /\ P[5] = effective[p] /\ P[6] = applied[p]
    BY PlacesAre
  <2>3. \A k : k \in 1..6 <=> k = 1 \/ k = 2 \/ k = 3 \/ k = 4 \/ k = 5 \/ k = 6
    OBVIOUS
  <2> HIDE DEF P
  <2>4. \A x : x \in 1..index[p] <=>
          \/ x \in lost[p] \/ x \in Posted(p) \/ x \in unmarshalled[p]
          \/ x \in cached[p] \/ x \in effective[p] \/ x \in applied[p]
    <3>1. \A x : x \in UNION {P[k] : k \in 1..6} <=> \E k \in 1..6 : x \in P[k]
      OBVIOUS
    <3>2. \A x : (\E k \in 1..6 : x \in P[k]) <=>
            \/ x \in P[1] \/ x \in P[2] \/ x \in P[3]
            \/ x \in P[4] \/ x \in P[5] \/ x \in P[6]
      BY <2>3, Zenon
    <3> QED BY <2>1, <2>2, <3>1, <3>2
  <2>5. ASSUME NEW k \in 2..5 PROVE P[k] \cap P[1] = {} /\ P[k] \cap P[6] = {}
    BY <2>1
  <2>6. \A x : x \in Here(p) <=> x \in Posted(p) \/ x \in unmarshalled[p]
                                 \/ x \in cached[p] \/ x \in effective[p]
    BY <1>1 DEF Here
  <2>7. \A x : x \in Here(p) => x \notin lost[p] /\ x \notin applied[p]
    BY <2>2, <2>5, <2>6
  <2> QED BY <1>1, <2>4, <2>6, <2>7 DEF Unexecuted
<1>2. CASE p \notin known
  BY <1>2 DEF KeptInv, GoneIsForgotten, Here, Unexecuted
<1> QED BY <1>1, <1>2

LEMMA HereStays == KeptInv' => HereKnown'
BY HereIs, PTL

\* A frame executes what each walk has let through.
LEMMA ServiceFrame ==
  ASSUME KeptInv, KeptInv', ProcessCommand
  PROVE  Service!Frame
<1> DEFINE Passed(p) == {i \in effective[p] : i < Walk(p).stop}
<1>t. TypeOK /\ TypeOK' BY DEF KeptInv, PlacesInv
<1>n. SKIP_COMMAND_FREQ_LIMIT \in Nat /\ NoWait = -1 BY BoundAssumption DEF NoWait
<1>1. ASSUME NEW p \in Process
      PROVE  /\ effective'[p] = effective[p] \ Passed(p)
             /\ applied'[p] = applied[p] \cup Passed(p)
             /\ lastIndex'[p] = Walk(p).last /\ waited'[p] = Walk(p).wait
  BY DEF ProcessCommand
<1>2. UNCHANGED <<index, lost, known>> BY DEF ProcessCommand, clientVars
<1>3. ASSUME NEW p \in Process
      PROVE  OneGap(Walk(p), p, MaxIndex[p]) /\ Passed(p) = Through(Walk(p), p, MaxIndex[p])
  <2>1. effective[p] \subseteq 1..MaxIndex[p] /\ MaxIndex[p] \in Nat
    BY EffectiveSent, BoundAssumption DEF KeptInv
  <2> QED BY <1>t, <2>1, WalkOneGap DEF Through
<1>4. \A p \in Process : Here(p) = Unexecuted(p) /\ Here(p)' = Unexecuted(p)'
  BY HereIs, HereStays DEF HereKnown
<1>5. ASSUME NEW p \in Process
      PROVE  Here(p)' \subseteq Here(p) /\ Here(p) \ Here(p)' = Passed(p)
  <2>1. Passed(p) \subseteq Here(p) BY DEF Here
  <2>2. p \notin known => Passed(p) = {} BY DEF KeptInv, GoneIsForgotten
  <2>3. applied'[p] = applied[p] \cup Passed(p) BY <1>1
  <2> HIDE DEF Passed
  <2> QED BY <1>2, <1>4, <2>1, <2>2, <2>3 DEF Unexecuted
<1> HIDE DEF Passed
<1>6. ASSUME NEW p \in Process
      PROVE  waited'[p] > SKIP_COMMAND_FREQ_LIMIT => waited[p] > SKIP_COMMAND_FREQ_LIMIT
  BY <1>1, <1>3, <1>n DEF OneGap
<1>7. ASSUME NEW p \in Process
      PROVE  \/ RunsInTurn(p, Passed(p), lastIndex'[p])
             \/ /\ waited[p] > SKIP_COMMAND_FREQ_LIMIT
                /\ ~(waited'[p] > SKIP_COMMAND_FREQ_LIMIT)
                /\ RunsPastGap(p, Passed(p), lastIndex'[p])
  BY <1>1, <1>3, <1>n DEF OneGap
<1>8. lastIndex' \in [Process -> Nat] /\ applied' \in [Process -> SUBSET Nat]
  BY <1>t DEF TypeOK
<1>9. \A p \in Process : Here(p)' \in SUBSET Nat
  <2>1. \A p \in Process : Unexecuted(p) \in SUBSET Nat
    BY <1>t DEF Unexecuted, TypeOK
  <2> QED BY <1>4, <1>5, <2>1
<1>10. applied' = [p \in Process |-> applied[p] \cup Passed(p)]
  BY <1>1, <1>8
<1>11. ASSUME NEW p \in Process, RunsInTurn(p, Passed(p), lastIndex'[p])
       PROVE  Service!InTurn(p)
  BY <1>5, <1>11 DEF RunsInTurn, Service!InTurn, Service!Executed
<1>12. ASSUME NEW p \in Process, waited[p] > SKIP_COMMAND_FREQ_LIMIT,
              ~(waited'[p] > SKIP_COMMAND_FREQ_LIMIT),
              RunsPastGap(p, Passed(p), lastIndex'[p])
       PROVE  Service!PastGap(p)
  BY <1>5, <1>12 DEF RunsPastGap, Service!PastGap, Service!Executed
<1>13. ASSUME NEW p \in Process \ known PROVE Here(p)' = Here(p) /\ lastIndex'[p] = lastIndex[p]
  <2>1. Passed(p) = {} BY DEF Passed, KeptInv, GoneIsForgotten
  <2>2. Here(p)' = Here(p) BY <1>5, <2>1
  <2>3. RunsInTurn(p, {}, lastIndex'[p])
    <3>1. ~RunsPastGap(p, {}, lastIndex'[p]) BY DEF RunsPastGap
    <3> QED BY <1>7, <2>1, <3>1
  <2>4. lastIndex[p] \in Nat /\ lastIndex'[p] \in Nat BY <1>t DEF TypeOK
  <2> QED BY <2>2, <2>3, <2>4 DEF RunsInTurn
<1>14. {p \in Process : waited'[p] > SKIP_COMMAND_FREQ_LIMIT}
         \subseteq {p \in Process : waited[p] > SKIP_COMMAND_FREQ_LIMIT}
  BY <1>6
<1>15. known \subseteq Process BY <1>t DEF TypeOK
<1> HIDE DEF Passed
<1> QED
  BY <1>2, <1>5, <1>7, <1>8, <1>9, <1>10, <1>11, <1>12, <1>13, <1>14, <1>15
  DEF Service!Frame, Service!Executed

LEMMA ServiceStep ==
  ASSUME KeptInv, KeptInv', [Next]_vars
  PROVE  [Service!Next]_(Service!serviceVars)
<1> DEFINE Maps == Service!Next \/ UNCHANGED Service!serviceVars
<1> SUFFICES Maps
  OBVIOUS
<1>t. TypeOK /\ TypeOK' BY DEF KeptInv, PlacesInv
<1>n. SKIP_COMMAND_FREQ_LIMIT \in Nat /\ NoWait = -1 /\ MaxWait = SKIP_COMMAND_FREQ_LIMIT + 1
  BY BoundAssumption DEF NoWait, MaxWait
<1>h. \A p \in Process : Here(p) = Unexecuted(p) /\ Here(p)' = Unexecuted(p)'
  BY HereIs, HereStays DEF HereKnown
<1>s. ASSUME UNCHANGED <<known, index, lost, applied, lastIndex>>
      PROVE  /\ UNCHANGED <<known, index, applied, lastIndex>>
             /\ \A p \in Process : Here(p)' = Here(p)
  BY <1>h, <1>s DEF Unexecuted
<1>u. ASSUME UNCHANGED <<known, index, lost, applied, lastIndex, waited>> PROVE Maps
  BY <1>s, <1>u DEF Service!serviceVars
<1> USE DEF clientVars, dataVars, historyVars
<1>1. ASSUME NEW p \in Process, LoseParcel(p) PROVE Maps
  <2>1. /\ index' = [index EXCEPT ![p] = @ + 1]
        /\ lost' = [lost EXCEPT ![p] = @ \cup {index[p] + 1}]
        /\ UNCHANGED <<known, applied, lastIndex, waited>>
    BY <1>1 DEF LoseParcel
  <2>2. ASSUME NEW q \in Process PROVE Here(q)' = Here(q)
    <3>1. index[q] \in Nat BY <1>t DEF TypeOK
    <3>2. CASE q = p
      <4>1. index'[p] = index[p] + 1 /\ lost'[p] = lost[p] \cup {index[p] + 1}
        BY <1>t, <2>1 DEF TypeOK
      <4>2. (1..(index[p] + 1)) \ {index[p] + 1} = 1..index[p] BY <3>1, <3>2
      <4>3. (1..(index[p] + 1)) \ ((lost[p] \cup {index[p] + 1}) \cup applied[p])
              = (1..index[p]) \ (lost[p] \cup applied[p])
        BY <4>2
      <4> QED BY <1>h, <2>1, <3>2, <4>1, <4>3 DEF Unexecuted
    <3>3. CASE q # p
      BY <1>h, <1>t, <2>1, <3>3 DEF Unexecuted, TypeOK
    <3> QED BY <3>2, <3>3
  <2>3. Service!Miss(p)
    BY <2>1, <2>2 DEF Service!Miss
  <2> QED BY <2>3 DEF Service!Next
<1>2. ASSUME NEW p \in Process, index' = [index EXCEPT ![p] = @ + 1],
             UNCHANGED <<known, lost, applied, lastIndex, waited>>
      PROVE  Maps
  <2>1. ASSUME NEW q \in Process
        PROVE  Here(q)' = IF q = p /\ p \in known THEN Here(q) \cup {index[p] + 1} ELSE Here(q)
    <3>1. index[q] \in Nat BY <1>t DEF TypeOK
    <3>2. CASE q = p /\ p \in known
      <4>1. index'[p] = index[p] + 1 BY <1>2, <1>t DEF TypeOK
      <4>2. lost[p] \subseteq 1..index[p] /\ applied[p] \subseteq 1..index[p]
        BY PlacesAre DEF KeptInv, PlacesInv, Sent
      <4>3. index[p] + 1 \notin lost[p] \cup applied[p]
        BY <3>1, <3>2, <4>2
      <4>4. 1..(index[p] + 1) = (1..index[p]) \cup {index[p] + 1} BY <3>1, <3>2
      <4>5. (1..(index[p] + 1)) \ (lost[p] \cup applied[p])
              = ((1..index[p]) \ (lost[p] \cup applied[p])) \cup {index[p] + 1}
        BY <4>3, <4>4
      <4> QED BY <1>2, <1>h, <3>2, <4>1, <4>5 DEF Unexecuted
    <3>3. CASE ~(q = p /\ p \in known)
      BY <1>2, <1>h, <1>t, <3>3 DEF Unexecuted, TypeOK
    <3> QED BY <3>2, <3>3
  <2>2. CASE p \in known
    <3>1. Service!Hand(p) BY <1>2, <2>1, <2>2 DEF Service!Hand
    <3> QED BY <3>1 DEF Service!Next
  <2>3. CASE p \notin known
    <3>1. Service!Miss(p) BY <1>2, <2>1, <2>3 DEF Service!Miss
    <3> QED BY <3>1 DEF Service!Next
  <2> QED BY <2>2, <2>3
<1>3. ASSUME NEW n \in 1..MaxWait, Pulse(n) PROVE Maps
  <2> DEFINE Over == {p \in Process : waited[p] > SKIP_COMMAND_FREQ_LIMIT}
             OverThen == {p \in Process : waited'[p] > SKIP_COMMAND_FREQ_LIMIT}
  <2>1. /\ UNCHANGED <<known, index, lost, applied, lastIndex>>
        /\ waited' = [p \in Process |-> IF waited[p] = NoWait THEN NoWait
                                       ELSE Min({MaxWait, waited[p] + n})]
    BY <1>3 DEF Pulse
  <2>2. Over \subseteq OverThen
    <3> SUFFICES ASSUME NEW p \in Over PROVE p \in OverThen
      OBVIOUS
    <3>1. waited[p] \in 0..MaxWait /\ waited[p] # NoWait BY <1>n, <1>t DEF TypeOK
    <3>2. waited[p] + n \in Nat /\ waited[p] + n > SKIP_COMMAND_FREQ_LIMIT BY <1>n, <3>1
    <3>3. Min({MaxWait, waited[p] + n}) > SKIP_COMMAND_FREQ_LIMIT
      BY <1>n, <3>2, MinOfTwo
    <3> QED BY <2>1, <3>1, <3>3
  <2>3. OverThen \subseteq known
    <3> SUFFICES ASSUME NEW p \in OverThen PROVE p \in known
      OBVIOUS
    <3>1. waited'[p] # NoWait BY <1>n
    <3> QED BY <2>1, <3>1 DEF KeptInv, GoneIsForgotten
  <2>4. \A p \in Process : Here(p)' = Here(p) BY <1>s, <2>1
  <2>5. Service!WaitLonger BY <2>1, <2>2, <2>3, <2>4 DEF Service!WaitLonger
  <2> QED BY <2>5 DEF Service!Next
<1>4. CASE ProcessCommand BY <1>4, ServiceFrame DEF Service!Next
<1>5. ASSUME NEW p \in Process, ClearTransactionDataPidInfo(p) PROVE Maps
  <2>1. /\ p \in known /\ known' = known \ {p}
        /\ lastIndex' = [lastIndex EXCEPT ![p] = 0]
        /\ waited' = [waited EXCEPT ![p] = NoWait]
        /\ UNCHANGED <<index, lost, applied>>
    BY <1>5 DEF ClearTransactionDataPidInfo
  <2>2. \A q \in Process : Here(q)' = IF q = p THEN {} ELSE Here(q)
    BY <1>h, <2>1 DEF Unexecuted
  <2>3. {q \in Process : waited'[q] > SKIP_COMMAND_FREQ_LIMIT}
          = {q \in Process : waited[q] > SKIP_COMMAND_FREQ_LIMIT} \ {p}
    BY <1>n, <1>t, <2>1 DEF TypeOK
  <2>4. Service!Leave(p) BY <2>1, <2>2, <2>3 DEF Service!Leave
  <2> QED BY <2>4 DEF Service!Next
<1>6. CASE UNCHANGED vars BY <1>6, <1>u DEF vars
<1>7. CASE \/ \E p \in Process : MarkCachedData(p) \/ RequestNextVSync(p)
           \/ UnmarshalStep \/ OtherRequest \/ OnVsync \/ ForceRefreshForUni
           \/ CheckUnmarshalled \/ NoNeedToWait \/ BarrierPassed \/ TakeDeps
           \/ DepsDone \/ Render
  <2> HIDE DEF Maps
  <2> QED
    BY <1>7, <1>u
    DEF MarkCachedData, RequestNextVSync, UnmarshalStep, Unmarshal, RunBarrier, UnmarshalAsks,
        OtherRequest, OnVsync, ForceRefreshForUni, CheckUnmarshalled, NoNeedToWait,
        BarrierPassed, TakeDeps, DepsDone, Render
<1>8. ASSUME NEW p \in Process,
             RecvRSTransactionData(p) \/ \E size \in {"posted", "pending"} : RecvParcel(p, size)
      PROVE  Maps
  <2>1. /\ index' = [index EXCEPT ![p] = @ + 1]
        /\ UNCHANGED <<known, lost, applied, lastIndex, waited>>
    BY <1>8 DEF RecvRSTransactionData, RecvParcel, NextParcel
  <2> QED BY <1>2, <2>1
<1> HIDE DEF Maps
<1> QED
  BY <1>1, <1>3, <1>4, <1>5, <1>6, <1>7, <1>8, Zenon DEF Next, BinderStep, FrameStep

\* All the machinery between a client and the execution of its transactions
\* implements TransactionService, for any number of clients and parcels, any
\* sizes, losses and orders of arrival.
THEOREM OrderImplementsService == Spec => ImplementsService
<1>1. Init => KeptInv BY PlacesInit DEF Init, KeptInv, GoneIsForgotten
<1>2. KeptInv /\ [Next]_vars => KeptInv'
  BY PlacesStep, ForgottenStep DEF KeptInv
<1>3. Init => Service!Init
  <2> SUFFICES ASSUME Init PROVE Service!Init
    OBVIOUS
  <2>1. KeptInv BY <1>1
  <2>2. \A p \in Process : Here(p) = {} BY <2>1, HereIs DEF Init, HereKnown, Unexecuted
  <2>3. {p \in Process : waited[p] > SKIP_COMMAND_FREQ_LIMIT} = {}
    BY BoundAssumption DEF Init, NoWait
  <2> QED BY <2>2, <2>3 DEF Init, Nothing, Service!Init
<1>4. KeptInv /\ KeptInv' /\ [Next]_vars => [Service!Next]_(Service!serviceVars)
  BY ServiceStep
<1> QED BY <1>1, <1>2, <1>3, <1>4, PTL DEF Spec, ImplementsService, Service!Spec

-----------------------------------------------------------------------------
(* The barrier.                                                            *)

Waiting == pc = "wait" /\ needWait /\ ~parallel

\* While the main thread does not wait there is no barrier and no count of one
\* passed; while it waits there is one of the two; and the flag that spares it
\* the wait is up again when the wait is over.
BarrierPlaced ==
  /\ ~Waiting => finished = 0 /\ Barriers = {}
  /\ Waiting => \/ finished = 1 /\ Barriers = {}
                \/ finished = 0 /\ \E k \in DOMAIN tasks : Barriers = {k}
  /\ pc # "wait" => needWait

LEMMA PlacedMatches == BarrierPlaced => BarrierMatches
<1>1. Cardinality({}) = 0 BY FS_EmptySet
<1>2. \A k : Cardinality({k}) = 1 BY FS_Singleton
<1> SUFFICES ASSUME BarrierPlaced
             PROVE  finished + Cardinality(Barriers) = IF Waiting THEN 1 ELSE 0
  BY DEF BarrierMatches, Waiting
<1>3. CASE finished = 1 /\ Barriers = {} /\ Waiting BY <1>1, <1>3
<1>4. ASSUME finished = 0, Waiting, NEW k, Barriers = {k} PROVE finished + Cardinality(Barriers) = 1
  BY <1>2, <1>4
<1>5. CASE ~Waiting
  <2>1. finished = 0 /\ Barriers = {} BY <1>5 DEF BarrierPlaced
  <2> QED BY <1>1, <1>5, <2>1
<1> QED BY <1>3, <1>4, <1>5 DEF BarrierPlaced

\* Parcels posted or taken may move the barrier, but neither add nor remove one.
LEMMA BarriersKept ==
  ASSUME TypeOK,
         \/ \E t \in Parcel : tasks' = Append(tasks, t)
         \/ \E k \in DOMAIN tasks : tasks[k] # Barrier /\ tasks' = RemoveAt(tasks, k)
  PROVE  /\ Barriers = {} => Barriers' = {}
         /\ (\E k \in DOMAIN tasks : Barriers = {k}) => (\E k \in DOMAIN tasks' : Barriers' = {k})
<1>1. tasks \in Seq(Task) /\ DOMAIN tasks = 1..Len(tasks) BY DEF TypeOK, Task
<1>2. \A j : j \in Barriers <=> j \in DOMAIN tasks /\ tasks[j] = Barrier BY DEF Barriers
<1>3. \A j : j \in Barriers' <=> j \in DOMAIN tasks' /\ tasks'[j] = Barrier BY DEF Barriers
<1>4. ASSUME NEW t \in Parcel, tasks' = Append(tasks, t)
      PROVE  Barriers' = Barriers /\ DOMAIN tasks \subseteq DOMAIN tasks'
  <2>1. t # Barrier BY BarrierAssumption DEF Parcel
  <2>2. /\ DOMAIN tasks' = 1..(Len(tasks) + 1)
        /\ \A k \in 1..Len(tasks) : tasks'[k] = tasks[k]
        /\ tasks'[Len(tasks) + 1] = t
    BY <1>1, <1>4
  <2>3. \A j : j \in Barriers' <=> j \in Barriers BY <1>1, <1>2, <1>3, <2>1, <2>2
  <2>4. Barriers' = Barriers BY <2>3, Zenon
  <2> QED BY <1>1, <2>2, <2>4
<1>5. ASSUME NEW k \in DOMAIN tasks, tasks[k] # Barrier, tasks' = RemoveAt(tasks, k)
      PROVE  /\ Barriers = {} => Barriers' = {}
             /\ \A b \in DOMAIN tasks : Barriers = {b} => \E c \in DOMAIN tasks' : Barriers' = {c}
  <2>n. Len(tasks) \in Nat /\ k \in 1..Len(tasks) BY <1>1
  <2>1. /\ tasks' \in Seq(Task) /\ Len(tasks') = Len(tasks) - 1
        /\ \A j \in 1..(Len(tasks) - 1) : tasks'[j] = IF j < k THEN tasks[j] ELSE tasks[j + 1]
    BY <1>1, <1>5, <2>n, RemovedTask
  <2>d. DOMAIN tasks' = 1..(Len(tasks) - 1) BY <2>1
  <2>2. ASSUME NEW j \in 1..(Len(tasks) - 1)
        PROVE  j \in Barriers' <=> IF j < k THEN j \in Barriers ELSE j + 1 \in Barriers
    <3>1. j \in 1..Len(tasks) /\ j + 1 \in 1..Len(tasks) BY <2>n
    <3> QED BY <1>1, <1>2, <1>3, <2>1, <2>d, <3>1
  <2>5. Barriers' \subseteq 1..(Len(tasks) - 1) BY <1>3, <2>d
  <2>3. Barriers = {} => Barriers' = {} BY <2>2, <2>5
  <2>4. ASSUME NEW b \in DOMAIN tasks, Barriers = {b}
        PROVE  \E c \in DOMAIN tasks' : Barriers' = {c}
    <3>1. b # k BY <1>2, <1>5, <2>4
    <3> DEFINE c == IF b < k THEN b ELSE b - 1
    <3>0. b \in 1..Len(tasks) BY <1>1
    <3>2. c \in 1..(Len(tasks) - 1) BY <2>n, <3>0, <3>1
    <3>3. \A j : j \in Barriers' <=> j = c
      <4>1. ASSUME NEW j \in 1..(Len(tasks) - 1) PROVE j \in Barriers' <=> j = c
        <5>1. (IF j < k THEN j = b ELSE j + 1 = b) <=> j = c BY <2>n, <3>0, <3>1
        <5> QED BY <2>2, <2>4, <5>1
      <4> QED BY <2>5, <3>2, <4>1
    <3> HIDE DEF c
    <3>4. Barriers' = {c} BY <3>3
    <3> QED BY <2>d, <3>2, <3>4
  <2> QED BY <2>3, <2>4
<1> QED BY <1>4, <1>5

\* A barrier posted where there was none is the only one.
LEMMA BarrierPut ==
  ASSUME TypeOK, Barriers = {}, tasks' = Append(tasks, Barrier)
  PROVE  \E k \in DOMAIN tasks' : Barriers' = {k}
<1>1. tasks \in Seq(Task) BY DEF TypeOK, Task
<1>2. /\ DOMAIN tasks' = 1..(Len(tasks) + 1)
      /\ \A k \in 1..Len(tasks) : tasks'[k] = tasks[k] /\ tasks[k] # Barrier
      /\ tasks'[Len(tasks) + 1] = Barrier
  BY <1>1 DEF Barriers
<1>3. Barriers' = {Len(tasks) + 1} BY <1>1, <1>2 DEF Barriers
<1> QED BY <1>1, <1>2, <1>3

\* The only barrier leaves none when it is run.
LEMMA BarrierRun ==
  ASSUME TypeOK, NEW k \in DOMAIN tasks, Barriers = {k}, tasks # <<>>, tasks[1] = Barrier,
         tasks' = Tail(tasks)
  PROVE  Barriers' = {}
<1>1. tasks \in Seq(Task) BY DEF TypeOK, Task
<1>2. k = 1 BY <1>1 DEF Barriers
<1>3. \A j \in DOMAIN tasks' : j + 1 \in DOMAIN tasks /\ j + 1 # 1 /\ tasks'[j] = tasks[j + 1]
  BY <1>1
<1> QED BY <1>2, <1>3 DEF Barriers

\* Barriers are posted on the way to the wait, which ends with one passed.
LEMMA BarrierStep ==
  ASSUME PlacesInv, BarrierPlaced, [Next]_vars
  PROVE  BarrierPlaced'
<1> USE DEF PlacesInv
<1>t. tasks \in Seq(Task) BY DEF TypeOK, Task
<1>u. ASSUME UNCHANGED <<tasks, finished, pc, needWait, parallel>> PROVE BarrierPlaced'
  BY <1>u DEF BarrierPlaced, Waiting, Barriers
<1>v. ASSUME UNCHANGED <<finished, pc, needWait, parallel>>,
             \/ \E t \in Parcel : tasks' = Append(tasks, t)
             \/ \E k \in DOMAIN tasks : tasks[k] # Barrier /\ tasks' = RemoveAt(tasks, k)
      PROVE  BarrierPlaced'
  <2>1. /\ Barriers = {} => Barriers' = {}
        /\ (\E k \in DOMAIN tasks : Barriers = {k}) => (\E k \in DOMAIN tasks' : Barriers' = {k})
    BY <1>v, BarriersKept
  <2>2. Waiting' <=> Waiting BY <1>v DEF Waiting
  <2> QED BY <1>v, <2>1, <2>2 DEF BarrierPlaced
<1>w. ASSUME UNCHANGED tasks PROVE Barriers' = Barriers BY <1>w DEF Barriers
<1> USE DEF unmarshalVars, switches, frameVars
<1>1. ASSUME NEW p \in Process, NEW size \in Size, RecvParcel(p, size) PROVE BarrierPlaced'
  <2> DEFINE t == [pid |-> p, idx |-> index[p] + 1, pending |-> size = "pending"]
  <2>1. t \in Parcel
    <3>1. index[p] + 1 \in Nat /\ (size = "pending") \in BOOLEAN BY DEF TypeOK
    <3> QED BY <3>1 DEF Parcel
  <2>2. tasks' = Append(tasks, t) /\ UNCHANGED <<finished, pc, needWait, parallel>>
    BY <1>1 DEF RecvParcel
  <2> QED BY <1>v, <2>1, <2>2
<1>2. ASSUME NEW k \in DOMAIN tasks, Unmarshal(k) PROVE BarrierPlaced'
  BY <1>2, <1>v DEF Unmarshal
<1>3. CASE RunBarrier
  <2>1. /\ tasks # <<>> /\ tasks[1] = Barrier /\ tasks' = Tail(tasks) /\ finished' = finished + 1
        /\ UNCHANGED <<pc, needWait, parallel>>
    BY <1>3, <1>t DEF RunBarrier, Runnable
  <2>2. 1 \in Barriers BY <1>t, <2>1 DEF Barriers
  <2>3. PICK k \in DOMAIN tasks : Waiting /\ finished = 0 /\ Barriers = {k}
    BY <2>2 DEF BarrierPlaced
  <2>4. Barriers' = {} BY <2>1, <2>3, BarrierRun
  <2>5. Waiting' BY <2>1, <2>3 DEF Waiting
  <2> QED BY <2>1, <2>3, <2>4, <2>5 DEF BarrierPlaced, Waiting
<1>4. ASSUME pc # "wait", pc' = "wait", PostBarrier, UNCHANGED <<finished, needWait, parallel>>
      PROVE  BarrierPlaced'
  <2>1. ~Waiting /\ needWait /\ finished = 0 /\ Barriers = {} BY <1>4 DEF BarrierPlaced, Waiting
  <2>2. CASE parallel
    <3>1. Barriers' = {} BY <1>4, <1>w, <2>1, <2>2 DEF PostBarrier
    <3> QED BY <1>4, <2>1, <2>2, <3>1 DEF BarrierPlaced, Waiting
  <2>3. CASE ~parallel
    <3>1. \E k \in DOMAIN tasks' : Barriers' = {k}
      BY <1>4, <2>1, <2>3, BarrierPut DEF PostBarrier
    <3> QED BY <1>4, <2>1, <2>3, <3>1 DEF BarrierPlaced, Waiting
  <2> QED BY <2>2, <2>3
<1>5. CASE CheckUnmarshalled
  <2>1. pc # "wait" /\ pc' = "wait" /\ UNCHANGED <<finished, parallel>>
    BY <1>5 DEF CheckUnmarshalled
  <2>2. CASE CachedTransactionDataEmpty
    <3>1. needWait' = FALSE /\ UNCHANGED tasks BY <1>5, <2>2 DEF CheckUnmarshalled
    <3>2. finished = 0 /\ Barriers = {} BY <2>1 DEF BarrierPlaced, Waiting
    <3> QED BY <1>w, <2>1, <3>1, <3>2 DEF BarrierPlaced, Waiting
  <2>3. CASE ~CachedTransactionDataEmpty
    BY <1>4, <1>5, <2>1, <2>3 DEF CheckUnmarshalled
  <2> QED BY <2>2, <2>3
<1>6. CASE ForceRefreshForUni
  <2>1. pc # "wait" /\ pc' = "wait" /\ PostBarrier /\ UNCHANGED <<finished, needWait, parallel>>
    BY <1>6 DEF ForceRefreshForUni
  <2> QED BY <1>4, <2>1
<1>7. CASE NoNeedToWait
  BY <1>7, <1>w DEF NoNeedToWait, BarrierPlaced, Waiting
<1>8. CASE BarrierPassed
  <2>1. finished = 1 /\ Barriers = {} BY <1>8 DEF BarrierPassed, BarrierPlaced, Waiting
  <2> QED BY <1>8, <1>w, <2>1 DEF BarrierPassed, BarrierPlaced, Waiting
<1>9. CASE TakeDeps
  BY <1>9, <1>w DEF TakeDeps, BarrierPlaced, Waiting
<1>10. ASSUME pc # "wait", pc' # "wait", UNCHANGED <<tasks, finished, needWait, parallel>>
       PROVE  BarrierPlaced'
  BY <1>10, <1>w DEF BarrierPlaced, Waiting
<1>11. CASE OnVsync BY <1>10, <1>11 DEF OnVsync
<1>12. CASE DepsDone BY <1>10, <1>12 DEF DepsDone
<1>13. CASE ProcessCommand BY <1>10, <1>13 DEF ProcessCommand
<1>14. CASE Render BY <1>10, <1>14 DEF Render
<1>15. CASE UNCHANGED vars BY <1>15, <1>u DEF vars
<1>16. {"posted", "pending"} \subseteq Size BY DEF Size
<1>17. CASE (\E p \in Process : \/ LoseParcel(p) \/ RecvRSTransactionData(p) \/ MarkCachedData(p)
                                \/ RequestNextVSync(p) \/ ClearTransactionDataPidInfo(p))
            \/ UnmarshalAsks \/ OtherRequest \/ \E n \in 1..MaxWait : Pulse(n)
  BY <1>17, <1>u
  DEF LoseParcel, RecvRSTransactionData, MarkCachedData, RequestNextVSync,
      ClearTransactionDataPidInfo, UnmarshalAsks, OtherRequest, Pulse
<1> QED
  BY <1>1, <1>2, <1>3, <1>5, <1>6, <1>7, <1>8, <1>9, <1>11, <1>12, <1>13, <1>14, <1>15, <1>16, <1>17
  DEF Next, BinderStep, UnmarshalStep, FrameStep

\* The main thread never finds the count of an earlier frame, and it never waits
\* without a barrier on its way: one is posted exactly when it is going to wait.
THEOREM BarriersMatch == Spec => []BarrierMatches
<1> DEFINE Inv == PlacesInv /\ BarrierPlaced
<1>1. Init => Inv
  <2>1. Init => Barriers = {} BY DEF Init, Barriers
  <2> QED BY <2>1, PlacesInit DEF Init, BarrierPlaced, Waiting
<1>2. Inv /\ [Next]_vars => Inv' BY PlacesStep, BarrierStep
<1>3. Inv => BarrierMatches BY PlacedMatches
<1> QED BY <1>1, <1>2, <1>3, PTL DEF Spec
=============================================================================
