---------------------------- MODULE Polls_proofs ----------------------------
(***************************************************************************)
(* Proofs about Polls, for every range of the tick and of the counter,     *)
(* every number of polls and every period that leaves room for a turn.     *)
(*                                                                         *)
(* The unsigned difference curr - prev is the true time since the poll was *)
(* due, until that reaches the range of the tick; from then on it is less. *)
(* So a poll is never early; and since a poll that is tested in time never *)
(* lets its age reach the range of the tick, none is late.                 *)
(***************************************************************************)
EXTENDS Polls, TLAPS

\* The difference is the true time, as long as that is below the range.
AgeInv ==
    \A p \in Poll :
        /\ Elapsed(tick, prev[p]) <= age[p]
        /\ age[p] < M => age[p] = Elapsed(tick, prev[p])

\* A required poll was below its period when it was tested last.
IdleInv ==
    /\ pc = "init" => due = {}
    /\ pc = "loop" =>
          \A p \in due \ Optional :
              (p = Save => saveDelay = Period[p])
              => age[p] < Period[p] + idle[p]

\* The inductive invariant.
ClockInv == TypeOK /\ AgeInv /\ IdleInv

\* The constants, as the provers need them.
LEMMA Constants ==
    /\ M \in Nat /\ M > 1 /\ N \in Nat /\ Turns \in Nat /\ Turns > 1
    /\ MaxTurn \in Nat /\ Save \in Poll
    /\ \A p \in Poll :
          Period[p] \in Nat /\ Period[p] > 0 /\ Period[p] + MaxTurn < M
    /\ 0 \in 0 .. M - 1 /\ Never \in 0 .. M - 1
  <1>1. \A p \in Poll : Period[p] \in Nat
    BY PollsAssumption, Zenon
  <1>2. Period[Save] \in Nat /\ 0 < Period[Save] /\ Period[Save] + MaxTurn < M
    BY <1>1, PollsAssumption
  <1> QED
    BY <1>1, <1>2, PollsAssumption, SMT DEF Never

\* The difference of two ticks is below the range of the tick.
LEMMA ElapsedRange ==
    \A c, l \in 0 .. M - 1 : Elapsed(c, l) \in 0 .. M - 1
  BY Constants, SMT DEF Elapsed

\* One more tick adds one to the difference, or brings it back to 0.
LEMMA ElapsedTick ==
    ASSUME NEW c \in 0 .. M - 1, NEW l \in 0 .. M - 1
    PROVE  /\ (c + 1) % M \in 0 .. M - 1
           /\ \/ Elapsed((c + 1) % M, l) = Elapsed(c, l) + 1
              \/ Elapsed((c + 1) % M, l) = 0 /\ Elapsed(c, l) = M - 1
  <1>1. CASE c + 1 < M
    <2>1. (c + 1) % M = c + 1
      BY <1>1, Constants, SMT
    <2> QED
      BY <1>1, <2>1, Constants, SMT DEF Elapsed
  <1>2. CASE c + 1 = M
    <2>1. (c + 1) % M = 0
      BY <1>2, Constants, SMT
    <2> QED
      BY <1>2, <2>1, Constants, SMT DEF Elapsed
  <1> QED
    BY <1>1, <1>2, Constants, SMT

\* The counter of the loop stays in its range.
LEMMA CountRange ==
    \A c \in 0 .. Turns - 1 : (c + 1) % Turns \in 0 .. Turns - 1
  BY Constants, SMT

-----------------------------------------------------------------------------
\* The invariant holds at the start.
LEMMA ClockInit == Init => ClockInv
  <1> SUFFICES ASSUME Init PROVE ClockInv
    OBVIOUS
  <1>1. /\ prev \in [Poll -> 0 .. M - 1]
        /\ age \in [Poll -> 0 .. M] /\ idle \in [Poll -> 0 .. MaxTurn]
    <2>1. 0 \in 0 .. M - 1 /\ 0 \in 0 .. M /\ 0 \in 0 .. MaxTurn
      BY Constants, SMT
    <2> QED
      BY <2>1, Zenon DEF Init
  <1>2. tick \in 0 .. M - 1 /\ count \in 0 .. Turns - 1 /\ next \in 1 .. N + 1
    BY Constants, SMT DEF Init
  <1>3. TypeOK
    BY <1>1, <1>2, Zenon DEF Init, TypeOK
  <1>4. AgeInv
    BY Constants, SMT DEF Init, AgeInv, Elapsed
  <1> QED
    BY <1>3, <1>4, Zenon DEF Init, ClockInv, IdleInv

\* One entry of a table is written.
LEMMA Written ==
    ASSUME NEW S, NEW T, NEW f \in [S -> T], NEW k \in S, NEW v \in T
    PROVE  /\ [f EXCEPT ![k] = v] \in [S -> T]
           /\ [f EXCEPT ![k] = v][k] = v
           /\ \A j \in S : j # k => [f EXCEPT ![k] = v][j] = f[j]
  BY Zenon

\* A tick keeps the invariant.
LEMMA TickKeeps == ClockInv /\ Tick => ClockInv'
  <1> SUFFICES ASSUME ClockInv, Tick PROVE ClockInv'
    OBVIOUS
  <1> USE DEF ClockInv
  <1>1. /\ tick \in 0 .. M - 1 /\ MaxTurn \in Nat /\ M \in Nat
        /\ \A p \in Poll : /\ prev[p] \in 0 .. M - 1
                           /\ age[p] \in 0 .. M
                           /\ idle[p] \in 0 .. MaxTurn
    BY Constants, Zenon DEF TypeOK
  <1>2. \A p \in Poll :
           /\ age'[p] = IF age[p] < M THEN age[p] + 1 ELSE M
           /\ idle'[p] = IF pc = "loop" /\ p \in Required
                         THEN idle[p] + 1 ELSE idle[p]
    BY Zenon DEF Tick
  <1>3. \A p \in Poll : age'[p] \in 0 .. M /\ idle'[p] \in 0 .. MaxTurn
    <2> TAKE p \in Poll
    <2>1. pc = "loop" /\ p \in Required => idle[p] < MaxTurn
      BY DEF Tick
    <2> QED
      BY <1>1, <1>2, <2>1, SMT
  <1>4. TypeOK'
    <2>1. age' \in [Poll -> 0 .. M] /\ idle' \in [Poll -> 0 .. MaxTurn]
      BY <1>2, <1>3, Zenon DEF Tick
    <2>2. tick' \in 0 .. M - 1
      BY <1>1, ElapsedTick DEF Tick
    <2> QED
      BY <2>1, <2>2, Zenon DEF Tick, TypeOK
  <1>5. AgeInv'
    <2> SUFFICES ASSUME NEW p \in Poll
                 PROVE  /\ Elapsed(tick', prev[p]) <= age'[p]
                        /\ age'[p] < M => age'[p] = Elapsed(tick', prev[p])
      BY DEF AgeInv, Tick
    <2>1. \/ Elapsed(tick', prev[p]) = Elapsed(tick, prev[p]) + 1
          \/ Elapsed(tick', prev[p]) = 0 /\ Elapsed(tick, prev[p]) = M - 1
      BY <1>1, ElapsedTick DEF Tick
    <2>2. Elapsed(tick, prev[p]) \in 0 .. M - 1
      BY <1>1, ElapsedRange
    <2>3. /\ Elapsed(tick, prev[p]) <= age[p]
          /\ age[p] < M => age[p] = Elapsed(tick, prev[p])
      BY DEF AgeInv
    <2> QED
      BY <1>1, <1>2, <2>1, <2>2, <2>3, SMT
  <1>6. IdleInv'
    <2>1. pc' = "init" => due' = {}
      BY DEF IdleInv, Tick
    <2>2. ASSUME pc' = "loop", NEW p \in due' \ Optional,
                 p = Save => saveDelay' = Period[p]
          PROVE  age'[p] < Period[p] + idle'[p]
      <3>1. p \in Poll /\ p \in Required /\ pc = "loop"
            /\ age[p] < Period[p] + idle[p]
        BY <2>2, Zenon DEF IdleInv, Tick, TypeOK, Required
      <3> QED
        BY <3>1, <1>1, <1>2, Constants, SMT
    <2> QED
      BY <2>1, <2>2 DEF IdleInv
  <1> QED
    BY <1>4, <1>5, <1>6

\* The test of a poll keeps the invariant.
LEMMA TestKeeps == \A p \in Poll : ClockInv /\ Test(p) => ClockInv'
  <1> SUFFICES ASSUME NEW p \in Poll, ClockInv, Test(p) PROVE ClockInv'
    OBVIOUS
  <1> USE DEF ClockInv
  <1>1. /\ tick \in 0 .. M - 1 /\ MaxTurn \in Nat /\ M \in Nat
        /\ \A q \in Poll : /\ prev[q] \in 0 .. M - 1
                           /\ age[q] \in 0 .. M
                           /\ idle[q] \in 0 .. MaxTurn
    BY Constants, Zenon DEF TypeOK
  <1>2. /\ idle' \in [Poll -> 0 .. MaxTurn] /\ idle'[p] = 0
        /\ \A q \in Poll : q # p => idle'[q] = idle[q]
    <2>1. 0 \in 0 .. MaxTurn
      BY Constants, SMT
    <2> QED
      BY <2>1, Written, Zenon DEF Test, TypeOK
  <1>3. next' \in 1 .. N + 1
    BY Constants, SMT DEF Test, Poll
  <1>4. CASE NotDue(p)
    <2>1. TypeOK' /\ AgeInv'
      BY <1>2, <1>3, <1>4, Zenon DEF Test, NotDue, TypeOK, AgeInv
    <2>2. ASSUME pc' = "loop", NEW q \in due' \ Optional,
                 q = Save => saveDelay' = Period[q]
          PROVE  age'[q] < Period[q] + idle'[q]
      <3>1. /\ q \in Poll /\ age' = age /\ age[q] < Period[q] + idle[q]
            /\ q = Save => saveDelay = Period[q]
        BY <1>4, <2>2, Zenon DEF IdleInv, Test, NotDue, TypeOK
      <3>2. CASE q # p
        BY <3>1, <3>2, <1>2
      <3>3. CASE q = p
        <4>1. Elapsed(tick, prev[p]) < Period[p]
          BY <3>1, <3>3, <1>4 DEF NotDue, PeriodOf
        <4>2. age[p] < M
          BY <3>1, <3>3, <1>1, Constants, SMT
        <4>3. age[p] = Elapsed(tick, prev[p])
          BY <4>2 DEF AgeInv
        <4> QED
          BY <3>1, <3>3, <4>1, <4>3, <1>1, <1>2, Constants, SMT
      <3> QED
        BY <3>2, <3>3
    <2> QED
      BY <2>1, <2>2 DEF IdleInv, Test
  <1>5. CASE Due(p)
    <2>1. /\ prev' \in [Poll -> 0 .. M - 1] /\ prev'[p] = tick
          /\ \A q \in Poll : q # p => prev'[q] = prev[q]
      BY <1>1, <1>5, Written, Zenon DEF Due, TypeOK
    <2>2. /\ age' \in [Poll -> 0 .. M] /\ age'[p] = 0
          /\ \A q \in Poll : q # p => age'[q] = age[q]
      <3>1. 0 \in 0 .. M
        BY <1>1, SMT
      <3> QED
        BY <3>1, <1>5, Written, Zenon DEF Due, TypeOK
    <2>3. TypeOK'
      BY <1>2, <1>3, <1>5, <2>1, <2>2, Zenon DEF Test, Due, TypeOK
    <2>4. AgeInv'
      <3> SUFFICES ASSUME NEW q \in Poll
                   PROVE  /\ Elapsed(tick, prev'[q]) <= age'[q]
                          /\ age'[q] < M => age'[q] = Elapsed(tick, prev'[q])
        BY DEF AgeInv, Test
      <3>1. CASE q # p
        BY <3>1, <2>1, <2>2 DEF AgeInv
      <3>2. CASE q = p
        BY <3>2, <2>1, <2>2, <1>1, SMT DEF Elapsed
      <3> QED
        BY <3>1, <3>2
    <2>5. ASSUME pc' = "loop", NEW q \in due' \ Optional,
                 q = Save => saveDelay' = Period[q]
          PROVE  age'[q] < Period[q] + idle'[q]
      <3>1. CASE q # p
        <4>1. q \in due \ Optional /\ pc = "loop"
          BY <3>1, <2>5, <1>5, Zenon DEF Test, Due
        <4> QED
          BY <3>1, <4>1, <1>2, <2>2, <2>5, Zenon DEF IdleInv, TypeOK, Test
      <3>2. CASE q = p
        BY <3>2, <2>2, <1>2, Constants, SMT
      <3> QED
        BY <3>1, <3>2
    <2> QED
      BY <2>3, <2>4, <2>5 DEF IdleInv, Test
  <1> QED
    BY <1>4, <1>5 DEF Test

\* Every step keeps the invariant.
LEMMA ClockKept == ClockInv /\ [Next]_vars => ClockInv'
  <1> SUFFICES ASSUME ClockInv, [Next]_vars PROVE ClockInv'
    OBVIOUS
  <1> USE DEF ClockInv
  <1>1. CASE Tick
    BY <1>1, TickKeeps
  <1>2. ASSUME NEW p \in Poll, Test(p) PROVE ClockInv'
    BY <1>2, TestKeeps
  <1>3. CASE StartLoop
    <2>1. idle' \in [Poll -> 0 .. MaxTurn]
      <3>1. 0 \in 0 .. MaxTurn
        BY Constants, SMT
      <3> QED
        BY <1>3, <3>1, Zenon DEF StartLoop
    <2>2. next' \in 1 .. N + 1 /\ count' \in 0 .. Turns - 1
      BY <1>3, Constants, CountRange, SMT DEF StartLoop, TypeOK
    <2> QED
      BY <1>3, <2>1, <2>2, Zenon
         DEF StartLoop, TypeOK, AgeInv, IdleInv
  <1>4. ASSUME NEW p \in Poll, Skip(p) PROVE ClockInv'
    <2>1. next' \in 1 .. N + 1
      BY <1>4, Constants, SMT DEF Skip, Poll
    <2> QED
      BY <1>4, <2>1, Zenon DEF Skip, TypeOK, AgeInv, IdleInv, history
  <1>5. CASE Eject
    <2>1. ASSUME NEW p \in due \ Optional, p = Save => Never = Period[p],
                 pc = "loop"
          PROVE  age[p] < Period[p] + idle[p]
      <3>1. p \in Poll /\ (p = Save => saveDelay = Period[p])
        BY <2>1, Zenon DEF TypeOK
      <3> QED
        BY <2>1, <3>1 DEF IdleInv
    <2> QED
      BY <1>5, <2>1, Zenon DEF Eject, TypeOK, AgeInv, IdleInv, history
  <1>6. CASE Turn
    <2>1. next' \in 1 .. N + 1 /\ count' \in 0 .. Turns - 1
      BY <1>6, Constants, CountRange, SMT DEF Turn, TypeOK
    <2>2. pc' \in {"loop", "returned"} /\ pc = "loop"
      BY <1>6 DEF Turn
    <2> QED
      BY <1>6, <2>1, <2>2, Zenon DEF Turn, TypeOK, AgeInv, IdleInv, history
  <1>7. CASE UNCHANGED vars
    BY <1>7, Zenon DEF vars, history, TypeOK, AgeInv, IdleInv
  <1> QED
    BY <1>1, <1>2, <1>3, <1>4, <1>5, <1>6, <1>7 DEF Next

\* ClockInv holds in every reachable state.
LEMMA ClockAlways == Spec => []ClockInv
  BY ClockInit, ClockKept, PTL DEF Spec

\* Type correctness, for every instance.
THEOREM PollTypes == Spec => []TypeOK
  <1>1. ClockInv => TypeOK
    BY DEF ClockInv
  <1> QED
    BY <1>1, ClockAlways, PTL

\* The polls of the loop are on time, whatever the tick does.
THEOREM PollsOnTime == Spec => []OnTime
  <1>1. ClockInv => OnTime
    <2> SUFFICES ASSUME ClockInv, pc = "loop", NEW p \in due \ Optional,
                        p = Save => saveDelay = Period[p]
                 PROVE  age[p] < Period[p] + MaxTurn
      BY DEF OnTime
    <2>1. /\ p \in Poll /\ age[p] < Period[p] + idle[p]
          /\ idle[p] \in 0 .. MaxTurn /\ age[p] \in 0 .. M
      BY Zenon DEF ClockInv, IdleInv, TypeOK
    <2> QED
      BY <2>1, Constants, SMT
  <1> QED
    BY <1>1, ClockAlways, PTL

\* The tests of the polls: no poll is due before its period has passed.
THEOREM PollsNotEarly == Spec => PeriodKept
  <1>1. ASSUME ClockInv, Next, NEW p \in Poll, age'[p] < age[p]
        PROVE  age[p] >= PeriodOf(p)
    <2>1. age[p] \in 0 .. M /\ prev[p] \in 0 .. M - 1 /\ M \in Nat
      BY <1>1, Constants, Zenon DEF ClockInv, TypeOK
    <2>2. Elapsed(tick, prev[p]) <= age[p]
      BY <1>1 DEF ClockInv, AgeInv
    <2>3. Elapsed(tick, prev[p]) \in 0 .. M - 1
      BY <1>1, <2>1, ElapsedRange DEF ClockInv, TypeOK
    <2>4. PeriodOf(p) \in Nat
      BY <1>1, Constants, SMT DEF ClockInv, TypeOK, PeriodOf, Never
    <2>5. CASE Tick
      BY <1>1, <2>1, <2>5, SMT DEF Tick
    <2>6. ASSUME NEW q \in Poll, Test(q) PROVE age[p] >= PeriodOf(p)
      <3>1. Due(p)
        BY <1>1, <2>1, <2>6, SMT DEF Test, NotDue, Due, ClockInv, TypeOK
      <3> QED
        BY <3>1, <2>1, <2>2, <2>3, <2>4, SMT DEF Due
    <2>7. CASE StartLoop \/ Eject \/ Turn \/ \E q \in Poll : Skip(q)
      BY <1>1, <2>1, <2>7, SMT DEF StartLoop, Eject, Turn, Skip, history
    <2> QED
      BY <1>1, <2>5, <2>6, <2>7 DEF Next
  <1>2. ClockInv /\ [Next]_vars
        => [\A p \in Poll : age'[p] < age[p] => age[p] >= PeriodOf(p)]_vars
    BY <1>1
  <1> QED
    BY <1>2, ClockAlways, PTL DEF Spec, PeriodKept

=============================================================================
