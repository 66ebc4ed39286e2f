------------------------------- MODULE Polls --------------------------------
(***************************************************************************)
(* The periods of the main loop: the loop of main() in main.c, the tests   *)
(* curr - prev >= DELAY of its polls (the three I2C sensors, the two       *)
(* analogue ones, the automatic save, "This is main") and of the page      *)
(* DISP_DATA, SD_CARD_eject as far as it changes one of the periods, and   *)
(* rt_tick_increase and rt_tick_get_millisecond of the kernel.             *)
(*                                                                         *)
(* The tick counts milliseconds and wraps, as do curr and prev.  What a    *)
(* poll does when it is due is in the modules of the parts it calls.       *)
(***************************************************************************)
EXTENDS Integers

CONSTANTS
    M,          \* values of the tick, 2^32 in the code
    Turns,      \* values of count in main(), 2^32 in the code
    N,          \* the polls are 1 .. N, in the order of the loop
    Save,       \* the poll of the automatic save
    Optional,   \* the polls on pages that are not always shown
    Period,     \* the DELAY of each poll
    MaxTurn     \* bound: the longest turn, from one test of a poll to the next

Poll == 1 .. N

ASSUME PollsAssumption ==
    /\ M \in Nat /\ N \in Nat /\ Turns \in Nat /\ MaxTurn \in Nat
    /\ Turns > 1 /\ Save \in Poll /\ Optional \subseteq Poll \ {Save}
    /\ Period \in [Poll -> Nat]
    /\ \A p \in Poll : 0 < Period[p] /\ Period[p] + MaxTurn < M

VARIABLES
    tick,       \* rt_tick
    prev,       \* ..._prev_milli of each poll
    saveDelay,  \* DATA_DELAY
    count,      \* the variable of the loop, as an unsigned number
    pc,         \* "init", "loop", or "returned" from main
    next,       \* the poll to test next; N + 1 in the rest of mainFunc
    \* history variables
    age,        \* the time since each poll was last due, or since the reset,
                \* counted up to M
    idle,       \* the time since each poll was last tested, up to MaxTurn
    due         \* the polls that have been due

history == <<age, idle, due>>
vars == <<tick, prev, saveDelay, count, pc, next, history>>

Required == Poll \ Optional

\* UINT32_MAX, the period of the automatic save after SD_CARD_eject.
Never == M - 1

PeriodOf(p) == IF p = Save THEN saveDelay ELSE Period[p]

Init ==
    /\ tick = 0
    /\ prev = [p \in Poll |-> 0]
    /\ saveDelay = Period[Save]
    /\ count = 1
    /\ pc = "init" /\ next = 1
    /\ age = [p \in Poll |-> 0]
    /\ idle = [p \in Poll |-> 0]
    /\ due = {}

-----------------------------------------------------------------------------
(* The clock *)

\* rt_tick_increase, while the loop runs no slower than MaxTurn.
Tick ==
    /\ pc = "loop" => \A p \in Required : idle[p] < MaxTurn
    /\ tick' = (tick + 1) % M
    /\ age' = [p \in Poll |-> IF age[p] < M THEN age[p] + 1 ELSE M]
    /\ idle' = [p \in Poll |->
                    IF pc = "loop" /\ p \in Required THEN idle[p] + 1
                    ELSE idle[p]]
    /\ UNCHANGED <<prev, saveDelay, count, pc, next, due>>

\* Faulty variant: the difference is taken as a magnitude.
ElapsedMagnitude(curr, last) ==
    IF curr >= last THEN curr - last ELSE last - curr

\* Faulty variant: the difference is a signed number, negative after a wrap.
ElapsedSigned(curr, last) == curr - last

\* curr - prev, unsigned
Elapsed(curr, last) ==
    IF curr >= last THEN curr - last ELSE curr - last + M

-----------------------------------------------------------------------------
(* The loop *)

\* The first test of while (count++), when mainFuncInit has succeeded.
StartLoop ==
    /\ pc = "init"
    /\ pc' = "loop" /\ next' = 1
    /\ count' = (count + 1) % Turns
    /\ idle' = [p \in Poll |-> 0]
    /\ UNCHANGED <<tick, prev, saveDelay, age, due>>

\* The test fails: nothing is assigned but curr.
NotDue(p) ==
    /\ Elapsed(tick, prev[p]) < PeriodOf(p)
    /\ UNCHANGED <<prev, age, due>>

\* The test succeeds: prev = curr, and the poll does its work.
Due(p) ==
    /\ Elapsed(tick, prev[p]) >= PeriodOf(p)
    /\ prev' = [prev EXCEPT ![p] = tick]
    /\ age' = [age EXCEPT ![p] = 0]
    /\ due' = due \cup {p}

\* my_..._test, the test of "This is main", and that of DISP_DATA
Test(p) ==
    /\ pc = "loop" /\ next = p
    /\ NotDue(p) \/ Due(p)
    /\ idle' = [idle EXCEPT ![p] = 0]
    /\ next' = p + 1
    /\ UNCHANGED <<tick, saveDelay, count, pc>>

\* mainFunc is on another page, or has just drawn this one: DISP_DATA_task
\* compares prev with curr where it means to assign it.
Skip(p) ==
    /\ pc = "loop" /\ next = p /\ p \in Optional
    /\ next' = p + 1
    /\ UNCHANGED <<tick, prev, saveDelay, count, pc, history>>

\* SD_CARD_eject, called by mainFunc
Eject ==
    /\ pc = "loop" /\ next = N + 1
    /\ saveDelay' = Never
    /\ UNCHANGED <<tick, prev, count, pc, next, history>>

\* while (count++): main returns when count has come round to 0.
Turn ==
    /\ pc = "loop" /\ next = N + 1
    /\ pc' = IF count = 0 THEN "returned" ELSE "loop"
    /\ count' = (count + 1) % Turns
    /\ next' = 1
    /\ UNCHANGED <<tick, prev, saveDelay, history>>

Next ==
    \/ Tick
    \/ StartLoop
    \/ \E p \in Poll : Test(p) \/ Skip(p)
    \/ Eject
    \/ Turn

Spec == Init /\ [][Next]_vars

-----------------------------------------------------------------------------
(* Properties *)

\* Every variable has its type.
TypeOK ==
    /\ tick \in 0 .. M - 1
    /\ prev \in [Poll -> 0 .. M - 1]
    /\ saveDelay \in {Period[Save], Never}
    /\ count \in 0 .. Turns - 1
    /\ pc \in {"init", "loop", "returned"}
    /\ next \in 1 .. N + 1
    /\ age \in [Poll -> 0 .. M]
    /\ idle \in [Poll -> 0 .. MaxTurn]
    /\ due \subseteq Poll

\* The tests of the polls: from one time a poll is due to the next its period
\* really passes, also when the tick wraps in between and however seldom the
\* page is shown; after SD_CARD_eject no save is due for 2^32 - 1 ms.
PeriodKept ==
    [][\A p \in Poll : age'[p] < age[p] => age[p] >= PeriodOf(p)]_vars

\* The polls of the loop: as long as main has not returned, no poll that has
\* been due once stays away for longer than its period and one turn, so that
\* no wrap of the tick makes a reading older than that.
OnTime ==
    pc = "loop" =>
        \A p \in due \ Optional :
            (p = Save => saveDelay = Period[p])
            => age[p] < Period[p] + MaxTurn

=============================================================================
