------------------------------ MODULE Sensors -------------------------------
(***************************************************************************)
(* The I2C sensors of the station and their device structures on the heap: *)
(* mainFuncInit and the my_..._test functions of main.c, my_..._init,      *)
(* my_..._get_data and my_..._destroy of i2c_HMC5883L.c, i2c_BME280.c and  *)
(* i2c_LTR390.c, and rt_malloc and rt_free of the kernel.                  *)
(*                                                                         *)
(* The heap is a set of blocks, each big enough for any request.  A block  *)
(* that is freed keeps its contents until it is allocated again.  Others   *)
(* (the file system, the shell, the log) allocate and free blocks whenever *)
(* the main thread lets them, or on its behalf.                            *)
(***************************************************************************)
EXTENDS Naturals, FiniteSets

CONSTANTS
    N,          \* the sensors are 1 .. N: HMC5883L, BME280 and LTR390
    Heap,       \* the blocks of the heap
    MaxOther    \* blocks others hold at a time

ASSUME SensorsAssumption ==
    /\ N \in Nat /\ N > 0 /\ MaxOther \in Nat
    /\ IsFiniteSet(Heap) /\ "null" \notin Heap

VARIABLES
    pc,         \* "init", "loop", or "halted" in an assertion or a fault
    next,       \* the sensor the main thread comes to next
    ok,         \* initStatus == RT_EOK
    ptr,        \* hmc5883l, bme280, ltr390
    mem,        \* the used flag of each block
    holds,      \* whose data is in each block, freed or not
    others,     \* the blocks others have allocated
    works,      \* what answers: sensors, and 0 for the camera and the card
    fragile     \* whether the sensors may fail once the station runs

heapVars == <<mem, holds, others>>
worldVars == <<works, fragile>>
vars == <<pc, next, ok, ptr, heapVars, worldVars>>

Null  == "null"     \* RT_NULL
Other == 0          \* in holds: data of the others

Sensor == 1 .. N
Free == {b \in Heap : ~mem[b]}

Init ==
    /\ pc = "init" /\ next = 1 /\ ok = TRUE
    /\ ptr = [s \in Sensor |-> Null]
    /\ mem = [b \in Heap |-> FALSE]
    /\ holds = [b \in Heap |-> Other]
    /\ others = {}
    /\ works \in SUBSET (Sensor \cup {0}) /\ fragile \in BOOLEAN

-----------------------------------------------------------------------------
(* mainFuncInit *)

\* my_..._init: the structure is allocated, and kept if the sensor answers.
\* The pointer of an earlier attempt is overwritten.
InitFound(s) ==
    /\ s \in works
    /\ \E b \in Free :
          /\ ptr' = [ptr EXCEPT ![s] = b]
          /\ mem' = [mem EXCEPT ![b] = TRUE]
          /\ holds' = [holds EXCEPT ![b] = s]
    /\ UNCHANGED ok

\* Faulty variant: the structure is freed, and returned all the same.
InitFailedDangling(s) ==
    /\ s \notin works \/ Free = {}
    /\ ptr' = [ptr EXCEPT ![s] = IF Free = {} THEN Null
                                 ELSE CHOOSE b \in Free : TRUE]
    /\ ok' = FALSE
    /\ UNCHANGED <<mem, holds>>

\* No memory, or rt_free and RT_NULL because the sensor does not answer.
InitFailed(s) ==
    /\ s \notin works \/ Free = {}
    /\ ptr' = [ptr EXCEPT ![s] = Null]
    /\ ok' = FALSE
    /\ UNCHANGED <<mem, holds>>

InitSensor ==
    /\ pc = "init" /\ next <= N /\ next' = next + 1
    /\ InitFound(next) \/ InitFailed(next)
    /\ UNCHANGED <<pc, others, worldVars>>

\* Faulty variant: the station starts although a sensor is missing.
InitRestAnyway ==
    /\ pc = "init" /\ next > N /\ next' = 1
    /\ ok' = TRUE
    /\ pc' = IF 0 \in works THEN "loop" ELSE "init"
    /\ UNCHANGED <<ptr, heapVars, worldVars>>

\* Faulty variant: a repeat starts with the status of the attempt before.
InitRestRemembers ==
    /\ pc = "init" /\ next > N /\ next' = 1
    /\ UNCHANGED ok
    /\ pc' = IF ok /\ 0 \in works THEN "loop" ELSE "init"
    /\ UNCHANGED <<ptr, heapVars, worldVars>>

\* The camera and the card; main repeats mainFuncInit until all is well.
InitRest ==
    /\ pc = "init" /\ next > N /\ next' = 1
    /\ ok' = TRUE
    /\ pc' = IF ok /\ 0 \in works THEN "loop" ELSE "init"
    /\ UNCHANGED <<ptr, heapVars, worldVars>>

-----------------------------------------------------------------------------
(* The loop of main *)

\* rt_free: an assertion holds the thread if the block is not in use.
RtFree(b) ==
    IF mem[b] THEN mem' = [mem EXCEPT ![b] = FALSE] /\ UNCHANGED pc
    ELSE pc' = "halted" /\ UNCHANGED mem

\* The sensor answers for the whole of a read.
Answers(s) == s \in works \/ ~fragile

Turn(s) == pc = "loop" /\ next = s /\ next' = (s % N) + 1

\* The delay of the sensor has not passed, or it has no structure.
Skip(s) ==
    /\ Turn(s)
    /\ UNCHANGED <<pc, ok, ptr, heapVars, worldVars>>

\* my_..._get_data through a structure that is there, freed or not.
ReadDone(s) ==
    /\ Turn(s)
    /\ ptr[s] # Null /\ holds[ptr[s]] = s /\ Answers(s)
    /\ UNCHANGED <<pc, ok, ptr, heapVars, worldVars>>

\* Faulty variant: the structure of the first sensor is destroyed.
ReadFailedFirst(s) ==
    /\ Turn(s)
    /\ ptr[s] # Null
    /\ holds[ptr[s]] # s \/ ~Answers(s)
    /\ RtFree(ptr[1])
    /\ UNCHANGED <<ok, ptr, holds, others, worldVars>>

\* my_..._get_data fails, and my_..._destroy is called.  Through a structure
\* overwritten by others it may fail in any case.
ReadFailed(s) ==
    /\ Turn(s)
    /\ ptr[s] # Null
    /\ holds[ptr[s]] # s \/ ~Answers(s)
    /\ RtFree(ptr[s])
    /\ UNCHANGED <<ok, ptr, holds, others, worldVars>>

\* ... or dev->bus, overwritten, is no address: a bus fault.
ReadFault(s) ==
    /\ Turn(s)
    /\ ptr[s] # Null /\ holds[ptr[s]] # s
    /\ pc' = "halted"
    /\ UNCHANGED <<ok, ptr, heapVars, worldVars>>

-----------------------------------------------------------------------------
(* The others, and the world *)

OtherAlloc ==
    /\ pc # "halted" /\ Cardinality(others) < MaxOther
    /\ \E b \in Free :
          /\ mem' = [mem EXCEPT ![b] = TRUE]
          /\ holds' = [holds EXCEPT ![b] = Other]
          /\ others' = others \cup {b}
    /\ UNCHANGED <<pc, next, ok, ptr, worldVars>>

OtherFree ==
    /\ pc # "halted"
    /\ \E b \in others : RtFree(b) /\ others' = others \ {b}
    /\ UNCHANGED <<next, ok, ptr, holds, worldVars>>

\* A sensor, the camera or the card is plugged, unplugged or disturbed.
Disturb ==
    /\ pc # "halted"
    /\ works' \in SUBSET (Sensor \cup {0})
    /\ UNCHANGED <<pc, next, ok, ptr, heapVars, fragile>>

-----------------------------------------------------------------------------
MainThread ==
    \/ InitSensor \/ InitRest
    \/ \E s \in Sensor :
          Skip(s) \/ ReadDone(s) \/ ReadFailed(s) \/ ReadFault(s)

Next == MainThread \/ OtherAlloc \/ OtherFree \/ Disturb

\* The main thread keeps running until it is halted.
Spec == Init /\ [][Next]_vars /\ WF_vars(MainThread)

-----------------------------------------------------------------------------
(* Properties *)

\* Type invariant: the loop never runs past the last sensor.
TypeOK ==
    /\ pc \in {"init", "loop", "halted"}
    /\ next \in 1 .. N + 1 /\ (pc # "init" => next <= N)
    /\ ok \in BOOLEAN
    /\ ptr \in [Sensor -> Heap \cup {Null}]
    /\ mem \in [Heap -> BOOLEAN] /\ holds \in [Heap -> Sensor \cup {Other}]
    /\ others \subseteq Heap
    /\ works \subseteq Sensor \cup {0} /\ fragile \in BOOLEAN

\* Whose structure a pointer leads to.
Alive(s) ==
    ptr[s] # Null /\ mem[ptr[s]] /\ holds[ptr[s]] = s /\ ptr[s] \notin others

\* No two sensors ever share a structure, however often the initialisation
\* is repeated and whatever is freed in between.
NoAlias ==
    \A s, t \in Sensor : s # t /\ ptr[s] # Null => ptr[s] # ptr[t]

\* The station only starts with a structure for every sensor, and as long as
\* no sensor fails it keeps them all and is never halted.
AllAlive ==
    pc # "init" /\ ~fragile => pc = "loop" /\ \A s \in Sensor : Alive(s)

\* Once the station runs, the structure of a sensor dies of a failed read of
\* that sensor and of nothing else: not of another sensor's failures, and
\* not of what the others do with blocks that were freed under them.
OwnFailureOnly ==
    [][pc = "loop" =>
         \A s \in Sensor : Alive(s) => Alive(s)' \/ ReadFailed(s)]_vars

\* main repeats mainFuncInit until it succeeds.  Whatever the attempts before
\* have left, an attempt that finds room for its structures, and everything
\* answering for good, lets the station start.  Each repeat takes some of that
\* room: nothing frees the structures of the sensors that answered before.
StartsWithRoom ==
    [](/\ pc = "init" /\ next = 1 /\ Cardinality(Free) >= N + MaxOther
       /\ [](works = Sensor \cup {0})
       => <>(pc = "loop"))

-----------------------------------------------------------------------------
(* What the guards and assertions of the program say of it. *)

\* "... which has to be in a used state ...", RT_ASSERT(mem->used): rt_free
\* is called for a structure that is in use.
FreedOnce ==
    [][\A s \in Sensor : ReadFailed(s) => mem[ptr[s]]]_vars
=============================================================================
