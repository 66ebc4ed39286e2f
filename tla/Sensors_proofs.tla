--------------------------- MODULE Sensors_proofs ---------------------------
(***************************************************************************)
(* Proofs about Sensors, for any number of sensors and any finite heap.    *)
(*                                                                         *)
(* During the initialisation every pointer that is not RT_NULL leads to a  *)
(* structure of its own sensor (InitHeld), which is what keeps two sensors *)
(* from sharing one: a structure holds the data of one sensor.  The loop   *)
(* changes no pointer.  When no sensor fails, the same holds in the loop.  *)
(*                                                                         *)
(* That an attempt with room succeeds rests on counting: what the others   *)
(* allocate they can only give back, so that the blocks that are free or   *)
(* theirs are taken by the structures alone, one each (Room).              *)
(***************************************************************************)
EXTENDS Sensors, FiniteSetTheorems, TLAPS

\* A pointer that is set leads to the sensor's own structure.
Held == \A s \in Sensor : ptr[s] # Null => Alive(s)

\* The others free only what is in use.
OthersUsed == \A b \in others : mem[b]

\* Every sensor that has been passed was found, if none has failed yet.
Passed == ok => \A s \in Sensor : s < next => ptr[s] # Null

InitHeld == pc = "init" => Held /\ OthersUsed /\ Passed

\* The inductive invariant.
IndInv == TypeOK /\ NoAlias /\ InitHeld

\* The inductive invariant when no sensor fails.
SolidInv ==
    TypeOK /\ InitHeld /\ AllAlive /\ (~fragile => OthersUsed)

-----------------------------------------------------------------------------
\* Type invariant: it holds at the start.
LEMMA SensorsInit == Init => IndInv /\ SolidInv
  BY SensorsAssumption, SMT
     DEF Init, IndInv, SolidInv, TypeOK, NoAlias, InitHeld, Held, OthersUsed,
         Passed, AllAlive, Alive, Sensor, Null, Other

\* Writing one used flag leaves a set of used flags.
LEMMA FlagWritten ==
    ASSUME NEW S, NEW f \in [S -> BOOLEAN], NEW b, NEW v \in BOOLEAN
    PROVE  [f EXCEPT ![b] = v] \in [S -> BOOLEAN]
  BY Zenon

\* Writing one entry of a table leaves a table.
LEMMA EntryWritten ==
    ASSUME NEW S, NEW T, NEW f \in [S -> T], NEW b, NEW v \in T
    PROVE  [f EXCEPT ![b] = v] \in [S -> T]
  BY Zenon

\* rt_free leaves the heap well formed, and only ever stops the thread.
LEMMA RtFreeType ==
    ASSUME mem \in [Heap -> BOOLEAN], pc \in {"init", "loop", "halted"},
           NEW b, RtFree(b)
    PROVE  /\ mem' \in [Heap -> BOOLEAN]
           /\ pc' \in {pc, "halted"}
  BY FlagWritten DEF RtFree

\* Every step keeps the type invariant: until the loop starts the others
\* never free a block twice, so that nothing stops the thread past sensor N.
LEMMA TypeKept == TypeOK /\ InitHeld /\ [Next]_vars => TypeOK'
  <1> SUFFICES ASSUME TypeOK, InitHeld, [Next]_vars PROVE TypeOK'
    OBVIOUS
  <1> USE DEF TypeOK, worldVars
  <1>1. CASE InitSensor
    <2>1. /\ next' \in 1 .. N + 1 /\ pc' = "init" /\ pc = "init"
          /\ others' = others /\ works' = works /\ fragile' = fragile
          /\ next \in Sensor
      BY <1>1, SensorsAssumption, SMT DEF InitSensor, Sensor
    <2>2. CASE InitFound(next)
      <3>1. PICK b \in Free : /\ ptr' = [ptr EXCEPT ![next] = b]
                              /\ mem' = [mem EXCEPT ![b] = TRUE]
                              /\ holds' = [holds EXCEPT ![b] = next]
        BY <2>2 DEF InitFound
      <3>2. b \in Heap \cup {Null} /\ next \in Sensor \cup {Other}
        BY <2>1 DEF Free
      <3>3. ptr' \in [Sensor -> Heap \cup {Null}]
        BY <3>1, <3>2, EntryWritten
      <3>4. mem' \in [Heap -> BOOLEAN]
        BY <3>1, FlagWritten
      <3>5. holds' \in [Heap -> Sensor \cup {Other}]
        BY <3>1, <3>2, EntryWritten
      <3>6. ok' \in BOOLEAN
        BY <2>2 DEF InitFound
      <3>7. QED
        BY <2>1, <3>3, <3>4, <3>5, <3>6
    <2>3. CASE InitFailed(next)
      <3>1. ptr' \in [Sensor -> Heap \cup {Null}]
        BY <2>3, EntryWritten DEF InitFailed
      <3>2. QED
        BY <2>1, <2>3, <3>1 DEF InitFailed
    <2>4. QED
      BY <1>1, <2>2, <2>3 DEF InitSensor
  <1>2. CASE InitRest
    <2>1. next' \in 1 .. N + 1 /\ next' <= N
      BY <1>2, SensorsAssumption, SMT DEF InitRest
    <2>2. pc' \in {"init", "loop", "halted"}
      BY <1>2 DEF InitRest
    <2>3. QED
      BY <1>2, <2>1, <2>2 DEF InitRest, heapVars
  <1>3. ASSUME NEW s \in Sensor,
               Skip(s) \/ ReadDone(s) \/ ReadFailed(s) \/ ReadFault(s)
        PROVE  TypeOK'
    <2>1. next' \in 1 .. N + 1 /\ next' <= N
      <3>1. next' = (s % N) + 1
        BY <1>3, Zenon DEF Skip, ReadDone, ReadFailed, ReadFault, Turn
      <3>2. QED
        BY <3>1, SensorsAssumption, SMT DEF Sensor
    <2>2. CASE Skip(s) \/ ReadDone(s) \/ ReadFault(s)
      BY <2>1, <2>2 DEF Skip, ReadDone, ReadFault, heapVars
    <2>3. CASE ReadFailed(s)
      <3>1. mem' \in [Heap -> BOOLEAN] /\ pc' \in {pc, "halted"}
        BY <2>3, RtFreeType, Zenon DEF ReadFailed
      <3>2. QED
        BY <2>1, <2>3, <3>1 DEF ReadFailed
    <2>4. QED
      BY <1>3, <2>2, <2>3
  <1>4. CASE OtherAlloc
    <2>1. PICK b \in Free : /\ mem' = [mem EXCEPT ![b] = TRUE]
                            /\ holds' = [holds EXCEPT ![b] = Other]
                            /\ others' = others \cup {b}
      BY <1>4 DEF OtherAlloc
    <2>2. mem' \in [Heap -> BOOLEAN]
      BY <2>1, FlagWritten
    <2>3. holds' \in [Heap -> Sensor \cup {Other}]
      BY <2>1, EntryWritten
    <2>4. others' \subseteq Heap
      BY <2>1 DEF Free
    <2>5. QED
      BY <1>4, <2>2, <2>3, <2>4 DEF OtherAlloc
  <1>5. CASE OtherFree
    <2>1. PICK b \in others : RtFree(b) /\ others' = others \ {b}
      BY <1>5 DEF OtherFree
    <2>2. mem' \in [Heap -> BOOLEAN] /\ pc' \in {pc, "halted"}
      BY <2>1, RtFreeType, Zenon
    <2>3. pc = "init" => pc' = pc
      BY <2>1, Zenon DEF RtFree, InitHeld, OthersUsed
    <2>4. QED
      BY <1>5, <2>1, <2>2, <2>3 DEF OtherFree
  <1>6. CASE Disturb
    BY <1>6 DEF Disturb, heapVars
  <1>7. CASE UNCHANGED vars
    BY <1>7 DEF vars, heapVars
  <1>8. QED
    BY <1>1, <1>2, <1>3, <1>4, <1>5, <1>6, <1>7 DEF Next, MainThread

-----------------------------------------------------------------------------
\* The heap during the initialisation.

\* A sensor is found: its new block was nobody's.
LEMMA FoundKeeps ==
    ASSUME TypeOK, Held, OthersUsed, Passed, next \in Sensor,
           InitFound(next), next' = next + 1, UNCHANGED others
    PROVE  Held' /\ OthersUsed' /\ Passed'
  <1>1. PICK b \in Free : /\ ptr' = [ptr EXCEPT ![next] = b]
                          /\ mem' = [mem EXCEPT ![b] = TRUE]
                          /\ holds' = [holds EXCEPT ![b] = next]
    BY DEF InitFound
  <1>2. b \in Heap /\ ~mem[b] /\ b \notin others /\ b # Null
    BY SensorsAssumption DEF Free, OthersUsed, Null
  <1>3. ASSUME NEW s \in Sensor, ptr'[s] # Null
        PROVE  Alive(s)'
    <2>1. CASE s = next
      BY <1>1, <1>2, <2>1, Zenon DEF Alive, TypeOK
    <2>2. CASE s # next
      <3>1. ptr'[s] = ptr[s] /\ Alive(s) /\ ptr[s] \in Heap
        BY <1>1, <1>3, <2>2, Zenon DEF Held, TypeOK
      <3>2. ptr[s] # b
        BY <1>2, <3>1 DEF Alive
      <3>3. QED
        BY <1>1, <3>1, <3>2, Zenon DEF Alive, TypeOK
    <2>3. QED
      BY <2>1, <2>2
  <1>4. OthersUsed'
    BY <1>1, <1>2, Zenon DEF OthersUsed, TypeOK
  <1>5. ASSUME ok', NEW s \in Sensor, s < next'
        PROVE  ptr'[s] # Null
    <2>1. CASE s = next
      BY <1>1, <1>2, <2>1, Zenon DEF TypeOK
    <2>2. CASE s # next
      <3>1. s < next
        BY <1>5, <2>2, SMT DEF Sensor
      <3>2. ok
        BY <1>5 DEF InitFound
      <3>3. ptr[s] # Null
        BY <3>1, <3>2 DEF Passed
      <3>4. QED
        BY <1>1, <2>2, <3>3, Zenon DEF TypeOK
    <2>3. QED
      BY <2>1, <2>2
  <1>6. QED
    BY <1>3, <1>4, <1>5, Zenon DEF Held, Passed

\* A sensor is not found: its pointer is RT_NULL, and the attempt has failed.
LEMMA FailedKeeps ==
    ASSUME TypeOK, Held, OthersUsed, next \in Sensor,
           InitFailed(next), UNCHANGED others
    PROVE  Held' /\ OthersUsed' /\ Passed'
  <1>1. ASSUME NEW s \in Sensor, ptr'[s] # Null
        PROVE  Alive(s)'
    <2>1. ptr'[s] = ptr[s] /\ Alive(s)
      BY <1>1, Zenon DEF InitFailed, Held, TypeOK
    <2>2. mem' = mem /\ holds' = holds /\ others' = others
      BY DEF InitFailed
    <2>3. QED
      BY <2>1, <2>2, Zenon DEF Alive
  <1>2. QED
    BY <1>1, Zenon DEF Held, OthersUsed, Passed, InitFailed

\* The others take a block that was nobody's: no structure is disturbed.
LEMMA AllocKeepsAlive ==
    ASSUME TypeOK, OtherAlloc, NEW s \in Sensor, Alive(s)
    PROVE  Alive(s)'
  <1>1. PICK b \in Free : /\ mem' = [mem EXCEPT ![b] = TRUE]
                          /\ holds' = [holds EXCEPT ![b] = Other]
                          /\ others' = others \cup {b}
    BY DEF OtherAlloc
  <1>2. ptr[s] # b /\ ptr[s] \in Heap /\ ptr' = ptr
    BY <1>1, Zenon DEF Free, Alive, OtherAlloc, TypeOK
  <1>3. QED
    BY <1>1, <1>2, Zenon DEF Alive, TypeOK

\* The others free a block of theirs: no structure is disturbed.
LEMMA FreeKeepsAlive ==
    ASSUME TypeOK, OtherFree, NEW s \in Sensor, Alive(s)
    PROVE  Alive(s)'
  <1>1. PICK b \in others : RtFree(b) /\ others' = others \ {b}
    BY DEF OtherFree
  <1>2. ptr[s] # b /\ ptr' = ptr /\ holds' = holds
    BY <1>1, Zenon DEF Alive, OtherFree
  <1>3. mem'[ptr[s]]
    BY <1>1, <1>2, Zenon DEF RtFree, Alive, TypeOK
  <1>4. QED
    BY <1>1, <1>2, <1>3, Zenon DEF Alive

\* What the others allocate and free stays in use as long as they hold it.
LEMMA OthersKept ==
    ASSUME TypeOK, OthersUsed, OtherAlloc \/ OtherFree
    PROVE  OthersUsed' /\ pc' = pc
  <1>1. CASE OtherAlloc
    <2>1. PICK b \in Free : /\ mem' = [mem EXCEPT ![b] = TRUE]
                            /\ others' = others \cup {b}
      BY <1>1 DEF OtherAlloc
    <2>2. OthersUsed'
      BY <2>1, Zenon DEF OthersUsed, TypeOK, Free
    <2>3. QED
      BY <1>1, <2>2 DEF OtherAlloc
  <1>2. CASE OtherFree
    BY <1>2, Zenon DEF OtherFree, RtFree, OthersUsed, TypeOK
  <1>3. QED
    BY <1>1, <1>2

\* Whatever happens during the initialisation, every pointer that is set
\* leads to a structure of its own sensor.
LEMMA InitKept == TypeOK /\ InitHeld /\ [Next]_vars => InitHeld'
  <1> SUFFICES ASSUME TypeOK, InitHeld, [Next]_vars, pc' = "init"
               PROVE  Held' /\ OthersUsed' /\ Passed'
    BY DEF InitHeld
  <1>1. CASE InitSensor
    <2>1. next \in Sensor
      BY <1>1, SensorsAssumption, SMT DEF InitSensor, Sensor, TypeOK
    <2>2. QED
      BY <1>1, <2>1, FoundKeeps, FailedKeeps DEF InitSensor, InitHeld
  <1>2. CASE InitRest
    <2>1. Held' /\ OthersUsed'
      BY <1>2, Zenon DEF InitRest, InitHeld, Held, OthersUsed, Alive, heapVars
    <2>2. \A s \in Sensor : ~(s < next')
      BY <1>2, SensorsAssumption, SMT DEF InitRest, Sensor
    <2>3. QED
      BY <2>1, <2>2, Zenon DEF Passed
  <1>3. ASSUME NEW s \in Sensor,
               Skip(s) \/ ReadDone(s) \/ ReadFailed(s) \/ ReadFault(s)
        PROVE  FALSE
    BY <1>3, Zenon DEF Skip, ReadDone, ReadFailed, ReadFault, Turn, RtFree
  <1>4. CASE OtherAlloc \/ OtherFree
    <2>1. pc = "init" /\ ptr' = ptr /\ next' = next /\ ok' = ok
      BY <1>4, Zenon DEF OtherAlloc, OtherFree, RtFree
    <2>2. Held /\ OthersUsed /\ Passed
      BY <2>1 DEF InitHeld
    <2>3. Held'
      BY <1>4, <2>1, <2>2, AllocKeepsAlive, FreeKeepsAlive, Zenon DEF Held
    <2>4. QED
      BY <1>4, <2>1, <2>2, <2>3, OthersKept, Zenon DEF Passed
  <1>5. CASE Disturb \/ UNCHANGED vars
    <2>1. /\ pc' = pc /\ next' = next /\ ok' = ok /\ ptr' = ptr
          /\ mem' = mem /\ holds' = holds /\ others' = others
      BY <1>5 DEF Disturb, vars, heapVars, worldVars
    <2>2. QED
      BY <2>1, Zenon DEF InitHeld, Held, OthersUsed, Passed, Alive
  <1>6. QED
    BY <1>1, <1>2, <1>3, <1>4, <1>5 DEF Next, MainThread

-----------------------------------------------------------------------------
\* Two sensors never share a structure: during the initialisation because
\* each structure holds the data of one sensor, later because no pointer
\* changes any more.
LEMMA NoAliasKept ==
    TypeOK /\ NoAlias /\ InitHeld /\ InitHeld' /\ [Next]_vars => NoAlias'
  <1> SUFFICES ASSUME TypeOK, NoAlias, InitHeld, InitHeld', [Next]_vars
               PROVE  NoAlias'
    OBVIOUS
  <1>1. CASE InitSensor
    <2>1. Held'
      BY <1>1 DEF InitSensor, InitHeld
    <2>2. QED
      BY <2>1, Zenon DEF Held, Alive, NoAlias
  <1>2. ASSUME ~InitSensor
        PROVE  ptr' = ptr
    BY <1>2, Zenon
       DEF Next, MainThread, InitRest, Skip, ReadDone, ReadFailed, ReadFault,
           OtherAlloc, OtherFree, Disturb, vars
  <1>3. QED
    BY <1>1, <1>2, Zenon DEF NoAlias

\* The inductive invariant is kept by every step.
LEMMA IndKept == IndInv /\ [Next]_vars => IndInv'
  BY TypeKept, InitKept, NoAliasKept DEF IndInv

\* Type invariant: the loop never runs past the last sensor, and every
\* pointer leads to a block of the heap or nowhere.
THEOREM SensorTypes == Spec => []TypeOK
  <1>1. IndInv => TypeOK
    BY DEF IndInv
  <1>2. QED
    BY <1>1, SensorsInit, IndKept, PTL DEF Spec

\* No two sensors ever share a structure.
THEOREM NoAliasHolds == Spec => []NoAlias
  <1>1. IndInv => NoAlias
    BY DEF IndInv
  <1>2. QED
    BY <1>1, SensorsInit, IndKept, PTL DEF Spec

-----------------------------------------------------------------------------
\* In the loop only the main thread's own failed read of a sensor ends the
\* structure of that sensor.
LEMMA OwnFailureStep ==
    ASSUME IndInv, [Next]_vars, pc = "loop", NEW s \in Sensor, Alive(s)
    PROVE  Alive(s)' \/ ReadFailed(s)
  <1> USE DEF IndInv
  <1>1. CASE InitSensor \/ InitRest
    BY <1>1, Zenon DEF InitSensor, InitRest
  <1>2. ASSUME NEW t \in Sensor, Skip(t) \/ ReadDone(t) \/ ReadFault(t)
        PROVE  Alive(s)'
    BY <1>2, Zenon DEF Skip, ReadDone, ReadFault, Alive, heapVars
  <1>3. ASSUME NEW t \in Sensor, ReadFailed(t), t # s
        PROVE  Alive(s)'
    <2>1. ptr[t] # ptr[s]
      BY <1>3, Zenon DEF NoAlias, Alive
    <2>2. mem'[ptr[s]]
      BY <1>3, <2>1, Zenon DEF ReadFailed, RtFree, Alive, TypeOK
    <2>3. QED
      BY <1>3, <2>2, Zenon DEF ReadFailed, Alive
  <1>4. CASE OtherAlloc \/ OtherFree
    BY <1>4, AllocKeepsAlive, FreeKeepsAlive, Zenon
  <1>5. CASE Disturb \/ UNCHANGED vars
    <2>1. /\ ptr' = ptr /\ mem' = mem
          /\ holds' = holds /\ others' = others
      BY <1>5 DEF Disturb, vars, heapVars, worldVars
    <2>2. QED
      BY <2>1, Zenon DEF Alive
  <1>6. QED
    BY <1>1, <1>2, <1>3, <1>4, <1>5, Zenon DEF Next, MainThread

\* Once the station runs, the structure of a sensor dies of a failed read of
\* that sensor and of nothing else.
THEOREM OwnFailure == Spec => OwnFailureOnly
  <1>1. IndInv /\ [Next]_vars =>
          [pc = "loop" => \A s \in Sensor :
             Alive(s) => Alive(s)' \/ ReadFailed(s)]_vars
    BY OwnFailureStep
  <1>2. QED
    BY <1>1, SensorsInit, IndKept, PTL DEF Spec, OwnFailureOnly

-----------------------------------------------------------------------------
\* When no sensor fails, a read never destroys a structure that is there.
LEMMA AliveReads ==
    ASSUME ~fragile, NEW s \in Sensor, Alive(s)
    PROVE  ~ReadFailed(s) /\ ~ReadFault(s)
  BY DEF Alive, Answers, ReadFailed, ReadFault

\* When no sensor fails, every structure stays.
LEMMA SolidKept == SolidInv /\ [Next]_vars => SolidInv'
  <1> SUFFICES ASSUME SolidInv, [Next]_vars PROVE SolidInv'
    OBVIOUS
  <1> USE DEF SolidInv
  <1>1. TypeOK' /\ InitHeld'
    BY TypeKept, InitKept
  <1>2. fragile' = fragile
    BY Zenon
       DEF Next, MainThread, InitSensor, InitRest, Skip, ReadDone, ReadFailed,
           ReadFault, OtherAlloc, OtherFree, Disturb, vars, worldVars
  <1>3. SUFFICES ASSUME ~fragile PROVE AllAlive' /\ OthersUsed'
    BY <1>1, <1>2, Zenon DEF AllAlive
  <1>4. CASE InitSensor
    <2>1. pc' = "init"
      BY <1>4 DEF InitSensor
    <2>2. QED
      BY <1>1, <2>1 DEF InitHeld, AllAlive
  <1>5. CASE InitRest
    <2>1. OthersUsed'
      BY <1>3, <1>5, Zenon DEF InitRest, OthersUsed, heapVars
    <2>2. ASSUME pc' # "init"
          PROVE  pc' = "loop" /\ \A s \in Sensor : Alive(s)'
      <3>1. pc = "init" /\ ok /\ pc' = "loop" /\ next > N
        BY <1>5, <2>2 DEF InitRest
      <3>2. \A s \in Sensor : s < next
        BY <3>1, SensorsAssumption, SMT DEF Sensor, TypeOK
      <3>3. \A s \in Sensor : Alive(s)
        BY <3>1, <3>2, Zenon DEF InitHeld, Held, Passed
      <3>4. QED
        BY <1>5, <3>1, <3>3, Zenon DEF InitRest, Alive, heapVars
    <2>3. QED
      BY <2>1, <2>2, Zenon DEF AllAlive
  <1>6. ASSUME NEW s \in Sensor,
               Skip(s) \/ ReadDone(s) \/ ReadFailed(s) \/ ReadFault(s)
        PROVE  OthersUsed' /\ AllAlive'
    <2>1. pc = "loop" /\ \A t \in Sensor : Alive(t)
      BY <1>3, <1>6, Zenon
         DEF Skip, ReadDone, ReadFailed, ReadFault, Turn, AllAlive
    <2>2. Skip(s) \/ ReadDone(s)
      BY <1>3, <1>6, <2>1, AliveReads, Zenon
    <2>3. QED
      BY <1>3, <2>1, <2>2, Zenon
         DEF Skip, ReadDone, OthersUsed, AllAlive, Alive, heapVars
  <1>7. CASE OtherAlloc \/ OtherFree
    <2>1. OthersUsed' /\ pc' = pc
      BY <1>3, <1>7, OthersKept
    <2>2. AllAlive'
      BY <1>2, <1>3, <1>7, <2>1, AllocKeepsAlive, FreeKeepsAlive, Zenon
         DEF AllAlive
    <2>3. QED
      BY <2>1, <2>2
  <1>8. CASE Disturb \/ UNCHANGED vars
    <2>1. /\ pc' = pc /\ ptr' = ptr
          /\ mem' = mem /\ holds' = holds /\ others' = others
      BY <1>8 DEF Disturb, vars, heapVars
    <2>2. QED
      BY <1>2, <1>3, <2>1, Zenon DEF OthersUsed, AllAlive, Alive
  <1>9. QED
    BY <1>4, <1>5, <1>6, <1>7, <1>8 DEF Next, MainThread

\* The station only starts with a structure for every sensor, and as long as
\* no sensor fails it keeps them all and is never halted.
THEOREM StartsWithAll == Spec => []AllAlive
  <1>1. SolidInv => AllAlive
    BY DEF SolidInv
  <1>2. QED
    BY <1>1, SensorsInit, SolidKept, PTL DEF Spec

-----------------------------------------------------------------------------
(* Room for the structures *)

\* The blocks that are free, or will be when the others free theirs.
Room == Free \cup others

\* An attempt starts with RT_EOK, and the others keep to their bound.
AttemptInv ==
    /\ pc = "init" /\ next = 1 => ok
    /\ Cardinality(others) <= MaxOther

\* An attempt of mainFuncInit that has found every sensor so far, with room
\* for the structures that are left even when the others hold all they can.
Roomy ==
    /\ pc = "init" /\ ok
    /\ Cardinality(Room) >= (N + 1 - next) + MaxOther

\* What StartsWithRoom supposes at the start of an attempt.
Starting ==
    pc = "init" /\ next = 1 /\ Cardinality(Free) >= N + MaxOther

\* Each step of the main thread is the next of the attempt, and nothing the
\* others do takes it back.
Advances ==
    IF MainThread
    THEN IF next > N THEN pc' = "loop" ELSE Roomy' /\ next' = next + 1
    ELSE Roomy' /\ next' = next

\* The sets of blocks are finite.
LEMMA Blocks ==
    ASSUME TypeOK
    PROVE  /\ IsFiniteSet(Heap) /\ IsFiniteSet(Free) /\ IsFiniteSet(others)
           /\ IsFiniteSet(Room)
           /\ Cardinality(Free) \in Nat /\ Cardinality(others) \in Nat
           /\ Cardinality(Room) \in Nat
  <1>1. Free \subseteq Heap /\ others \subseteq Heap /\ Room \subseteq Heap
    BY DEF TypeOK, Free, Room
  <1>2. IsFiniteSet(Free) /\ IsFiniteSet(others) /\ IsFiniteSet(Room)
    BY <1>1, SensorsAssumption, FS_Subset
  <1>3. QED
    BY <1>2, SensorsAssumption, FS_CardinalityType

\* No attempt has failed before it starts, and the others hold nothing yet.
LEMMA AttemptInit == Init => AttemptInv
  BY FS_EmptySet, SensorsAssumption DEF Init, AttemptInv

\* mainFuncInit begins with RT_EOK each time, and the others check their bound.
LEMMA AttemptKept ==
    TypeOK /\ AttemptInv /\ [Next]_vars => AttemptInv'
  <1> SUFFICES ASSUME TypeOK, AttemptInv, [Next]_vars PROVE AttemptInv'
    OBVIOUS
  <1>1. CASE InitSensor
    <2>1. next' # 1 /\ others' = others
      BY <1>1, SensorsAssumption, SMT DEF InitSensor, TypeOK
    <2>2. QED
      BY <2>1 DEF AttemptInv
  <1>2. CASE InitRest
    BY <1>2, Zenon DEF InitRest, AttemptInv, heapVars
  <1>3. ASSUME NEW s \in Sensor,
               Skip(s) \/ ReadDone(s) \/ ReadFailed(s) \/ ReadFault(s)
        PROVE  AttemptInv'
    <2>1. pc' # "init" /\ others' = others
      BY <1>3, Zenon
         DEF Skip, ReadDone, ReadFailed, ReadFault, Turn, RtFree, heapVars
    <2>2. QED
      BY <2>1 DEF AttemptInv
  <1>4. CASE OtherAlloc
    <2>1. PICK b \in Free : others' = others \cup {b}
      BY <1>4 DEF OtherAlloc
    <2>2. /\ Cardinality(others) < MaxOther
          /\ pc' = pc /\ next' = next /\ ok' = ok
      BY <1>4 DEF OtherAlloc
    <2>3. Cardinality(others') <= MaxOther
      <3>1. /\ IsFiniteSet(others) /\ Cardinality(others) \in Nat
            /\ Cardinality(others \cup {b}) \in
                  {Cardinality(others), Cardinality(others) + 1}
        BY Blocks, FS_AddElement
      <3>2. QED
        BY <2>1, <2>2, <3>1, SensorsAssumption, SMT
    <2>4. QED
      BY <2>2, <2>3 DEF AttemptInv
  <1>5. CASE OtherFree
    <2>1. PICK b \in others : RtFree(b) /\ others' = others \ {b}
      BY <1>5 DEF OtherFree
    <2>2. /\ next' = next /\ ok' = ok
          /\ pc' = "init" => pc = "init"
      BY <1>5, <2>1, Zenon DEF OtherFree, RtFree
    <2>3. Cardinality(others') <= MaxOther
      <3>1. /\ IsFiniteSet(others) /\ Cardinality(others) \in Nat
            /\ Cardinality(others \ {b}) \in
                  {Cardinality(others), Cardinality(others) - 1}
        BY Blocks, FS_RemoveElement
      <3>2. QED
        BY <2>1, <3>1, SensorsAssumption, SMT DEF AttemptInv
    <2>4. QED
      BY <2>2, <2>3 DEF AttemptInv
  <1>6. CASE Disturb \/ UNCHANGED vars
    <2>1. pc' = pc /\ next' = next /\ ok' = ok /\ others' = others
      BY <1>6 DEF Disturb, vars, heapVars
    <2>2. QED
      BY <2>1 DEF AttemptInv
  <1>7. QED
    BY <1>1, <1>2, <1>3, <1>4, <1>5, <1>6 DEF Next, MainThread

\* With room an attempt finds a block, as the others cannot hold it all.
LEMMA RoomFree ==
    ASSUME TypeOK, AttemptInv, Roomy, next <= N
    PROVE  Free # {}
  <1>1. SUFFICES ASSUME Free = {} PROVE FALSE
    OBVIOUS
  <1>2. Room = others
    BY <1>1 DEF Room
  <1>3. QED
    BY <1>2, Blocks, SensorsAssumption DEF Roomy, AttemptInv, TypeOK

\* A structure that is allocated takes one block of the room.
LEMMA FoundTakes ==
    ASSUME TypeOK, OthersUsed, InitFound(next), next \in Sensor,
           UNCHANGED others
    PROVE  Cardinality(Room') = Cardinality(Room) - 1
  <1>1. PICK b \in Free : mem' = [mem EXCEPT ![b] = TRUE]
    BY DEF InitFound
  <1>2. Free' = Free \ {b}
    BY <1>1, Zenon DEF Free, TypeOK
  <1>3. b \notin others
    BY Zenon DEF OthersUsed, Free
  <1>4. Room' = Room \ {b} /\ b \in Room
    BY <1>2, <1>3 DEF Room
  <1>5. QED
    BY <1>4, Blocks, FS_RemoveElement

\* What the others allocate and free stays in the room.
LEMMA OthersLeaveRoom ==
    ASSUME TypeOK, OthersUsed, OtherAlloc \/ OtherFree
    PROVE  Room' = Room /\ pc' = pc /\ ok' = ok /\ next' = next
  <1>1. CASE OtherAlloc
    <2>1. PICK b \in Free : /\ mem' = [mem EXCEPT ![b] = TRUE]
                            /\ others' = others \cup {b}
      BY <1>1 DEF OtherAlloc
    <2>2. Free' = Free \ {b}
      BY <2>1, Zenon DEF Free, TypeOK
    <2>3. QED
      BY <1>1, <2>1, <2>2 DEF OtherAlloc, Room
  <1>2. CASE OtherFree
    <2>1. PICK b \in others : RtFree(b) /\ others' = others \ {b}
      BY <1>2 DEF OtherFree
    <2>2. mem' = [mem EXCEPT ![b] = FALSE] /\ pc' = pc
      BY <2>1, Zenon DEF RtFree, OthersUsed
    <2>3. Free' = Free \cup {b}
      BY <2>1, <2>2, Zenon DEF Free, TypeOK
    <2>4. QED
      BY <1>2, <2>1, <2>2, <2>3 DEF OtherFree, Room
  <1>3. QED
    BY <1>1, <1>2

\* With room and everything answering every sensor that comes is found, and the
\* step after the last one starts the loop.
LEMMA RoomyAdvances ==
    ASSUME IndInv, AttemptInv, [Next]_vars, Roomy, works = Sensor \cup {0}
    PROVE  Advances
  <1> USE DEF IndInv
  <1>1. pc = "init" /\ ok /\ OthersUsed /\ Cardinality(Room) \in Nat
    BY Blocks DEF Roomy, InitHeld
  <1>2. CASE InitSensor
    <2>1. next \in Sensor /\ next <= N /\ next' = next + 1 /\ pc' = "init"
      BY <1>1, <1>2, SensorsAssumption, SMT DEF InitSensor, Sensor, TypeOK
    <2>2. InitFound(next) /\ others' = others
      BY <1>2, <2>1, RoomFree DEF InitSensor, InitFailed
    <2>3. Cardinality(Room') = Cardinality(Room) - 1
      BY <1>1, <2>1, <2>2, FoundTakes
    <2>4. ok'
      BY <1>1, <2>2, Zenon DEF InitFound
    <2>5. Cardinality(Room') >= (N + 1 - next') + MaxOther
      BY <1>1, <2>1, <2>3, SensorsAssumption DEF Roomy, TypeOK
    <2>6. Roomy'
      BY <2>1, <2>4, <2>5, Zenon DEF Roomy
    <2>7. MainThread /\ ~(next > N)
      BY <1>2, <2>1, SensorsAssumption, SMT DEF MainThread, Sensor
    <2>8. QED
      BY <2>1, <2>6, <2>7 DEF Advances
  <1>3. CASE InitRest
    <2>1. pc' = "loop" /\ next > N /\ MainThread
      BY <1>1, <1>3 DEF InitRest, MainThread
    <2>2. QED
      BY <2>1 DEF Advances
  <1>4. ASSUME NEW s \in Sensor,
               Skip(s) \/ ReadDone(s) \/ ReadFailed(s) \/ ReadFault(s)
        PROVE  FALSE
    BY <1>1, <1>4, Zenon DEF Skip, ReadDone, ReadFailed, ReadFault, Turn
  <1>5. CASE ~MainThread
    <2>1. Room' = Room /\ pc' = pc /\ ok' = ok /\ next' = next
      <3>1. CASE OtherAlloc \/ OtherFree
        BY <1>1, <3>1, OthersLeaveRoom
      <3>2. CASE Disturb \/ UNCHANGED vars
        <4>1. /\ mem' = mem /\ others' = others
              /\ pc' = pc /\ ok' = ok /\ next' = next
          BY <3>2 DEF Disturb, vars, heapVars
        <4>2. QED
          BY <4>1 DEF Room, Free
      <3>3. QED
        BY <1>5, <3>1, <3>2 DEF Next
    <2>2. Roomy'
      BY <2>1, Zenon DEF Roomy
    <2>3. QED
      BY <1>5, <2>1, <2>2 DEF Advances
  <1>6. QED
    BY <1>2, <1>3, <1>4, <1>5 DEF MainThread

\* An attempt that starts with the room is one that has it.
LEMMA StartingRoomy ==
    ASSUME TypeOK, AttemptInv, Starting
    PROVE  Roomy
  <1>1. Cardinality(Free) <= Cardinality(Room)
    BY Blocks, FS_Subset DEF Room
  <1>2. QED
    BY <1>1, Blocks, SensorsAssumption
       DEF Starting, Roomy, AttemptInv, TypeOK

\* Behind StartsWithRoom: whatever the attempts before have left allocated, an
\* attempt of mainFuncInit that starts with N + MaxOther free blocks has its
\* room to the end, and while everything answers each step of the main thread
\* finds the next sensor or starts the loop: N + 1 steps.
THEOREM RoomSuffices ==
    Spec => /\ [](Starting => Roomy)
            /\ [][Roomy /\ works = Sensor \cup {0} => Advances]_vars
  <1> DEFINE I == IndInv /\ AttemptInv
  <1>1. Init => I
    BY SensorsInit, AttemptInit
  <1>2. I /\ [Next]_vars => I'
    <2>1. IndInv => TypeOK
      BY DEF IndInv
    <2>2. QED
      BY <2>1, IndKept, AttemptKept
  <1>3. I => (Starting => Roomy)
    BY StartingRoomy DEF IndInv
  <1>4. I /\ [Next]_vars =>
           [Roomy /\ works = Sensor \cup {0} => Advances]_vars
    BY RoomyAdvances
  <1> HIDE DEF I
  <1>5. QED
    BY <1>1, <1>2, <1>3, <1>4, PTL DEF Spec
=============================================================================
