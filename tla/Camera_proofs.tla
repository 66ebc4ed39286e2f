---------------------------- MODULE Camera_proofs ----------------------------
(***************************************************************************)
(* Proofs about Camera, for every capacity of the FIFO and any number of   *)
(* frames.                                                                 *)
(*                                                                         *)
(* A photo is intact because of what its frame went through: while the     *)
(* interrupt fills the FIFO, its first halves are those of the frame being *)
(* sent (Filling); once the frame is handed over, writing is off (Full);   *)
(* and the main thread reads it only then (Reading).  All of this begins   *)
(* with the reset of Ov7725_vsync.  What is said of the frame itself needs *)
(* a configured camera; that writing is off does not.                      *)
(* ReadyInTime is a property of MCCamera, which counts the frames waited   *)
(* for; it is proved there, for any bound on the frames.                   *)
(***************************************************************************)
EXTENDS MCCamera, TLAPS

\* The points of the main thread after the reset of Ov7725_vsync.
Running == {"init", "loop", "read1", "read2", "done"}

\* The interrupt is in place.
Prepared == pc # "gpio" => attached

\* The halves of the frame being sent that have arrived are in the FIFO.
Filling ==
    vsync = 1 /\ configured =>
        /\ we /\ sound
        /\ half < 2 => wp = half
        /\ half > 0 => fifo[0] = [no |-> frame, sound |-> TRUE]
        /\ half > 1 => fifo[1] = [no |-> frame, sound |-> TRUE]

\* Once a frame is handed over nothing is written; it is whole, sound, and
\* newer than the photo.
Full ==
    /\ vsync = 2 => ~we /\ fifo[0].no < frame
    /\ vsync = 2 /\ configured =>
        /\ fifo[0] = fifo[1] /\ fifo[0].sound
        /\ pc \in {"init", "loop", "read1"} => shown[1].no < fifo[0].no

\* The main thread reads what was handed over.
Reading ==
    /\ pc \in {"read1", "read2", "done"} => vsync = 2
    /\ pc \in {"read2", "done"} => shown[1] = fifo[0]
    /\ pc \in {"read2", "done"} /\ configured => last < shown[1].no
    /\ pc = "done" => shown[2] = fifo[1]

\* The photo was sent before the frame that is being sent.
ShownOld == shown[1].no < frame

\* Nor is there a frame in the FIFO that was not sent yet.
FifoOld == fifo[0].no <= frame

\* The inductive invariant.
CameraInv ==
    /\ TypeOK /\ Prepared /\ ShownOld /\ FifoOld /\ Reading
    /\ pc \in Running => Filling /\ Full

-----------------------------------------------------------------------------
\* The write pointer stays inside the ring, and is 1 after 0.
LEMMA Ring ==
    /\ Capacity \in Nat /\ Capacity >= 2
    /\ 0 \in 0 .. Capacity - 1 /\ 1 \in 0 .. Capacity - 1
    /\ 1 % Capacity = 1
    /\ \A w \in 0 .. Capacity - 1 : (w + 1) % Capacity \in 0 .. Capacity - 1
  BY CapacityAssumption, SMT

\* The invariant holds at the start.
LEMMA CameraInit == Init => CameraInv
  <1> SUFFICES ASSUME Init PROVE CameraInv
    OBVIOUS
  <1>1. Noise \in Pixels /\ Noise.no = 0
    BY SMT DEF Noise, Pixels
  <1>2. /\ fifo \in [0 .. Capacity - 1 -> Pixels]
        /\ shown \in [{1, 2} -> Pixels]
        /\ shown[1] = Noise
    BY <1>1, Zenon DEF Init
  <1>3. TypeOK
    <2>1. frame \in Nat /\ half \in 0 .. 2 /\ vsync \in 0 .. 2 /\ last \in Nat
      BY SMT DEF Init
    <2>2. wp \in 0 .. Capacity - 1
      BY Ring DEF Init
    <2> QED
      BY <1>2, <2>1, <2>2, Zenon DEF Init, TypeOK, Points
  <1>4. ShownOld /\ FifoOld
    <2>1. fifo[0] = Noise
      BY Ring, Zenon DEF Init
    <2> QED
      BY <1>1, <1>2, <2>1, SMT DEF Init, ShownOld, FifoOld
  <1>5. Prepared /\ Reading /\ pc \notin Running
    BY DEF Init, Prepared, Reading, Running
  <1> QED
    BY <1>3, <1>4, <1>5 DEF CameraInv

\* Half a frame arrives: it is written to the FIFO only while it is filled,
\* or before the reset of Ov7725_vsync.
LEMMA SendHalfKeeps == CameraInv /\ SendHalf => CameraInv'
  <1> SUFFICES ASSUME CameraInv, SendHalf PROVE CameraInv'
    OBVIOUS
  <1> USE DEF CameraInv
  <1>1. /\ half \in 0 .. 2 /\ half' = IF half < 2 THEN half + 1 ELSE half
        /\ half < 2 \/ ~sound
        /\ frame \in Nat /\ sound \in BOOLEAN /\ wp \in 0 .. Capacity - 1
        /\ fifo \in [0 .. Capacity - 1 -> Pixels]
    BY SMT DEF TypeOK, SendHalf
  <1>2. UNCHANGED <<frame, configured, sound, we, pc, attached, vsync,
                    shown, last>>
    BY DEF SendHalf, lcdVars
  <1>3. [no |-> frame, sound |-> sound] \in Pixels
    BY <1>1, SMT DEF Pixels
  <1>4. TypeOK'
    <2>1. fifo' \in [0 .. Capacity - 1 -> Pixels] /\ wp' \in 0 .. Capacity - 1
      <3>1. CASE we
        BY <3>1, <1>1, <1>3, Ring, SMT DEF SendHalf
      <3>2. CASE ~we
        BY <3>2, <1>1, Zenon DEF SendHalf
      <3> QED
        BY <3>1, <3>2
    <2>2. half' \in 0 .. 2
      BY <1>1, SMT
    <2> QED
      BY <1>2, <2>1, <2>2, Zenon DEF TypeOK
  <1>5. Prepared' /\ ShownOld' /\ FifoOld' /\ Running' = Running
    <2>1. fifo'[0] = fifo[0] \/ fifo'[0] = [no |-> frame, sound |-> sound]
      BY <1>1, Ring DEF SendHalf
    <2>2. [no |-> frame, sound |-> sound].no = frame
      OBVIOUS
    <2>3. FifoOld'
      BY <1>1, <1>2, <2>1, <2>2 DEF FifoOld
    <2> QED
      BY <1>2, <2>3 DEF Prepared, ShownOld, Running
  <1>6. pc \in Running /\ vsync = 2 => fifo' = fifo
    BY DEF SendHalf, Full
  <1>7. pc \in Running => Full'
    <2> SUFFICES ASSUME pc \in Running, vsync = 2 PROVE Full'
      BY <1>2 DEF Full
    <2> QED
      BY <1>2, <1>6 DEF Full
  <1>8. Reading'
    <2>1. CASE pc \in {"read1", "read2", "done"}
      BY <2>1, <1>2, <1>6 DEF Reading, Running
    <2>2. CASE pc \notin {"read1", "read2", "done"}
      BY <2>2, <1>2 DEF Reading
    <2> QED
      BY <2>1, <2>2
  <1>9. pc \in Running => Filling'
    <2> SUFFICES ASSUME pc \in Running, vsync = 1, configured PROVE Filling'
      BY <1>2 DEF Filling
    <2>1. /\ we /\ sound /\ wp = half /\ half \in 0 .. 1 /\ half' = half + 1
          /\ half > 0 => fifo[0] = [no |-> frame, sound |-> TRUE]
      BY <1>1, SMT DEF Filling
    <2>2. sound = TRUE
      BY <2>1, <1>1
    <2>3. /\ fifo' = [fifo EXCEPT ![half] = [no |-> frame, sound |-> TRUE]]
          /\ wp' = (half + 1) % Capacity
      BY <2>1, <2>2 DEF SendHalf
    <2>4. CASE half = 0
      <3>1. half' = 1 /\ wp' = 1
        BY <2>1, <2>3, <2>4, Ring, SMT
      <3>2. fifo'[0] = [no |-> frame, sound |-> TRUE]
        BY <2>3, <2>4, <1>1, Ring, Zenon
      <3> QED
        BY <3>1, <3>2, <2>1, <1>2, SMT DEF Filling
    <2>5. CASE half = 1
      <3>1. half' = 2
        BY <2>1, <2>5, SMT
      <3>2. fifo'[1] = [no |-> frame, sound |-> TRUE]
        BY <2>3, <2>5, <1>1, Ring, Zenon
      <3>3. fifo'[0] = [no |-> frame, sound |-> TRUE]
        BY <2>1, <2>3, <2>5, <1>1, Ring, SMT
      <3> QED
        BY <3>1, <3>2, <3>3, <2>1, <1>2, SMT DEF Filling
    <2> QED
      BY <2>1, <2>4, <2>5, SMT
  <1> QED
    BY <1>2, <1>4, <1>5, <1>7, <1>8, <1>9

\* VSYNC: a frame that is handed over has been filled to its end.
LEMMA VSyncKeeps == CameraInv /\ VSync => CameraInv'
  <1> SUFFICES ASSUME CameraInv, VSync PROVE CameraInv'
    OBVIOUS
  <1> USE DEF CameraInv
  <1>1. /\ frame \in Nat /\ frame' = frame + 1 /\ half \in 0 .. 2 /\ half' = 0
        /\ configured \in BOOLEAN /\ sound' = configured
        /\ half = 2 \/ ~sound
        /\ vsync \in 0 .. 2
        /\ fifo \in [0 .. Capacity - 1 -> Pixels]
        /\ shown \in [{1, 2} -> Pixels]
        /\ UNCHANGED <<configured, fifo, pc, attached, shown, last>>
    BY DEF TypeOK, VSync, lcdVars
  <1>2. shown[1].no \in Nat /\ fifo[0].no \in Nat
    <2>1. \A x \in Pixels : x.no \in Nat
      BY SMT DEF Pixels
    <2> QED
      BY <1>1, <2>1, Ring, Zenon
  <1>3. TypeOK'
    <2>1. wp' \in 0 .. Capacity - 1
      BY Ring, SMT DEF TypeOK, VSync, Interrupt
    <2>2. vsync' \in 0 .. 2
      BY <1>1, SMT DEF VSync, Interrupt
    <2>3. we' \in BOOLEAN
      BY Zenon DEF TypeOK, VSync, Interrupt
    <2>4. frame' \in Nat /\ half' \in 0 .. 2
      BY <1>1, SMT
    <2> QED
      BY <1>1, <2>1, <2>2, <2>3, <2>4, Zenon DEF TypeOK
  <1>4. Prepared' /\ Running' = Running
    BY <1>1 DEF Prepared, Running
  <1>5. ShownOld' /\ FifoOld'
    BY <1>1, <1>2, SMT DEF ShownOld, FifoOld
  <1>6. Reading'
    <2>1. CASE pc \in {"read1", "read2", "done"}
      <3>1. vsync' = 2
        BY <2>1, SMT DEF VSync, Interrupt, Reading
      <3> QED
        BY <2>1, <3>1, <1>1 DEF Reading
    <2>2. CASE pc \notin {"read1", "read2", "done"}
      BY <2>2, <1>1 DEF Reading
    <2> QED
      BY <2>1, <2>2
  <1>7. ASSUME pc \in Running PROVE Filling' /\ Full'
    <2>1. Interrupt
      BY <1>7 DEF Prepared, VSync, Running
    <2>2. CASE vsync = 0
      <3>1. vsync' = 1 /\ wp' = 0 /\ we'
        BY <2>1, <2>2 DEF Interrupt
      <3>2. Full'
        BY <3>1 DEF Full
      <3>3. Filling'
        BY <3>1, <2>1, <1>1, SMT DEF Filling
      <3> QED
        BY <3>2, <3>3
    <2>3. CASE vsync = 1
      <3>1. vsync' = 2 /\ ~we'
        BY <2>1, <2>3 DEF Interrupt
      <3>2. Filling'
        BY <3>1 DEF Filling
      <3>3. fifo[0].no < frame'
        BY <1>1, <1>2, SMT DEF FifoOld
      <3>4. CASE ~configured
        <4>1. Full'
          BY <3>1, <3>3, <3>4, <1>1 DEF Full
        <4> QED
          BY <3>2, <4>1
      <3> SUFFICES ASSUME configured PROVE Full'
        BY <3>2, <3>4
      <3>5. half = 2 /\ half > 0 /\ half > 1
        BY <1>1, <1>7, <2>3, SMT DEF Filling
      <3>6. /\ fifo[0] = [no |-> frame, sound |-> TRUE]
            /\ fifo[1] = [no |-> frame, sound |-> TRUE]
        BY <3>5, <2>3, <1>7 DEF Filling
      <3>7. fifo[0] = fifo[1] /\ fifo[0].sound /\ fifo[0].no = frame
        BY <3>6
      <3>8. shown[1].no < fifo[0].no
        BY <3>7, <1>1, <1>2, SMT DEF ShownOld
      <3> QED
        BY <3>1, <3>7, <3>8, <3>3, <1>1 DEF Full
    <2>4. CASE vsync = 2
      <3>1. UNCHANGED <<we, wp, vsync>>
        BY <2>1, <2>4 DEF Interrupt
      <3>2. fifo[0].no < frame'
        BY <2>4, <1>1, <1>2, <1>7, SMT DEF Full
      <3>3. Full'
        BY <3>1, <3>2, <2>4, <1>1, <1>7 DEF Full
      <3>4. Filling'
        BY <3>1, <2>4 DEF Filling
      <3> QED
        BY <3>3, <3>4
    <2> QED
      BY <1>1, <2>2, <2>3, <2>4, SMT
  <1> QED
    BY <1>1, <1>3, <1>4, <1>5, <1>6, <1>7

\* The steps of the initialisation; only the reset of Ov7725_vsync makes the
\* main thread rely on the interrupt.
LEMMA ConfigureKeeps == CameraInv /\ Configure => CameraInv'
  <1> SUFFICES ASSUME CameraInv, Configure PROVE CameraInv'
    OBVIOUS
  <1> USE DEF CameraInv, cameraVars, fifoVars, lcdVars
  <1>1. CASE GpioConfig
    <2>1. TypeOK'
      BY <1>1, Zenon DEF GpioConfig, TypeOK, Points
    <2>2. Prepared' /\ ShownOld' /\ FifoOld' /\ Reading' /\ pc' \notin Running'
      BY <1>1 DEF GpioConfig, Prepared, ShownOld, FifoOld, Reading, Running
    <2> QED
      BY <2>1, <2>2
  <1>2. CASE RegsFailed
    <2>1. TypeOK'
      BY <1>2, Zenon DEF RegsFailed, TypeOK, Points
    <2>2. Prepared' /\ ShownOld' /\ FifoOld' /\ Reading' /\ pc' \notin Running'
      BY <1>2 DEF RegsFailed, Prepared, ShownOld, FifoOld, Reading, Running
    <2> QED
      BY <2>1, <2>2
  <1>3. CASE RegsWritten
    <2>1. TypeOK'
      BY <1>3, Zenon DEF RegsWritten, TypeOK, Points
    <2>2. Prepared' /\ ShownOld' /\ FifoOld' /\ Reading' /\ pc' \notin Running'
      BY <1>3 DEF RegsWritten, Prepared, ShownOld, FifoOld, Reading, Running
    <2> QED
      BY <2>1, <2>2
  <1>4. CASE ResetVsync
    <2>1. TypeOK'
      <3>1. vsync' \in 0 .. 2
        BY <1>4, SMT DEF ResetVsync
      <3> QED
        BY <1>4, <3>1, Zenon DEF ResetVsync, TypeOK, Points
    <2>2. Prepared' /\ ShownOld' /\ FifoOld' /\ Reading'
      BY <1>4 DEF ResetVsync, Prepared, ShownOld, FifoOld, Reading, Running
    <2>3. Filling' /\ Full'
      BY <1>4 DEF ResetVsync, Filling, Full
    <2> QED
      BY <2>1, <2>2, <2>3
  <1>5. CASE InitAgain
    <2>1. TypeOK'
      BY <1>5, Zenon DEF InitAgain, TypeOK, Points
    <2>2. Prepared' /\ ShownOld' /\ FifoOld' /\ Reading' /\ pc' \notin Running'
      BY <1>5 DEF InitAgain, Prepared, ShownOld, FifoOld, Reading, Running
    <2> QED
      BY <2>1, <2>2
  <1>6. CASE InitDone
    <2>1. TypeOK'
      BY <1>6, Zenon DEF InitDone, TypeOK, Points
    <2>2. Prepared' /\ ShownOld' /\ FifoOld' /\ Reading'
      BY <1>6 DEF InitDone, Prepared, ShownOld, FifoOld, Reading, Running
    <2>3. Filling' /\ Full'
      BY <1>6 DEF InitDone, Filling, Full, Running
    <2> QED
      BY <2>1, <2>2, <2>3
  <1> QED
    BY <1>1, <1>2, <1>3, <1>4, <1>5, <1>6 DEF Configure

\* The main thread takes a frame, displays both halves and gives it back.
LEMMA PhotoKeeps == CameraInv /\ Photo => CameraInv'
  <1> SUFFICES ASSUME CameraInv, Photo PROVE CameraInv'
    OBVIOUS
  <1> USE DEF CameraInv, cameraVars, fifoVars, lcdVars
  <1>1. CASE Take
    <2>1. TypeOK'
      BY <1>1, Zenon DEF Take, TypeOK, Points
    <2>2. Prepared' /\ ShownOld' /\ FifoOld' /\ Reading'
      BY <1>1 DEF Take, Prepared, ShownOld, FifoOld, Reading, Running
    <2>3. Filling' /\ Full'
      BY <1>1 DEF Take, Filling, Full, Running
    <2> QED
      BY <2>1, <2>2, <2>3
  <1>2. CASE ReadFirst
    <2>1. /\ fifo[0] \in Pixels /\ shown \in [{1, 2} -> Pixels]
          /\ shown[1].no \in Nat
      <3>1. \A x \in Pixels : x.no \in Nat
        BY SMT DEF Pixels
      <3> QED
        BY <3>1, Ring, Zenon DEF TypeOK
    <2>2. /\ shown'[1] = fifo[0] /\ last' = shown[1].no
          /\ shown' \in [{1, 2} -> Pixels]
      BY <1>2, <2>1, Zenon DEF ReadFirst
    <2>3. /\ vsync = 2 /\ pc = "read1" /\ pc' = "read2"
          /\ UNCHANGED <<cameraVars, fifoVars, attached, vsync>>
      BY <1>2 DEF ReadFirst, Reading
    <2>4. fifo[0].no < frame /\ (configured => shown[1].no < fifo[0].no)
      BY <2>3 DEF Full, Running
    <2>5. TypeOK'
      BY <2>1, <2>2, <2>3, Zenon DEF TypeOK, Points
    <2>6. Prepared' /\ ShownOld' /\ FifoOld' /\ Reading'
      BY <2>2, <2>3, <2>4 DEF Prepared, ShownOld, FifoOld, Reading, Running
    <2>7. Filling' /\ Full'
      BY <2>3 DEF Filling, Full, Running
    <2> QED
      BY <2>5, <2>6, <2>7
  <1>3. CASE ReadSecond
    <2>1. fifo[1] \in Pixels /\ shown \in [{1, 2} -> Pixels]
      BY Ring, Zenon DEF TypeOK
    <2>2. /\ shown'[1] = shown[1] /\ shown'[2] = fifo[1]
          /\ shown' \in [{1, 2} -> Pixels]
      BY <1>3, <2>1, SMT DEF ReadSecond
    <2>3. /\ pc = "read2" /\ pc' = "done"
          /\ UNCHANGED <<cameraVars, fifoVars, attached, vsync, last>>
      BY <1>3 DEF ReadSecond
    <2>4. TypeOK'
      BY <2>2, <2>3, Zenon DEF TypeOK, Points
    <2>5. Prepared' /\ ShownOld' /\ FifoOld' /\ Reading'
      BY <2>2, <2>3 DEF Prepared, ShownOld, FifoOld, Reading, Running
    <2>6. Filling' /\ Full'
      BY <2>3 DEF Filling, Full, Running
    <2> QED
      BY <2>4, <2>5, <2>6
  <1>4. CASE Release
    <2>1. TypeOK'
      <3>1. vsync' \in 0 .. 2
        BY <1>4, SMT DEF Release
      <3> QED
        BY <1>4, <3>1, Zenon DEF Release, TypeOK, Points
    <2>2. Prepared' /\ ShownOld' /\ FifoOld' /\ Reading'
      BY <1>4 DEF Release, Prepared, ShownOld, FifoOld, Reading, Running
    <2>3. Filling' /\ Full'
      BY <1>4 DEF Release, Filling, Full
    <2> QED
      BY <2>1, <2>2, <2>3
  <1> QED
    BY <1>1, <1>2, <1>3, <1>4 DEF Photo

\* Every step keeps the invariant.
LEMMA CameraNext == CameraInv /\ [Next]_vars => CameraInv'
  <1>1. CameraInv /\ Next => CameraInv'
    BY SendHalfKeeps, VSyncKeeps, ConfigureKeeps, PhotoKeeps
    DEF Next, Sensor
  <1>2. CameraInv /\ UNCHANGED vars => CameraInv'
    BY DEF vars, cameraVars, fifoVars, lcdVars, CameraInv, TypeOK,
           Prepared, ShownOld, FifoOld, Reading, Filling, Full, Running
  <1> QED
    BY <1>1, <1>2

\* The invariant holds in every state.
LEMMA CameraInvariance == Spec => []CameraInv
  BY CameraInit, CameraNext, PTL DEF Spec

\* The write pointer never leaves the FIFO and Ov7725_vsync never exceeds 2,
\* for every capacity and any number of VSYNC interrupts.
THEOREM CameraTypes == Spec => []TypeOK
  <1>1. CameraInv => TypeOK
    BY DEF CameraInv
  <1> QED
    BY <1>1, CameraInvariance, PTL

\* Of a camera whose registers all arrived, ImagDisp shows one whole frame that
\* began after they were written, wherever my_ov7725_interrupt comes in and
\* however often mainFuncInit repeats my_ov7725_test_init.
THEOREM PhotosIntact == Spec => []PhotoIntact
  <1>1. CameraInv => PhotoIntact
    BY DEF CameraInv, Running, Reading, Full, PhotoIntact
  <1> QED
    BY <1>1, CameraInvariance, PTL

\* Of such a camera my_ov7725_test never shows a frame twice, nor an older one
\* after a newer.
THEOREM PhotosNew == Spec => []PhotoNew
  <1>1. CameraInv => PhotoNew
    <2> SUFFICES ASSUME CameraInv, pc = "done", configured PROVE shown[1].no > last
      BY DEF PhotoNew
    <2>1. last \in Nat /\ shown[1].no \in Nat /\ last < shown[1].no
      <3>1. \A x \in Pixels : x.no \in Nat
        BY SMT DEF Pixels
      <3> QED
        BY <3>1, Zenon DEF CameraInv, TypeOK, Reading
    <2> QED
      BY <2>1, SMT
  <1> QED
    BY <1>1, CameraInvariance, PTL

\* From the interrupt that hands a frame over until the main thread resets
\* Ov7725_vsync nothing is written to the FIFO.
THEOREM FramesHandedOver == Spec => HandedOver
  <1>1. ASSUME CameraInv, [Next]_vars, vsync = 2,
               pc \in {"loop", "read1", "read2", "done"}
        PROVE  fifo' = fifo
    <2>1. ~we
      BY <1>1 DEF CameraInv, Running, Full
    <2>2. CASE SendHalf
      BY <2>1, <2>2 DEF SendHalf
    <2>3. CASE VSync
      BY <2>3 DEF VSync
    <2>4. CASE Configure
      BY <2>4 DEF Configure, GpioConfig, RegsFailed, RegsWritten, ResetVsync,
                  InitAgain, InitDone, fifoVars
    <2>5. CASE Photo
      BY <2>5 DEF Photo, Take, ReadFirst, ReadSecond, Release, fifoVars
    <2>6. CASE UNCHANGED vars
      BY <2>6 DEF vars, fifoVars
    <2> QED
      BY <1>1, <2>2, <2>3, <2>4, <2>5, <2>6 DEF Next, Sensor
  <1>2. CameraInv /\ [Next]_vars
        => [vsync = 2 /\ vsync' = 2 /\ pc \in {"loop", "read1", "read2", "done"}
              => fifo' = fifo]_vars
    BY <1>1
  <1> QED
    BY <1>2, CameraInvariance, PTL DEF Spec, HandedOver

\* main waits for a frame at the top of its loop: with a VSYNC behind it the
\* interrupt is filling the FIFO, and the next VSYNC hands the frame over.
Waiting ==
    waited # 0 => waited = 1 /\ pc = "loop" /\ vsync = 1

\* However long it takes until main has displayed a photo and given its frame
\* back, and whatever the initialisation left in Ov7725_vsync: the second
\* VSYNC of my_ov7725_interrupt after that makes the next photo ready.
THEOREM FrameInTime == MCSpec => []ReadyInTime
  <1>1. MCInit => CameraInv /\ Waiting
    BY CameraInit DEF MCInit, Waiting
  <1>2. ASSUME [MCNext]_<<vars, waited>>
        PROVE  [Next]_vars
    BY <1>2 DEF MCNext, Ended
  <1>3. ASSUME CameraInv, Waiting, [MCNext]_<<vars, waited>>
        PROVE  Waiting'
    <2>1. CASE UNCHANGED <<vars, waited>>
      BY <1>3, <2>1 DEF vars, Waiting
    <2>2. CASE MCNext /\ (pc # "loop" \/ vsync' = 2)
      BY <2>2 DEF MCNext, Waiting
    <2>3. CASE MCNext /\ pc = "loop" /\ vsync' # 2
      <3>1. frame \in Nat /\ vsync \in 0 .. 2 /\ attached
        BY <1>3, <2>3 DEF CameraInv, TypeOK, Prepared
      <3>2. CASE VSync
        <4>1. vsync = 0 /\ vsync' = 1 /\ pc' = "loop" /\ frame' > frame
          BY <2>3, <3>1, <3>2 DEF VSync, Interrupt
        <4> QED
          BY <1>3, <2>3, <4>1 DEF MCNext, Waiting
      <3>3. CASE ~VSync
        <4>1. pc' = pc /\ UNCHANGED <<vsync, frame>>
          BY <1>3, <2>3, <3>1, <3>3
             DEF MCNext, Ended, vars, cameraVars, Next, Sensor, SendHalf,
                 Configure, GpioConfig, RegsFailed, RegsWritten, ResetVsync,
                 InitAgain, InitDone, Photo, Take, ReadFirst, ReadSecond,
                 Release
        <4> QED
          BY <1>3, <2>3, <3>1, <4>1 DEF MCNext, Waiting
      <3> QED
        BY <3>2, <3>3
    <2> QED
      BY <1>3, <2>1, <2>2, <2>3
  <1>4. Waiting => ReadyInTime
    BY DEF Waiting, ReadyInTime
  <1> QED
    BY <1>1, <1>2, <1>3, <1>4, CameraNext, PTL DEF MCSpec
=============================================================================
