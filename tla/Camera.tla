------------------------------- MODULE Camera -------------------------------
(***************************************************************************)
(* The OV7725 camera behind its FIFO, src/applications/bsp_ov7725.c: the   *)
(* interrupt of VSYNC fills the FIFO, the main thread empties it onto the  *)
(* LCD, and Ov7725_vsync is what they share, with no lock.                 *)
(*                                                                         *)
(* The camera sends a frame in two halves.  The FIFO is a ring of Capacity *)
(* halves, since its 393216 bytes are 2.56 frames of 320 x 240 pixels, and *)
(* is written as long as WE is high; main reads the first two halves.  A   *)
(* frame carries its number, and whether the camera was configured for the *)
(* whole of it.  What the camera sends when a register is wrong is of      *)
(* another size, and nothing in the program notices.                       *)
(***************************************************************************)
EXTENDS Naturals

CONSTANT Capacity       \* halves of a frame the FIFO holds: 5

\* A frame fits, or there would be nothing to read.
ASSUME CapacityAssumption == Capacity \in Nat /\ Capacity >= 2

VARIABLES
    \* the camera
    frame, half,        \* the frame being sent, and its halves sent so far
    configured,         \* all registers have the values of cam_mode
    sound,              \* configured since this frame began
    \* the FIFO
    we, wp, fifo,       \* write enable, write pointer, contents
    \* the program
    pc,                 \* where the main thread is
    attached,           \* my_ov7725_interrupt is attached to VSYNC
    vsync,              \* Ov7725_vsync
    shown,              \* the halves of the photo on the LCD
    last                \* the number of the photo before it

cameraVars == <<frame, half, configured, sound>>
fifoVars   == <<we, wp, fifo>>
lcdVars    == <<shown, last>>
vars == <<cameraVars, fifoVars, pc, attached, vsync, lcdVars>>

Points == {"gpio", "regs", "reset", "init", "loop", "read1", "read2", "done"}

Pixels == [no : Nat, sound : BOOLEAN]
Noise  == [no |-> 0, sound |-> FALSE]

Init ==
    /\ frame = 1 /\ half = 0 /\ configured = FALSE /\ sound = FALSE
    /\ we = FALSE /\ wp = 0 /\ fifo = [i \in 0 .. Capacity - 1 |-> Noise]
    /\ pc = "gpio" /\ attached = FALSE /\ vsync = 0
    /\ shown = [h \in {1, 2} |-> Noise] /\ last = 0

-----------------------------------------------------------------------------
(* The camera and the interrupt of VSYNC *)

\* Half a frame arrives, and is written if WE is high.  A frame of another
\* size may go on after its second half.
SendHalf ==
    /\ half < 2 \/ ~sound
    /\ half' = IF half < 2 THEN half + 1 ELSE half
    /\ IF we
       THEN /\ fifo' = [fifo EXCEPT ![wp] = [no |-> frame, sound |-> sound]]
            /\ wp' = (wp + 1) % Capacity
       ELSE UNCHANGED <<fifo, wp>>
    /\ UNCHANGED <<frame, configured, sound, we, pc, attached, vsync, lcdVars>>

\* Faulty variant: the writing goes on after the frame.
InterruptWeKept ==
    \/ vsync = 0 /\ wp' = 0 /\ we' = TRUE /\ vsync' = 1
    \/ vsync = 1 /\ vsync' = 2 /\ UNCHANGED <<we, wp>>
    \/ vsync = 2 /\ UNCHANGED <<we, wp, vsync>>

\* Faulty variant: the end of the frame is not handed over.
InterruptNoHandOver ==
    \/ vsync = 0 /\ wp' = 0 /\ we' = TRUE /\ vsync' = 1
    \/ vsync = 1 /\ we' = FALSE /\ UNCHANGED <<wp, vsync>>
    \/ vsync = 2 /\ UNCHANGED <<we, wp, vsync>>

\* my_ov7725_interrupt: start writing at address 0, stop after a frame, and
\* leave the frame alone until the main thread has taken it.
Interrupt ==
    \/ vsync = 0 /\ wp' = 0 /\ we' = TRUE /\ vsync' = 1
    \/ vsync = 1 /\ we' = FALSE /\ vsync' = 2 /\ UNCHANGED wp
    \/ vsync = 2 /\ UNCHANGED <<we, wp, vsync>>

\* A frame ends and the next one begins.  A camera that is not configured
\* sends frames of another size: one may end after any half, or before one.
VSync ==
    /\ half = 2 \/ ~sound
    /\ frame' = frame + 1 /\ half' = 0 /\ sound' = configured
    /\ IF attached THEN Interrupt ELSE UNCHANGED <<we, wp, vsync>>
    /\ UNCHANGED <<configured, fifo, pc, attached, lcdVars>>

-----------------------------------------------------------------------------
(* my_ov7725_test_init *)

\* OV7725_GPIO_Config: WE goes high, the interrupt is attached and enabled;
\* then OV7725_Init resets the camera.
GpioConfig ==
    /\ pc = "gpio" /\ pc' = "regs"
    /\ we' = TRUE /\ attached' = TRUE
    /\ configured' = FALSE /\ sound' = FALSE
    /\ UNCHANGED <<frame, half, wp, fifo, vsync, lcdVars>>

\* OV7725_Init failed six times: mainFuncInit comes back.
RegsFailed ==
    /\ pc = "regs" /\ pc' = "gpio"
    /\ UNCHANGED <<cameraVars, fifoVars, attached, vsync, lcdVars>>

\* OV7725_Init succeeded: each of its writes was acknowledged.  The setters
\* after it, up to OV7725_Window_Set, do not look at what SCCB_WriteByte and
\* SCCB_ReadByte return: a register may be left as it was, or be written with
\* a byte that was never read, and the initialisation succeeds all the same.
RegsWritten ==
    /\ pc = "regs" /\ pc' = "reset"
    /\ configured' \in BOOLEAN
    /\ UNCHANGED <<frame, half, sound, fifoVars, attached, vsync, lcdVars>>

\* Faulty variant: the frames of the camera's start are kept.
ResetVsyncMissing ==
    /\ pc = "reset" /\ pc' = "init"
    /\ UNCHANGED <<cameraVars, fifoVars, attached, vsync, lcdVars>>

\* Ov7725_vsync = 0, in my_ov7725_test_init.
ResetVsync ==
    /\ pc = "reset" /\ pc' = "init"
    /\ vsync' = 0
    /\ UNCHANGED <<cameraVars, fifoVars, attached, lcdVars>>

\* Another component failed: mainFuncInit comes back.
InitAgain ==
    /\ pc = "init" /\ pc' = "gpio"
    /\ UNCHANGED <<cameraVars, fifoVars, attached, vsync, lcdVars>>

InitDone ==
    /\ pc = "init" /\ pc' = "loop"
    /\ UNCHANGED <<cameraVars, fifoVars, attached, vsync, lcdVars>>

-----------------------------------------------------------------------------
(* my_ov7725_test, called whenever the scene is TAKE_PHOTO *)

\* if (Ov7725_vsync == 2): FIFO_PREPARE.
Take ==
    /\ pc = "loop" /\ vsync = 2 /\ pc' = "read1"
    /\ UNCHANGED <<cameraVars, fifoVars, attached, vsync, lcdVars>>

\* ImagDisp reads the FIFO from its beginning, pixel by pixel.
ReadFirst ==
    /\ pc = "read1" /\ pc' = "read2"
    /\ last' = shown[1].no
    /\ shown' = [shown EXCEPT ![1] = fifo[0]]
    /\ UNCHANGED <<cameraVars, fifoVars, attached, vsync>>

ReadSecond ==
    /\ pc = "read2" /\ pc' = "done"
    /\ shown' = [shown EXCEPT ![2] = fifo[1]]
    /\ UNCHANGED <<cameraVars, fifoVars, attached, vsync, last>>

\* Faulty variant: the frame is not given back to the interrupt.
ReleaseMissing ==
    /\ pc = "done" /\ pc' = "loop"
    /\ UNCHANGED <<cameraVars, fifoVars, attached, vsync, lcdVars>>

\* Ov7725_vsync = 0, in my_ov7725_test.
Release ==
    /\ pc = "done" /\ pc' = "loop"
    /\ vsync' = 0
    /\ UNCHANGED <<cameraVars, fifoVars, attached, lcdVars>>

-----------------------------------------------------------------------------
Sensor == SendHalf \/ VSync

Configure ==
    \/ GpioConfig \/ RegsFailed \/ RegsWritten \/ ResetVsync
    \/ InitAgain \/ InitDone

Photo == Take \/ ReadFirst \/ ReadSecond \/ Release

Next == Sensor \/ Configure \/ Photo

\* No fairness: the properties are safety properties.
Spec == Init /\ [][Next]_vars

-----------------------------------------------------------------------------
(* Properties *)

\* Type invariant: the write pointer stays inside the FIFO.
TypeOK ==
    /\ frame \in Nat /\ half \in 0 .. 2
    /\ configured \in BOOLEAN /\ sound \in BOOLEAN
    /\ we \in BOOLEAN /\ wp \in 0 .. Capacity - 1
    /\ fifo \in [0 .. Capacity - 1 -> Pixels]
    /\ pc \in Points /\ attached \in BOOLEAN /\ vsync \in 0 .. 2
    /\ shown \in [{1, 2} -> Pixels] /\ last \in Nat

\* With all registers as they should be, a photo on the LCD is one frame, not
\* the halves of two, and none that began before the registers were written,
\* however often the initialisation was repeated and wherever VSYNC came in.
PhotoIntact ==
    pc = "done" /\ configured => shown[1] = shown[2] /\ shown[1].sound

\* "new image": then a frame is displayed at most once, and none after a later
\* one.
PhotoNew == pc = "done" /\ configured => shown[1].no > last

\* What the interrupt has handed over stays what it is until the main thread
\* has displayed it, however long that takes.
HandedOver ==
    [][vsync = 2 /\ vsync' = 2 /\ pc \in {"loop", "read1", "read2", "done"}
         => fifo' = fifo]_vars
=============================================================================
