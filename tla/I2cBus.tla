------------------------------- MODULE I2cBus -------------------------------
(***************************************************************************)
(* The software I2C bus: i2c_bit_xfer of i2c-bit-ops.c, and the three      *)
(* forms in which the drivers of the sensors call it: a write in one       *)
(* message (write_reg of i2c_HMC5883L.c and i2c_LTR390.c), a write in two  *)
(* messages without a stop after the first (write_regs of i2c_BME280.c),   *)
(* and a read (read_regs of all three).  bus->retries is 0, and no message *)
(* ignores a missing acknowledge.                                          *)
(*                                                                         *)
(* A byte is acknowledged by a device or not, and an acknowledge may be    *)
(* lost in noise: the device has taken the byte, and the master gives up.  *)
(* Data read has no check, so that noise may change it.  A device may lose *)
(* its power at any time; one that does so inside a transfer is seen as    *)
(* one that does so right after it.                                        *)
(***************************************************************************)

CONSTANTS
    Device,     \* the devices on the bus
    Removable   \* those that may lose their power

ASSUME BusAssumption == Removable \subseteq Device /\ "none" \notin Device

VARIABLES
    powered,    \* the devices that have power
    claimed,    \* SCL was left low: the last transfer sent no stop
    listener    \* the device still addressed since then, or "none"

bus == <<powered, claimed, listener>>

None == "none"

\* What a read gives: nothing, what is in the register that was asked for,
\* that with bits changed by noise, or what is in some other register.
Quality == {"none", "asked", "noise", "other"}

BusInit ==
    /\ powered \in {S \in SUBSET Device : Device \ Removable \subseteq S}
    /\ claimed = FALSE /\ listener = None

BusTypeOK ==
    /\ powered \subseteq Device
    /\ claimed \in BOOLEAN
    /\ listener \in Device \cup {None}

\* i2c_stop
Stop == claimed' = FALSE /\ listener' = None

\* No stop is sent.  d may have taken the last byte, and wait for the next.
NoStop(d) == claimed' = TRUE /\ listener' \in {None} \cup ({d} \cap powered)

\* The device that takes the bytes of a transfer to d: i2c_start is no start
\* condition when SCL is low, and the bytes, address and all, go to the device
\* that listens.
Taker(d) == IF claimed THEN listener ELSE d

\* Whether d takes all bytes of a write (took), and whether every one of them
\* is acknowledged to the master (ok).
Sent(d, ok, took) ==
    /\ ok => Taker(d) \in powered
    /\ took => ~claimed /\ d \in powered
    /\ ok /\ ~claimed => took

\* Faulty variant: the stop condition is sent on success only.
WriteRegNoStop(d, ok, took) ==
    /\ Sent(d, ok, took)
    /\ IF ok THEN Stop ELSE NoStop(d)
    /\ UNCHANGED powered

\* write_reg of the HMC5883L and the LTR390: one message, stopped always
WriteReg(d, ok, took) ==
    /\ Sent(d, ok, took)
    /\ Stop
    /\ UNCHANGED powered

\* write_regs of the BME280: a failure in the address or the register, which
\* are the message with RT_I2C_NO_STOP, sends no stop condition.
WriteRegs(d, ok, took) ==
    /\ Sent(d, ok, took)
    /\ \/ Stop /\ (ok \/ Taker(d) \in powered)
       \/ ~ok /\ ~took /\ NoStop(Taker(d))
    /\ UNCHANGED powered

\* read_regs: the register is written, i2c_restart is a start condition in
\* any case, and the data is read; stopped always.  If the first half went to
\* a listener, the second reads from where d was pointed before.
ReadRegs(d, ok, quality) ==
    /\ ok => {d, Taker(d)} \subseteq powered
    /\ quality \in CASE ~ok -> {"none"}
                     [] ok /\ ~claimed -> {"asked", "noise"}
                     [] ok /\ claimed /\ listener = d ->
                           {"asked", "noise", "other"}
                     [] ok /\ claimed /\ listener # d -> {"noise", "other"}
    /\ Stop
    /\ UNCHANGED powered

\* d loses its power.
Lose(d) ==
    /\ d \in powered \cap Removable
    /\ powered' = powered \ {d}
    /\ listener' = IF listener = d THEN None ELSE listener
    /\ UNCHANGED claimed

\* d has power again.
Regain(d) ==
    /\ d \in Device \ powered
    /\ powered' = powered \cup {d}
    /\ UNCHANGED <<claimed, listener>>

=============================================================================
