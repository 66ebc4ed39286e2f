------------------------------ MODULE Readings ------------------------------
(***************************************************************************)
(* The I2C sensors over the bus they share: the initialisation and the     *)
(* polls of the magnetometer (i2c_HMC5883L.c), the barometer (i2c_BME280.c *)
(* and the Bosch driver it calls, Bosch_BME280.c and its self test) and    *)
(* the light sensor (i2c_LTR390.c), one transfer a step, and the order in  *)
(* which mainFuncInit and the loop of main.c call them.                    *)
(*                                                                         *)
(* The structures of the sensors are in module Sensors and the periods in  *)
(* module Polls; here a poll is due or not.                                *)
(***************************************************************************)
EXTENDS I2cBus, Naturals

CONSTANT Tries      \* try_count of bme280_init, 5 in the code

ASSUME ReadingsAssumption ==
    Tries \in Nat /\ Tries > 0 /\ Device = {"hmc", "bme", "ltr"}

VARIABLES
    at,         \* the transfer, or the test of a poll, that comes next
    looping,    \* the loop of main() has been reached
    ok,         \* initStatus == RT_EOK
    tries,      \* try_count
    back,       \* where the Bosch driver goes on after the settings
    mode,       \* "off", "light" or "uv", the mode of the LTR390
    \* history variables
    conf,       \* the configuration registers that hold what was meant
    lost,       \* the devices without power at some time in this round of
                \* mainFuncInit or since it
    got         \* the quality of what was stored last for the display

driver == <<at, looping, ok, tries, back>>
vars == <<bus, driver, mode, conf, lost, got>>

\* The registers my_..._init configures.
Registers == [hmc |-> {"hmcA", "hmcB"}, bme |-> {},
              ltr |-> {"ltrRate", "ltrGain"}]

Init ==
    /\ BusInit
    /\ at = "hmcTest" /\ looping = FALSE /\ ok = TRUE
    /\ tries = Tries /\ back = "settings"
    /\ mode = "off" /\ conf = {} /\ lost = {} /\ got = "none"

-----------------------------------------------------------------------------
(* The magnetometer *)

\* The sensor goes back to its caller with an error.
HmcFailed ==
    /\ at' = IF looping THEN "bmeDue" ELSE "bmeId"
    /\ ok' = (looping /\ ok)
    /\ UNCHANGED <<looping, tries, back>>

\* self_test: the identification must be read as it is.
HmcTest ==
    /\ at = "hmcTest"
    /\ \E done \in BOOLEAN, q \in Quality :
          /\ ReadRegs("hmc", done, q)
          /\ IF q = "asked"
             THEN at' = "hmcA" /\ UNCHANGED <<looping, ok, tries, back>>
             ELSE HmcFailed
    /\ UNCHANGED <<mode, conf, lost, got>>

\* One of the two writes of my_hmc5883l_init.
HmcConfigure(reg, then) ==
    /\ at = reg
    /\ \E done, took \in BOOLEAN :
          /\ WriteReg("hmc", done, took)
          /\ conf' = IF took THEN conf \cup {reg} ELSE conf
          /\ IF done THEN at' = then /\ UNCHANGED <<looping, ok, tries, back>>
             ELSE HmcFailed
    /\ UNCHANGED <<mode, lost, got>>

\* my_hmc5883l_get_data: a single measurement is started.
HmcTrigger ==
    /\ at = "hmcTrigger"
    /\ \E done, took \in BOOLEAN :
          /\ WriteReg("hmc", done, took)
          /\ IF done
             THEN at' = "hmcData" /\ UNCHANGED <<looping, ok, tries, back>>
             ELSE HmcFailed
    /\ UNCHANGED <<mode, conf, lost, got>>

\* my_hmc5883l_get_data: the data is read.
HmcData ==
    /\ at = "hmcData"
    /\ \E done \in BOOLEAN, q \in Quality :
          /\ ReadRegs("hmc", done, q)
          /\ got' = IF done THEN q ELSE got
    /\ at' = "bmeDue"
    /\ UNCHANGED <<looping, ok, tries, back, mode, conf, lost>>

-----------------------------------------------------------------------------
(* The barometer *)

\* The transfers of the Bosch driver that go on in order: the soft reset and
\* the calibration data of bme280_init, bme280_crc_selftest, the settings of
\* set_osr_settings and set_filter_standby_settings, put_device_to_sleep,
\* and write_power_mode.
BmeThen == [reset |-> "calib1", calib1 |-> "calib2", calib2 |-> "crc0",
            crc0 |-> "crc1", crc1 |-> "crc2", crc2 |-> "bmeMode",
            saved |-> "sleepReset", sleepReset |-> "hum",
            hum |-> "humRead", humRead |-> "humBack", humBack |-> "ptRead",
            ptRead |-> "pt", pt |-> "filterRead", filterRead |-> "filter",
            power |-> "powerWrite"]

BmeWrites == {"reset", "sleepReset", "hum", "humBack", "pt", "filter",
              "powerWrite"}

\* The transfers that set the humidity oversampling.
Humidity == {"hum", "humRead", "humBack"}

\* The sensor goes back to its caller with an error.
BmeFailed ==
    /\ at' = IF looping THEN "ltrDue" ELSE "ltrRate"
    /\ ok' = (looping /\ ok)
    /\ UNCHANGED <<looping, tries, back>>

\* --try_count leaves a try.
TriesLeft == tries > 1

\* bme280_init: the identification is read, five times at most.
BmeId ==
    /\ at = "bmeId"
    /\ \E done \in BOOLEAN, q \in Quality :
          /\ ReadRegs("bme", done, q)
          /\ IF q = "asked"
             THEN at' = "reset" /\ UNCHANGED <<looping, ok, tries, back>>
             ELSE IF TriesLeft
             THEN tries' = tries - 1 /\ UNCHANGED <<at, looping, ok, back>>
             ELSE BmeFailed
    /\ UNCHANGED <<mode, conf, lost, got>>

\* Faulty variant: a write of the Bosch driver that failed is written again.
AfterBmeAgain(label, done) ==
    IF done THEN at' = BmeThen[label] /\ UNCHANGED <<looping, ok, tries, back>>
    ELSE IF label \in BmeWrites
    THEN at' = label /\ UNCHANGED <<looping, ok, tries, back>>
    ELSE BmeFailed

\* Where the Bosch driver goes on: set_osr_settings overwrites an error of
\* the humidity by the result for pressure and temperature.
AfterBme(label, done) ==
    IF done THEN at' = BmeThen[label] /\ UNCHANGED <<looping, ok, tries, back>>
    ELSE IF label \in Humidity
    THEN at' = "ptRead" /\ UNCHANGED <<looping, ok, tries, back>>
    ELSE BmeFailed

\* bme280_get_regs and bme280_set_regs.  The self test fails when its sums
\* differ; the calibration data is stored.
BmeTransfer(label) ==
    /\ at = label
    /\ \E done \in BOOLEAN :
          /\ IF label \in BmeWrites
             THEN /\ \E took \in BOOLEAN : WriteRegs("bme", done, took)
                  /\ got' = got
             ELSE \E q \in Quality :
                     /\ ReadRegs("bme", done, q)
                     /\ got' = IF label \in {"calib1", "calib2"} /\ done
                               THEN q ELSE got
          /\ \/ AfterBme(label, done)
             \/ (label = "crc2" /\ BmeFailed)
    /\ UNCHANGED <<mode, conf, lost>>

\* The last of the settings is written: of bme280_set_sensor_settings, or of
\* put_device_to_sleep, called from there or from bme280_set_sensor_mode.
BmeFilter ==
    /\ at = "filter"
    /\ \E done, took \in BOOLEAN :
          /\ WriteRegs("bme", done, took)
          /\ IF ~done THEN BmeFailed
             ELSE /\ at' = CASE back = "settings" -> "hum"
                             [] back = "mode"     -> "sensorMode"
                             [] back = "power"    -> "power"
                  /\ back' = "mode"
                  /\ UNCHANGED <<looping, ok, tries>>
    /\ UNCHANGED <<mode, conf, lost, got>>

\* bme280_get_sensor_mode, in bme280_set_sensor_settings and in
\* bme280_set_sensor_mode: a device that is not asleep is put to sleep first.
BmeMode(label, then, return) ==
    /\ at = label
    /\ \E done \in BOOLEAN, q \in Quality :
          /\ ReadRegs("bme", done, q)
          /\ \/ ~done /\ BmeFailed
             \/ /\ done
                /\ \/ at' = then /\ back' = "mode"
                   \/ at' = "saved" /\ back' = return
                /\ UNCHANGED <<looping, ok, tries>>
    /\ UNCHANGED <<mode, conf, lost, got>>

\* Faulty variant: the result of the last write is not looked at.
BmePowerUnchecked ==
    /\ at = "powerWrite"
    /\ \E done, took \in BOOLEAN : WriteRegs("bme", done, took)
    /\ at' = IF looping THEN "bmeData" ELSE "ltrRate"
    /\ UNCHANGED <<looping, ok, tries, back, mode, conf, lost, got>>

\* write_power_mode: the forced mode is set, the last step of my_bme280_init.
BmePower ==
    /\ at = "powerWrite"
    /\ \E done, took \in BOOLEAN :
          /\ WriteRegs("bme", done, took)
          /\ IF done THEN /\ at' = IF looping THEN "bmeData" ELSE "ltrRate"
                          /\ UNCHANGED <<looping, ok, tries, back>>
             ELSE BmeFailed
    /\ UNCHANGED <<mode, conf, lost, got>>

\* bme280_get_sensor_data
BmeData ==
    /\ at = "bmeData"
    /\ \E done \in BOOLEAN, q \in Quality :
          /\ ReadRegs("bme", done, q)
          /\ got' = IF done THEN q ELSE got
    /\ at' = "ltrDue"
    /\ UNCHANGED <<looping, ok, tries, back, mode, conf, lost>>

-----------------------------------------------------------------------------
(* The light sensor *)

\* One of the two writes of my_ltr390_init.
LtrConfigure(reg, then) ==
    /\ at = reg
    /\ \E done, took \in BOOLEAN :
          /\ WriteReg("ltr", done, took)
          /\ conf' = IF took THEN conf \cup {reg} ELSE conf
          /\ at' = IF done THEN then ELSE "rest"
          /\ ok' = (ok /\ done)
    /\ UNCHANGED <<looping, tries, back, mode, lost, got>>

\* my_ltr390_get_data: write && write.  The second register is written when
\* the first was not, and the poll fails when neither was.
LtrControl(label, other, then, value) ==
    /\ at = label
    /\ \E done, took \in BOOLEAN :
          /\ WriteReg("ltr", done, took)
          /\ mode' = IF took THEN value ELSE mode
          /\ at' = IF done THEN then ELSE other
    /\ UNCHANGED <<looping, ok, tries, back, conf, lost, got>>

LtrInterrupt(label, then) ==
    /\ at = label
    /\ \E done, took \in BOOLEAN :
          /\ WriteReg("ltr", done, took)
          /\ at' = IF done THEN then ELSE "hmcDue"
    /\ UNCHANGED <<looping, ok, tries, back, mode, conf, lost, got>>

\* my_ltr390_get_data: new data is ready, or the value is left as it was.  A
\* device in standby measures nothing, and its own status says so.
LtrStatus(label, ready, notReady) ==
    /\ at = label
    /\ \E done \in BOOLEAN, q \in Quality :
          /\ ReadRegs("ltr", done, q)
          /\ at' \in IF ~done THEN {"hmcDue"}
                     ELSE IF mode = "off" /\ q = "asked" THEN {notReady}
                     ELSE {ready, notReady}
    /\ UNCHANGED <<looping, ok, tries, back, mode, conf, lost, got>>

LtrData(label, then) ==
    /\ at = label
    /\ \E done \in BOOLEAN, q \in Quality :
          /\ ReadRegs("ltr", done, q)
          /\ got' = IF done THEN q ELSE got
          /\ at' = IF done THEN then ELSE "hmcDue"
    /\ UNCHANGED <<looping, ok, tries, back, mode, conf, lost>>

-----------------------------------------------------------------------------
(* main.c *)

\* Faulty variant: mainFuncInit is not repeated for a sensor that failed.
RestAnyway ==
    /\ at = "rest"
    /\ at' = "hmcDue" /\ looping' = TRUE
    /\ tries' = Tries /\ back' = "settings"
    /\ UNCHANGED <<bus, ok, mode, conf, lost, got>>

\* The end of mainFuncInit: with the camera and the card initialised too the
\* loop begins, or else mainFuncInit is called again.
Rest ==
    /\ at = "rest"
    /\ \/ /\ ok /\ at' = "hmcDue" /\ looping' = TRUE
          /\ UNCHANGED <<ok, lost>>
       \/ /\ at' = "hmcTest" /\ ok' = TRUE
          /\ lost' = Device \ powered
          /\ UNCHANGED looping
    /\ tries' = Tries /\ back' = "settings"
    /\ UNCHANGED <<bus, mode, conf, got>>

\* my_..._test: the poll is due.
Due(label, first) ==
    /\ at = label
    /\ at' = first
    /\ UNCHANGED <<bus, looping, ok, tries, back, mode, conf, lost, got>>

\* my_..._test: it is not.
NotDue(label, then) ==
    /\ at = label
    /\ at' = then
    /\ UNCHANGED <<bus, looping, ok, tries, back, mode, conf, lost, got>>

\* A device loses its power, and with it its registers.
PowerLost(d) ==
    /\ Lose(d)
    /\ conf' = conf \ Registers[d]
    /\ lost' = lost \cup {d}
    /\ mode' = IF d = "ltr" THEN "off" ELSE mode
    /\ UNCHANGED <<driver, got>>

PowerBack(d) ==
    /\ Regain(d)
    /\ UNCHANGED <<driver, mode, conf, lost, got>>

Hmc ==
    \/ HmcTest
    \/ HmcConfigure("hmcA", "hmcB") \/ HmcConfigure("hmcB", "bmeId")
    \/ HmcTrigger \/ HmcData

Bme ==
    \/ BmeId
    \/ \E label \in DOMAIN BmeThen : BmeTransfer(label)
    \/ BmeFilter
    \/ BmeMode("bmeMode", "hum", "settings")
    \/ BmeMode("sensorMode", "power", "power")
    \/ BmePower \/ BmeData

Ltr ==
    \/ LtrConfigure("ltrRate", "ltrGain") \/ LtrConfigure("ltrGain", "rest")
    \/ LtrControl("lightCtrl", "lightInt", "lightStatus", "light")
    \/ LtrInterrupt("lightInt", "lightStatus")
    \/ LtrStatus("lightStatus", "lux", "uvCtrl") \/ LtrData("lux", "uvCtrl")
    \/ LtrControl("uvCtrl", "uvInt", "uvStatus", "uv")
    \/ LtrInterrupt("uvInt", "uvStatus")
    \/ LtrStatus("uvStatus", "uvi", "hmcDue") \/ LtrData("uvi", "hmcDue")

DuePoll ==
    \/ Due("hmcDue", "hmcTrigger") \/ Due("bmeDue", "sensorMode")
    \/ Due("ltrDue", "lightCtrl")

Main ==
    \/ Hmc \/ Bme \/ Ltr \/ Rest
    \/ NotDue("hmcDue", "bmeDue") \/ NotDue("bmeDue", "ltrDue")
    \/ NotDue("ltrDue", "hmcDue")
    \/ DuePoll

Next == Main \/ \E d \in Device : PowerLost(d) \/ PowerBack(d)

\* The main thread runs, and the polls become due again and again.
Spec == Init /\ [][Next]_vars /\ WF_vars(Main)
             /\ SF_vars(Due("hmcDue", "hmcTrigger"))

-----------------------------------------------------------------------------
(* Properties *)

Labels ==
    {"hmcTest", "hmcA", "hmcB", "hmcTrigger", "hmcData", "bmeId", "bmeMode",
     "sensorMode", "filter", "powerWrite", "bmeData", "ltrRate", "ltrGain",
     "lightCtrl", "lightInt", "lightStatus", "lux", "uvCtrl", "uvInt",
     "uvStatus", "uvi", "rest", "hmcDue", "bmeDue", "ltrDue"}
    \cup DOMAIN BmeThen

\* Every variable has its type.
TypeOK ==
    /\ BusTypeOK
    /\ at \in Labels /\ looping \in BOOLEAN /\ ok \in BOOLEAN
    /\ tries \in 1 .. Tries /\ back \in {"settings", "mode", "power"}
    /\ mode \in {"off", "light", "uv"}
    /\ conf \subseteq {"hmcA", "hmcB", "ltrRate", "ltrGain"}
    /\ lost \subseteq Device /\ got \in Quality

\* i2c_bit_xfer, write_regs of i2c_BME280.c: a write of the BME280 that fails
\* without a stop condition is never followed by another write of it, so that
\* the transfer that comes next gives the bus back, whatever fails.
ClaimReleased == claimed => at \notin BmeWrites

\* read_regs of all drivers: a value that is stored, or a calibration value,
\* is never one of another register, whatever was lost before or is now.
ReadsReachRegister == got # "other"

\* mainFuncInit: the loop begins with the magnetometer and the light sensor
\* configured, unless one lost its power meanwhile, although a write to the
\* light sensor may succeed that the barometer has taken.
StartsConfigured ==
    looping => \A d \in Device \ lost : Registers[d] \subseteq conf

\* The loop of main.c: a bus that was left claimed is given back.
BusFreed == claimed ~> ~claimed

\* my_ltr390_get_data: the value stored as lux is never one of the UV mode
\* that the poll before has left ("ltr390 cannot be configured!" is the answer
\* when the light mode could not be set).
LuxInLightMode == [][at = "lux" /\ at' = "uvCtrl" => mode # "uv"]_vars

=============================================================================
