-------------------------- MODULE Readings_proofs ---------------------------
(***************************************************************************)
(* Proofs about Readings, for every number of tries and every set of       *)
(* devices that may lose their power.                                      *)
(*                                                                         *)
(* Only a write of the BME280 can leave the bus claimed, and what follows  *)
(* its failure is one of the few steps of Freeing, all of which stop the   *)
(* bus (ClaimInv).  None of them reads a value that is stored.  In the     *)
(* last round of mainFuncInit no sensor has failed, so that no write to    *)
(* the light sensor went to another device (ConfInv).                      *)
(***************************************************************************)
EXTENDS Readings, TLAPS

\* The steps of mainFuncInit only, of the loop only, and of both.
InitOnly == {"hmcTest", "hmcA", "hmcB", "bmeId", "reset", "calib1", "calib2",
             "crc0", "crc1", "crc2", "bmeMode", "ltrRate", "ltrGain", "rest"}
LoopOnly == {"hmcDue", "hmcTrigger", "hmcData", "bmeDue", "bmeData", "ltrDue",
             "lightCtrl", "lightInt", "lightStatus", "lux",
             "uvCtrl", "uvInt", "uvStatus", "uvi"}
Shared   == {"saved", "sleepReset", "hum", "humRead", "humBack", "ptRead",
             "pt", "filterRead", "filter", "sensorMode", "power",
             "powerWrite"}

\* The steps that may find the bus claimed.
Freeing == {"ptRead", "ltrRate", "hmcDue", "bmeDue", "ltrDue", "hmcTrigger",
            "sensorMode", "lightCtrl"}

\* The steps that store a value.
Storing == {"calib1", "calib2", "hmcData", "bmeData", "lux", "uvi"}

PhaseInv == at \in (IF looping THEN LoopOnly ELSE InitOnly) \cup Shared

ClaimInv == claimed => at \in Freeing

\* A device was configured in this round, or lost its power since it began.
Set(d) == d \in lost \/ Registers[d] \subseteq conf

ConfInv ==
    /\ ok /\ at = "ltrRate" => ~claimed
    /\ ok /\ at = "hmcB" => "hmc" \in lost \/ "hmcA" \in conf
    /\ ok /\ at = "ltrGain" => "ltr" \in lost \/ "ltrRate" \in conf
    /\ (ok /\ at \notin {"hmcTest", "hmcA", "hmcB"}) \/ looping => Set("hmc")
    /\ (ok /\ at = "rest") \/ looping => Set("ltr")

\* The inductive invariant.
ReadingsInv ==
    TypeOK /\ PhaseInv /\ ClaimInv /\ ReadsReachRegister /\ ConfInv

-----------------------------------------------------------------------------
\* Where the Bosch driver goes on stays within its phase.
LEMMA BmeThenPhase ==
    \A l \in DOMAIN BmeThen :
        /\ l \in Labels /\ BmeThen[l] \in Labels
        /\ l \in InitOnly => BmeThen[l] \in InitOnly \ {"hmcTest", "hmcA",
                                 "hmcB", "ltrRate", "ltrGain", "rest"}
        /\ l \in Shared => BmeThen[l] \in Shared
        /\ l \in InitOnly \cup Shared
        /\ l \notin {"hmcTest", "hmcA", "hmcB", "ltrRate", "ltrGain", "rest"}
        /\ l \notin {"filter", "sensorMode", "powerWrite"}
  BY SMT DEF BmeThen, Labels, InitOnly, Shared

\* The phases are made of labels.
LEMMA PhaseLabels ==
    InitOnly \cup LoopOnly \cup Shared \subseteq Labels
  BY SMT DEF InitOnly, LoopOnly, Shared, Labels, BmeThen

\* A write in one message leaves the bus free, and reaches its device when
\* it succeeds and the bus was free.
LEMMA WriteRegFacts ==
    ASSUME NEW d, NEW done \in BOOLEAN, NEW took \in BOOLEAN, BusTypeOK,
           WriteReg(d, done, took)
    PROVE  /\ BusTypeOK' /\ claimed' = FALSE /\ powered' = powered
           /\ done /\ ~claimed => took
  BY DEF WriteReg, Sent, Stop, BusTypeOK

\* A write in two messages claims the bus only when it fails.
LEMMA WriteRegsFacts ==
    ASSUME NEW done \in BOOLEAN, NEW took \in BOOLEAN, BusTypeOK,
           WriteRegs("bme", done, took)
    PROVE  BusTypeOK' /\ (done => claimed' = FALSE) /\ powered' = powered
  BY DEF WriteRegs, Stop, NoStop, BusTypeOK, None

\* A read leaves the bus free, and on a free bus it is of the register.
LEMMA ReadRegsFacts ==
    ASSUME NEW d, NEW done \in BOOLEAN, NEW q \in Quality, BusTypeOK,
           ReadRegs(d, done, q)
    PROVE  /\ BusTypeOK' /\ claimed' = FALSE /\ powered' = powered
           /\ ~claimed => q # "other"
  <1>1. ~claimed => q # "other"
    BY DEF ReadRegs
  <1> QED
    BY <1>1 DEF ReadRegs, Stop, BusTypeOK

-----------------------------------------------------------------------------
\* The invariant holds at the start.
LEMMA ReadingsInit == Init => ReadingsInv
  <1> SUFFICES ASSUME Init PROVE ReadingsInv
    OBVIOUS
  <1>1. BusTypeOK
    BY Zenon DEF Init, BusInit, BusTypeOK
  <1>2. at \in Labels /\ tries \in 1 .. Tries
    BY ReadingsAssumption, SMT DEF Init, Labels
  <1>3. TypeOK
    BY <1>1, <1>2, Zenon DEF Init, TypeOK, Quality
  <1> QED
    BY <1>3, SMT DEF Init, BusInit, ReadingsInv, PhaseInv, ClaimInv,
                     ReadsReachRegister, ConfInv, InitOnly

\* The steps of the magnetometer keep the invariant.
LEMMA HmcKeeps == ReadingsInv /\ Hmc => ReadingsInv'
  <1> SUFFICES ASSUME ReadingsInv, Hmc PROVE ReadingsInv'
    OBVIOUS
  <1>0. BusTypeOK
    BY DEF ReadingsInv, TypeOK
  <1>1. CASE HmcTest
    <2> PICK done \in BOOLEAN, q \in Quality :
             /\ ReadRegs("hmc", done, q)
             /\ IF q = "asked"
                THEN at' = "hmcA" /\ UNCHANGED <<looping, ok, tries, back>>
                ELSE HmcFailed
      BY <1>1 DEF HmcTest
    <2>1. BusTypeOK' /\ claimed' = FALSE
      BY <1>0, ReadRegsFacts
    <2>2. /\ at = "hmcTest" /\ ~looping
          /\ UNCHANGED <<mode, conf, lost, got, looping, tries, back>>
          /\ at' \in {"hmcA", "bmeId"} /\ ok' \in BOOLEAN /\ (ok' => ok)
          /\ at' = "bmeId" => ~ok'
      BY <1>1, SMT DEF HmcTest, HmcFailed, ReadingsInv, TypeOK, PhaseInv,
                       LoopOnly, Shared
    <2> QED
      BY <2>1, <2>2, SMT
         DEF ReadingsInv, TypeOK, PhaseInv, ClaimInv, ReadsReachRegister,
             ConfInv, Set, Labels, InitOnly
  <1>2. ASSUME NEW reg \in {"hmcA", "hmcB"},
               NEW then \in {"hmcB", "bmeId"},
               reg = "hmcA" <=> then = "hmcB",
               HmcConfigure(reg, then)
        PROVE  ReadingsInv'
    <2> PICK done \in BOOLEAN, took \in BOOLEAN :
             /\ WriteReg("hmc", done, took)
             /\ conf' = IF took THEN conf \cup {reg} ELSE conf
             /\ IF done
                THEN at' = then /\ UNCHANGED <<looping, ok, tries, back>>
                ELSE HmcFailed
      BY <1>2 DEF HmcConfigure
    <2>1. BusTypeOK' /\ claimed' = FALSE /\ (done /\ ~claimed => took)
      BY <1>0, WriteRegFacts
    <2>2. /\ at = reg /\ ~looping /\ ~claimed
          /\ UNCHANGED <<mode, lost, got, looping, tries, back>>
          /\ at' \in {then, "bmeId"} /\ ok' \in BOOLEAN /\ (ok' => ok)
          /\ ok' => done /\ at' = then
      BY <1>2, SMT DEF HmcConfigure, HmcFailed, ReadingsInv, TypeOK, PhaseInv,
                       LoopOnly, Shared, ClaimInv, Freeing
    <2>3. ok' => reg \in conf'
      BY <2>1, <2>2
    <2>4. conf' \subseteq {"hmcA", "hmcB", "ltrRate", "ltrGain"}
          /\ conf \subseteq conf'
      BY <1>2, SMT DEF ReadingsInv, TypeOK
    <2>5. TypeOK' /\ PhaseInv' /\ ClaimInv' /\ ReadsReachRegister'
      BY <1>2, <2>1, <2>2, <2>4, SMT
         DEF ReadingsInv, TypeOK, PhaseInv, ClaimInv, ReadsReachRegister,
             Labels, InitOnly
    <2>6. ConfInv'
      BY <1>2, <2>2, <2>3, <2>4, SMT
         DEF ReadingsInv, ConfInv, Set, Registers
    <2> QED
      BY <2>5, <2>6 DEF ReadingsInv
  <1>3. CASE HmcTrigger
    <2> PICK done \in BOOLEAN, took \in BOOLEAN :
             /\ WriteReg("hmc", done, took)
             /\ IF done
                THEN at' = "hmcData" /\ UNCHANGED <<looping, ok, tries, back>>
                ELSE HmcFailed
      BY <1>3 DEF HmcTrigger
    <2>1. BusTypeOK' /\ claimed' = FALSE
      BY <1>0, WriteRegFacts
    <2>2. /\ at = "hmcTrigger" /\ looping
          /\ UNCHANGED <<mode, conf, lost, got, looping, tries, back>>
          /\ at' \in {"hmcData", "bmeDue"} /\ ok' = ok
      BY <1>3, SMT DEF HmcTrigger, HmcFailed, ReadingsInv, TypeOK, PhaseInv,
                       InitOnly, Shared
    <2> QED
      BY <2>1, <2>2, SMT
         DEF ReadingsInv, TypeOK, PhaseInv, ClaimInv, ReadsReachRegister,
             ConfInv, Set, Labels, LoopOnly
  <1>4. CASE HmcData
    <2> PICK done \in BOOLEAN, q \in Quality :
             /\ ReadRegs("hmc", done, q)
             /\ got' = IF done THEN q ELSE got
      BY <1>4 DEF HmcData
    <2>1. BusTypeOK' /\ claimed' = FALSE /\ (~claimed => q # "other")
      BY <1>0, ReadRegsFacts
    <2>2. ~claimed /\ looping
      BY <1>4, SMT DEF HmcData, ReadingsInv, ClaimInv, Freeing, PhaseInv,
                       InitOnly, Shared
    <2> QED
      BY <1>4, <2>1, <2>2, SMT
         DEF HmcData, ReadingsInv, TypeOK, PhaseInv, ClaimInv,
             ReadsReachRegister, ConfInv, Set, Labels, LoopOnly
  <1> QED
    BY <1>1, <1>2, <1>3, <1>4 DEF Hmc

\* A failure of the barometer goes on to the light sensor.
LEMMA BmeFailedFacts ==
    ASSUME TypeOK, BmeFailed
    PROVE  /\ UNCHANGED <<looping, tries, back>>
           /\ looping => at' = "ltrDue" /\ ok' = ok
           /\ ~looping => at' = "ltrRate" /\ ok' = FALSE
           /\ ok' \in BOOLEAN
  BY Zenon DEF BmeFailed, TypeOK

\* What a step of the barometer has to do for the invariant to be kept.
LEMMA BmeStep ==
    ASSUME ReadingsInv, BusTypeOK', UNCHANGED <<looping, mode, conf, lost>>,
           tries' \in 1 .. Tries, back' \in {"settings", "mode", "power"},
           got' \in Quality \ {"other"}, ok' \in BOOLEAN, ok' => ok,
           at \in (InitOnly \cup LoopOnly \cup Shared)
                 \ {"hmcTest", "hmcA", "hmcB", "ltrRate", "ltrGain", "rest"},
           at' \in (IF looping THEN LoopOnly ELSE InitOnly) \cup Shared,
           at' \notin {"hmcTest", "hmcA", "hmcB", "ltrGain", "rest"},
           at' = "ltrRate" => ~ok' \/ ~claimed',
           claimed' => at' \in Freeing
    PROVE  ReadingsInv'
  <1>1. at' \in Labels
    BY PhaseLabels, SMT
  <1>2. TypeOK' /\ PhaseInv' /\ ClaimInv' /\ ReadsReachRegister'
    BY <1>1, Zenon DEF ReadingsInv, TypeOK, PhaseInv, ClaimInv,
                       ReadsReachRegister
  <1>3. ConfInv'
    BY SMT DEF ReadingsInv, ConfInv, Set
  <1> QED
    BY <1>2, <1>3 DEF ReadingsInv

\* A step of the barometer that fails keeps the invariant.
LEMMA BmeFailedKeeps ==
    ASSUME ReadingsInv, BmeFailed, BusTypeOK', UNCHANGED <<mode, conf, lost>>,
           got' \in Quality \ {"other"},
           at \in (InitOnly \cup LoopOnly \cup Shared)
                 \ {"hmcTest", "hmcA", "hmcB", "ltrRate", "ltrGain", "rest"}
    PROVE  ReadingsInv'
  <1>1. /\ "ltrDue" \in LoopOnly /\ "ltrDue" \in Freeing
        /\ "ltrRate" \in InitOnly /\ "ltrRate" \in Freeing
        /\ "ltrDue" \notin {"hmcTest", "hmcA", "hmcB", "ltrRate",
                            "ltrGain", "rest"}
        /\ "ltrRate" \notin {"hmcTest", "hmcA", "hmcB", "ltrGain", "rest"}
    BY SMT DEF LoopOnly, InitOnly, Freeing
  <1>2. /\ TypeOK /\ ok \in BOOLEAN /\ looping \in BOOLEAN
        /\ tries \in 1 .. Tries /\ back \in {"settings", "mode", "power"}
    BY Zenon DEF ReadingsInv, TypeOK
  <1>3. /\ UNCHANGED <<looping, tries, back>> /\ ok' \in BOOLEAN
        /\ looping => at' = "ltrDue" /\ ok' = ok
        /\ ~looping => at' = "ltrRate" /\ ok' = FALSE
    BY <1>2, BmeFailedFacts
  <1> QED
    BY <1>1, <1>2, <1>3, BmeStep, SMT

\* The steps of the barometer keep the invariant.
LEMMA BmeKeeps == ReadingsInv /\ Bme => ReadingsInv'
  <1> SUFFICES ASSUME ReadingsInv, Bme PROVE ReadingsInv'
    OBVIOUS
  <1>0. /\ BusTypeOK /\ TypeOK /\ got \in Quality \ {"other"}
        /\ ok \in BOOLEAN /\ tries \in 1 .. Tries
        /\ back \in {"settings", "mode", "power"} /\ looping \in BOOLEAN
        /\ PhaseInv /\ (claimed => at \in Freeing)
    BY Zenon DEF ReadingsInv, TypeOK, ReadsReachRegister, ClaimInv
  <1>1. CASE BmeId
    <2> PICK done \in BOOLEAN, q \in Quality :
             /\ ReadRegs("bme", done, q)
             /\ IF q = "asked"
                THEN at' = "reset" /\ UNCHANGED <<looping, ok, tries, back>>
                ELSE IF TriesLeft
                THEN tries' = tries - 1 /\ UNCHANGED <<at, looping, ok, back>>
                ELSE BmeFailed
      BY <1>1 DEF BmeId
    <2>1. BusTypeOK' /\ claimed' = FALSE
      BY <1>0, ReadRegsFacts
    <2>2. at = "bmeId" /\ ~looping /\ UNCHANGED <<mode, conf, lost, got>>
      BY <1>0, <1>1, SMT DEF BmeId, PhaseInv, LoopOnly, Shared
    <2>3. CASE at' = "reset" /\ UNCHANGED <<looping, ok, tries, back>>
      BY <1>0, <2>1, <2>2, <2>3, BmeStep, SMT
         DEF InitOnly, LoopOnly, Shared
    <2>4. CASE /\ TriesLeft
               /\ tries' = tries - 1 /\ UNCHANGED <<at, looping, ok, back>>
      <3>1. tries' \in 1 .. Tries
        BY <1>0, <2>4, ReadingsAssumption, SMT DEF TriesLeft
      <3> QED
        BY <1>0, <2>1, <2>2, <2>4, <3>1, BmeStep, SMT
           DEF InitOnly, LoopOnly, Shared
    <2>5. CASE BmeFailed
      BY <1>0, <2>1, <2>2, <2>5, BmeFailedKeeps, SMT DEF InitOnly
    <2> QED
      BY <2>3, <2>4, <2>5
  <1>2. ASSUME NEW l \in DOMAIN BmeThen, BmeTransfer(l) PROVE ReadingsInv'
    <2> PICK done \in BOOLEAN :
             /\ IF l \in BmeWrites
                THEN /\ \E took \in BOOLEAN : WriteRegs("bme", done, took)
                     /\ got' = got
                ELSE \E q \in Quality :
                        /\ ReadRegs("bme", done, q)
                        /\ got' = IF l \in {"calib1", "calib2"} /\ done
                                  THEN q ELSE got
             /\ \/ AfterBme(l, done)
                \/ (l = "crc2" /\ BmeFailed)
      BY <1>2 DEF BmeTransfer
    <2>1. /\ at = l /\ UNCHANGED <<mode, conf, lost>>
          /\ l \in InitOnly \cup Shared
          /\ l \notin {"hmcTest", "hmcA", "hmcB", "ltrRate", "ltrGain", "rest"}
          /\ l \in InitOnly => BmeThen[l] \in InitOnly
          /\ l \in Shared => BmeThen[l] \in Shared
          /\ BmeThen[l] \notin {"hmcTest", "hmcA", "hmcB", "ltrRate",
                               "ltrGain", "rest"}
      <3>1. Shared \cap {"hmcTest", "hmcA", "hmcB", "ltrRate",
                         "ltrGain", "rest"} = {}
        BY SMT DEF Shared
      <3> QED
        BY <1>2, <3>1, BmeThenPhase, Zenon DEF BmeTransfer
    <2>2. BusTypeOK' /\ got' \in Quality \ {"other"}
          /\ (claimed' => ~done /\ l \in BmeWrites)
      <3>1. CASE l \in BmeWrites
        BY <3>1, <1>0, WriteRegsFacts, Zenon
      <3>2. CASE l \notin BmeWrites
        <4>1. PICK q \in Quality :
                 /\ ReadRegs("bme", done, q)
                 /\ got' = IF l \in {"calib1", "calib2"} /\ done
                           THEN q ELSE got
          BY <3>2
        <4>2. /\ BusTypeOK' /\ claimed' = FALSE
              /\ ~claimed => q # "other"
          BY <1>0, <4>1, ReadRegsFacts
        <4>3. l \in {"calib1", "calib2"} => ~claimed
          BY <1>0, <2>1, SMT DEF Freeing
        <4> QED
          BY <1>0, <4>1, <4>2, <4>3, Zenon
      <3> QED
        BY <3>1, <3>2
    <2>3. CASE done /\ at' = BmeThen[l]
               /\ UNCHANGED <<looping, ok, tries, back>>
      <3>1. at' \in (IF looping THEN LoopOnly ELSE InitOnly) \cup Shared
        <4>1. CASE l \in Shared
          BY <2>1, <2>3, <4>1, Zenon
        <4>2. CASE l \notin Shared
          <5>1. l \in InitOnly /\ ~looping
            <6>1. l \in InitOnly => l \notin LoopOnly
              BY SMT DEF InitOnly, LoopOnly
            <6> QED
              BY <1>0, <2>1, <4>2, <6>1, Zenon DEF PhaseInv
          <5> QED
            BY <2>1, <2>3, <5>1, Zenon
        <4> QED
          BY <4>1, <4>2
      <3> QED
        BY <1>0, <2>1, <2>2, <2>3, <3>1, BmeStep, Zenon
    <2>4. CASE ~done /\ l \in Humidity /\ at' = "ptRead"
               /\ UNCHANGED <<looping, ok, tries, back>>
      <3>1. "ptRead" \in Shared /\ "ptRead" \in Freeing
            /\ "ptRead" \notin {"hmcTest", "hmcA", "hmcB", "ltrRate",
                               "ltrGain", "rest"}
        BY SMT DEF Shared, Freeing
      <3> QED
        BY <1>0, <2>1, <2>2, <2>4, <3>1, BmeStep, Zenon
    <2>5. CASE BmeFailed
      BY <2>1, <2>2, <2>5, BmeFailedKeeps, Zenon
    <2> QED
      BY <2>3, <2>4, <2>5 DEF AfterBme
  <1>3. CASE BmeFilter
    <2> PICK done \in BOOLEAN, took \in BOOLEAN :
             /\ WriteRegs("bme", done, took)
             /\ IF ~done THEN BmeFailed
                ELSE /\ at' = CASE back = "settings" -> "hum"
                                [] back = "mode"     -> "sensorMode"
                                [] back = "power"    -> "power"
                     /\ back' = "mode"
                     /\ UNCHANGED <<looping, ok, tries>>
      BY <1>3 DEF BmeFilter
    <2>1. BusTypeOK' /\ (done => claimed' = FALSE)
      BY <1>0, WriteRegsFacts
    <2>2. at = "filter" /\ UNCHANGED <<mode, conf, lost, got>>
      BY <1>3 DEF BmeFilter
    <2>3. CASE BmeFailed
      BY <1>0, <2>1, <2>2, <2>3, BmeFailedKeeps, SMT DEF Shared, InitOnly
    <2>4. CASE done
      <3>1. at' \in {"hum", "sensorMode", "power"} /\ back' = "mode"
            /\ UNCHANGED <<looping, ok, tries>>
        BY <1>0, <2>4, SMT
      <3> QED
        BY <1>0, <2>1, <2>2, <2>4, <3>1, BmeStep, SMT
           DEF InitOnly, LoopOnly, Shared, Freeing
    <2> QED
      BY <2>3, <2>4
  <1>4. ASSUME NEW label, NEW then, NEW return,
               \/ label = "bmeMode" /\ then = "hum" /\ return = "settings"
               \/ label = "sensorMode" /\ then = "power" /\ return = "power",
               BmeMode(label, then, return)
        PROVE  ReadingsInv'
    <2> PICK done \in BOOLEAN, q \in Quality :
             /\ ReadRegs("bme", done, q)
             /\ \/ ~done /\ BmeFailed
                \/ /\ done
                   /\ \/ at' = then /\ back' = "mode"
                      \/ at' = "saved" /\ back' = return
                   /\ UNCHANGED <<looping, ok, tries>>
      BY <1>4 DEF BmeMode
    <2>1. BusTypeOK' /\ claimed' = FALSE
      BY <1>0, ReadRegsFacts
    <2>2. at \in {"bmeMode", "sensorMode"} /\ UNCHANGED <<mode, conf, lost, got>>
      BY <1>4 DEF BmeMode
    <2>3. CASE BmeFailed
      BY <1>0, <2>1, <2>2, <2>3, BmeFailedKeeps, SMT DEF Shared, InitOnly
    <2>4. CASE done
      <3>1. at' \in {"hum", "power", "saved"}
            /\ back' \in {"settings", "mode", "power"}
            /\ UNCHANGED <<looping, ok, tries>>
        BY <1>4, <2>4
      <3> QED
        BY <1>0, <2>1, <2>2, <3>1, BmeStep, SMT
           DEF InitOnly, LoopOnly, Shared, Freeing
    <2> QED
      BY <2>3, <2>4
  <1>5. CASE BmePower
    <2> PICK done \in BOOLEAN, took \in BOOLEAN :
             /\ WriteRegs("bme", done, took)
             /\ IF done THEN /\ at' = IF looping THEN "bmeData" ELSE "ltrRate"
                             /\ UNCHANGED <<looping, ok, tries, back>>
                ELSE BmeFailed
      BY <1>5 DEF BmePower
    <2>1. BusTypeOK' /\ (done => claimed' = FALSE)
      BY <1>0, WriteRegsFacts
    <2>2. at = "powerWrite" /\ UNCHANGED <<mode, conf, lost, got>>
      BY <1>5 DEF BmePower
    <2>3. CASE BmeFailed
      BY <1>0, <2>1, <2>2, <2>3, BmeFailedKeeps, SMT DEF Shared, InitOnly
    <2>4. CASE done
      BY <1>0, <2>1, <2>2, <2>4, BmeStep, SMT
         DEF InitOnly, LoopOnly, Shared, Freeing
    <2> QED
      BY <2>3, <2>4
  <1>6. CASE BmeData
    <2> PICK done \in BOOLEAN, q \in Quality :
             /\ ReadRegs("bme", done, q)
             /\ got' = IF done THEN q ELSE got
      BY <1>6 DEF BmeData
    <2>1. BusTypeOK' /\ claimed' = FALSE /\ (~claimed => q # "other")
      BY <1>0, ReadRegsFacts
    <2>2. /\ at = "bmeData" /\ at' = "ltrDue"
          /\ UNCHANGED <<looping, ok, tries, back, mode, conf, lost>>
      BY <1>6 DEF BmeData
    <2>3. ~claimed /\ looping
      BY <1>0, <2>2, SMT DEF Freeing, PhaseInv, InitOnly, Shared
    <2> QED
      BY <1>0, <2>1, <2>2, <2>3, BmeStep, SMT
         DEF InitOnly, LoopOnly, Shared
  <1> QED
    BY <1>1, <1>2, <1>3, <1>4, <1>5, <1>6 DEF Bme

\* What a step of the loop has to do for the invariant to be kept.
LEMMA LoopStep ==
    ASSUME ReadingsInv, looping, BusTypeOK',
           UNCHANGED <<looping, ok, tries, back, conf, lost>>,
           mode' \in {"off", "light", "uv"}, got' \in Quality \ {"other"},
           at' \in LoopOnly \cup Shared, claimed' => at' \in Freeing
    PROVE  ReadingsInv'
  <1>1. at' \in Labels
    BY PhaseLabels, SMT
  <1>2. at' \notin {"ltrRate", "ltrGain", "hmcB"}
    BY SMT DEF LoopOnly, Shared
  <1>3. TypeOK' /\ PhaseInv' /\ ClaimInv' /\ ReadsReachRegister'
    BY <1>1, Zenon DEF ReadingsInv, TypeOK, PhaseInv, ClaimInv,
                       ReadsReachRegister
  <1>4. ConfInv'
    BY <1>2, SMT DEF ReadingsInv, ConfInv, Set
  <1> QED
    BY <1>3, <1>4 DEF ReadingsInv

\* The steps of the poll of the light sensor are steps of the loop, and only
\* the first may find the bus claimed.
LEMMA LightLabels ==
    \A l \in {"lightCtrl", "lightInt", "lightStatus", "lux", "uvCtrl",
             "uvInt", "uvStatus", "uvi", "hmcDue"} :
        /\ l \in LoopOnly /\ l \notin InitOnly /\ l \notin Shared
        /\ l \notin {"lightCtrl", "hmcDue"} => l \notin Freeing
  BY SMT DEF LoopOnly, InitOnly, Shared, Freeing

\* The steps of the light sensor keep the invariant.
LEMMA LtrKeeps == ReadingsInv /\ Ltr => ReadingsInv'
  <1> SUFFICES ASSUME ReadingsInv, Ltr PROVE ReadingsInv'
    OBVIOUS
  <1> DEFINE Light == {"lightCtrl", "lightInt", "lightStatus", "lux",
                       "uvCtrl", "uvInt", "uvStatus", "uvi"}
  <1>0. /\ BusTypeOK /\ TypeOK /\ got \in Quality \ {"other"}
        /\ mode \in {"off", "light", "uv"}
        /\ PhaseInv /\ (claimed => at \in Freeing)
    BY Zenon DEF ReadingsInv, TypeOK, ReadsReachRegister, ClaimInv
  <1>9. at \in Light => looping
    BY <1>0, LightLabels, Zenon DEF PhaseInv
  <1>1. ASSUME NEW reg, NEW then,
               \/ reg = "ltrRate" /\ then = "ltrGain"
               \/ reg = "ltrGain" /\ then = "rest",
               LtrConfigure(reg, then)
        PROVE  ReadingsInv'
    <2> PICK done \in BOOLEAN, took \in BOOLEAN :
             /\ WriteReg("ltr", done, took)
             /\ conf' = IF took THEN conf \cup {reg} ELSE conf
             /\ at' = IF done THEN then ELSE "rest"
             /\ ok' = (ok /\ done)
      BY <1>1 DEF LtrConfigure
    <2>1. BusTypeOK' /\ claimed' = FALSE /\ (done /\ ~claimed => took)
      BY <1>0, WriteRegFacts
    <2>2. at = reg /\ UNCHANGED <<looping, tries, back, mode, lost, got>>
      BY <1>1 DEF LtrConfigure
    <2>3. ~looping
      BY <1>0, <1>1, <2>2, SMT DEF PhaseInv, LoopOnly, Shared
    <2>4. ok => ~claimed
      BY <1>0, <1>1, <2>2, SMT DEF ReadingsInv, ConfInv, Freeing
    <2>5. /\ ok \in BOOLEAN /\ ok' \in BOOLEAN
          /\ ok' => ok /\ at' = then /\ reg \in conf'
          /\ ~ok' \/ done
      BY <1>0, <2>1, <2>4, Zenon DEF TypeOK
    <2>6. conf' \subseteq {"hmcA", "hmcB", "ltrRate", "ltrGain"}
          /\ conf \subseteq conf'
      <3>1. reg \in {"ltrRate", "ltrGain"}
        BY <1>1, Zenon
      <3>2. conf' = conf \/ conf' = conf \cup {reg}
        OBVIOUS
      <3> QED
        BY <1>0, <3>1, <3>2, SMT DEF TypeOK
    <2>7. at' \in {"ltrGain", "rest"} /\ (at' = "ltrGain" => reg = "ltrRate")
      BY <1>1, SMT
    <2>8. TypeOK' /\ PhaseInv' /\ ClaimInv' /\ ReadsReachRegister'
      BY <2>1, <2>2, <2>3, <2>5, <2>6, <2>7, SMT
         DEF ReadingsInv, TypeOK, PhaseInv, ClaimInv, ReadsReachRegister,
             Labels, InitOnly
    <2>9. ConfInv'
      BY <1>1, <2>2, <2>3, <2>5, <2>6, <2>7, SMT
         DEF ReadingsInv, ConfInv, Set, Registers
    <2> QED
      BY <2>8, <2>9 DEF ReadingsInv
  <1>2. ASSUME NEW label \in Light, NEW other \in Light \cup {"hmcDue"},
               NEW then \in Light, NEW value \in {"light", "uv"},
               LtrControl(label, other, then, value)
        PROVE  ReadingsInv'
    <2> PICK done \in BOOLEAN, took \in BOOLEAN :
             /\ WriteReg("ltr", done, took)
             /\ mode' = IF took THEN value ELSE mode
             /\ at' = IF done THEN then ELSE other
      BY <1>2 DEF LtrControl
    <2>1. BusTypeOK' /\ claimed' = FALSE
      BY <1>0, WriteRegFacts
    <2>2. at = label /\ UNCHANGED <<looping, ok, tries, back, conf, lost, got>>
      BY <1>2 DEF LtrControl
    <2>3. at' \in LoopOnly \cup Shared /\ mode' \in {"off", "light", "uv"}
      BY <1>0, <1>2, LightLabels, Zenon
    <2> QED
      BY <1>0, <1>2, <1>9, <2>1, <2>2, <2>3, LoopStep, Zenon
  <1>3. ASSUME NEW label \in Light, NEW then \in Light,
               LtrInterrupt(label, then)
        PROVE  ReadingsInv'
    <2> PICK done \in BOOLEAN, took \in BOOLEAN :
             /\ WriteReg("ltr", done, took)
             /\ at' = IF done THEN then ELSE "hmcDue"
      BY <1>3 DEF LtrInterrupt
    <2>1. BusTypeOK' /\ claimed' = FALSE
      BY <1>0, WriteRegFacts
    <2>2. /\ at = label
          /\ UNCHANGED <<looping, ok, tries, back, mode, conf, lost, got>>
      BY <1>3 DEF LtrInterrupt
    <2>3. at' \in LoopOnly \cup Shared
      BY <1>3, LightLabels, Zenon
    <2> QED
      BY <1>0, <1>3, <1>9, <2>1, <2>2, <2>3, LoopStep, Zenon
  <1>4. ASSUME NEW label \in Light, NEW ready \in Light,
               NEW notReady \in Light \cup {"hmcDue"},
               LtrStatus(label, ready, notReady)
        PROVE  ReadingsInv'
    <2> PICK done \in BOOLEAN, q \in Quality :
             /\ ReadRegs("ltr", done, q)
             /\ at' \in IF done THEN {ready, notReady} ELSE {"hmcDue"}
      BY <1>4 DEF LtrStatus
    <2>1. BusTypeOK' /\ claimed' = FALSE
      BY <1>0, ReadRegsFacts
    <2>2. /\ at = label
          /\ UNCHANGED <<looping, ok, tries, back, mode, conf, lost, got>>
      BY <1>4 DEF LtrStatus
    <2>3. at' \in Light \cup {"hmcDue"}
      BY <1>4, SMT
    <2>4. at' \in LoopOnly \cup Shared
      BY <2>3, LightLabels, Zenon
    <2> QED
      BY <1>0, <1>4, <1>9, <2>1, <2>2, <2>4, LoopStep, Zenon
  <1>5. ASSUME NEW label \in {"lux", "uvi"}, NEW then \in {"uvCtrl", "hmcDue"},
               LtrData(label, then)
        PROVE  ReadingsInv'
    <2> PICK done \in BOOLEAN, q \in Quality :
             /\ ReadRegs("ltr", done, q)
             /\ got' = IF done THEN q ELSE got
             /\ at' = IF done THEN then ELSE "hmcDue"
      BY <1>5 DEF LtrData
    <2>1. BusTypeOK' /\ claimed' = FALSE /\ (~claimed => q # "other")
      BY <1>0, ReadRegsFacts
    <2>2. /\ at = label
          /\ UNCHANGED <<looping, ok, tries, back, mode, conf, lost>>
      BY <1>5 DEF LtrData
    <2>3. at' \in LoopOnly \cup Shared
      BY <1>5, LightLabels, Zenon
    <2>4. ~claimed
      BY <1>0, <1>5, <2>2, SMT DEF Freeing
    <2>5. got' \in Quality \ {"other"}
      BY <1>0, <2>1, <2>4, Zenon
    <2> QED
      BY <1>0, <1>5, <1>9, <2>1, <2>2, <2>3, <2>5, LoopStep, Zenon
  <1> QED
    BY <1>1, <1>2, <1>3, <1>4, <1>5 DEF Ltr

\* The end of mainFuncInit keeps the invariant: without a failure in this
\* round both sensors are configured when the loop begins.
LEMMA RestKeeps == ReadingsInv /\ Rest => ReadingsInv'
  <1> SUFFICES ASSUME ReadingsInv, Rest PROVE ReadingsInv'
    OBVIOUS
  <1>0. /\ BusTypeOK' /\ ~looping /\ ~claimed
        /\ at = "rest" /\ tries' = Tries /\ back' = "settings"
        /\ UNCHANGED <<powered, claimed, mode, conf, got>>
    BY SMT DEF Rest, ReadingsInv, TypeOK, PhaseInv, ClaimInv, LoopOnly,
               Shared, Freeing, bus, BusTypeOK
  <1>1. tries' \in 1 .. Tries
    BY <1>0, ReadingsAssumption, SMT
  <1>2. CASE /\ ok /\ at' = "hmcDue" /\ looping' = TRUE
             /\ UNCHANGED <<ok, lost>>
    <2>1. Set("hmc") /\ Set("ltr")
      BY <1>0, <1>2, SMT DEF ReadingsInv, ConfInv
    <2>2. ConfInv'
      BY <1>0, <1>2, <2>1, SMT DEF ConfInv, Set
    <2>3. TypeOK' /\ PhaseInv' /\ ClaimInv' /\ ReadsReachRegister'
      BY <1>0, <1>1, <1>2, SMT
         DEF ReadingsInv, TypeOK, PhaseInv, ClaimInv, ReadsReachRegister,
             Labels, LoopOnly
    <2> QED
      BY <2>2, <2>3 DEF ReadingsInv
  <1>3. CASE /\ at' = "hmcTest" /\ ok' = TRUE
             /\ lost' = Device \ powered
             /\ UNCHANGED looping
    <2>1. ConfInv'
      BY <1>0, <1>3, SMT DEF ConfInv
    <2>2. lost' \subseteq Device
      BY <1>3, Zenon
    <2>3. TypeOK' /\ PhaseInv' /\ ClaimInv' /\ ReadsReachRegister'
      BY <1>0, <1>1, <1>3, <2>2, SMT
         DEF ReadingsInv, TypeOK, PhaseInv, ClaimInv, ReadsReachRegister,
             Labels, InitOnly
    <2> QED
      BY <2>1, <2>3 DEF ReadingsInv
  <1> QED
    BY <1>0, <1>2, <1>3 DEF Rest

\* A test of a poll keeps the invariant: what comes after it may find the bus
\* claimed too.
LEMMA TestKeeps ==
    ASSUME ReadingsInv, NEW label \in {"hmcDue", "bmeDue", "ltrDue"},
           NEW then \in {"hmcTrigger", "sensorMode", "lightCtrl",
                        "hmcDue", "bmeDue", "ltrDue"},
           Due(label, then) \/ NotDue(label, then)
    PROVE  ReadingsInv'
  <1>1. /\ at = label /\ at' = then
        /\ UNCHANGED <<bus, looping, ok, tries, back, mode, conf, lost, got>>
    BY DEF Due, NotDue
  <1>2. /\ BusTypeOK' /\ PhaseInv /\ got \in Quality \ {"other"}
        /\ mode \in {"off", "light", "uv"}
    BY <1>1, SMT DEF ReadingsInv, TypeOK, BusTypeOK, bus, ReadsReachRegister
  <1>3. looping
    BY <1>1, <1>2, SMT DEF PhaseInv, InitOnly, Shared
  <1>4. then \in LoopOnly \cup Shared /\ then \in Freeing
    BY SMT DEF LoopOnly, Shared, Freeing
  <1> QED
    BY <1>1, <1>2, <1>3, <1>4, LoopStep, Zenon

\* A device that loses its power, or has it again, keeps the invariant.
LEMMA PowerKeeps ==
    ASSUME ReadingsInv, NEW d \in Device, PowerLost(d) \/ PowerBack(d)
    PROVE  ReadingsInv'
  <1>0. TypeOK /\ BusTypeOK
    BY DEF ReadingsInv, TypeOK
  <1>1. CASE PowerLost(d)
    <2>1. /\ BusTypeOK' /\ UNCHANGED <<claimed, at, looping, ok, tries, back, got>>
          /\ conf' = conf \ Registers[d] /\ lost' = lost \cup {d}
          /\ mode' = IF d = "ltr" THEN "off" ELSE mode
      BY <1>0, <1>1, SMT DEF PowerLost, Lose, BusTypeOK, driver, None
    <2>2. /\ TypeOK' /\ PhaseInv' /\ ClaimInv' /\ ReadsReachRegister'
      BY <1>0, <2>1, Zenon DEF TypeOK, ReadingsInv, PhaseInv, ClaimInv,
                               ReadsReachRegister
    <2>3. d \in {"hmc", "bme", "ltr"}
      BY ReadingsAssumption
    <2>4. ConfInv'
      BY <2>1, <2>3, SMT DEF ReadingsInv, ConfInv, Set, Registers
    <2> QED
      BY <2>2, <2>4 DEF ReadingsInv
  <1>2. CASE PowerBack(d)
    <2>1. /\ BusTypeOK'
          /\ UNCHANGED <<claimed, at, looping, ok, tries, back, got, mode, conf, lost>>
      BY <1>0, <1>2, SMT DEF PowerBack, Regain, BusTypeOK, driver
    <2> QED
      BY <1>0, <2>1, SMT DEF ReadingsInv, TypeOK, PhaseInv, ClaimInv,
                             ReadsReachRegister, ConfInv, Set
  <1> QED
    BY <1>1, <1>2

\* Every step keeps the invariant.
LEMMA ReadingsKept == ReadingsInv /\ [Next]_vars => ReadingsInv'
  <1> SUFFICES ASSUME ReadingsInv, [Next]_vars PROVE ReadingsInv'
    OBVIOUS
  <1>1. CASE Hmc
    BY <1>1, HmcKeeps
  <1>2. CASE Bme
    BY <1>2, BmeKeeps
  <1>3. CASE Ltr
    BY <1>3, LtrKeeps
  <1>4. CASE Rest
    BY <1>4, RestKeeps
  <1>5. CASE \/ NotDue("hmcDue", "bmeDue") \/ NotDue("bmeDue", "ltrDue")
             \/ NotDue("ltrDue", "hmcDue") \/ DuePoll
    BY <1>5, TestKeeps DEF DuePoll
  <1>6. CASE \E d \in Device : PowerLost(d) \/ PowerBack(d)
    BY <1>6, PowerKeeps
  <1>7. CASE UNCHANGED vars
    BY <1>7, SMT DEF vars, bus, driver, ReadingsInv, TypeOK, BusTypeOK,
                     PhaseInv, ClaimInv, ReadsReachRegister, ConfInv, Set
  <1> QED
    BY <1>1, <1>2, <1>3, <1>4, <1>5, <1>6, <1>7 DEF Next, Main

\* The invariant holds always.
LEMMA ReadingsAlways == Spec => []ReadingsInv
  BY ReadingsInit, ReadingsKept, PTL DEF Spec

\* Every variable of the drivers of the I2C sensors keeps its type: in
\* particular try_count of bme280_init is never 0.
THEOREM ReadingTypes == Spec => []TypeOK
  <1>1. ReadingsInv => TypeOK
    BY DEF ReadingsInv
  <1> QED
    BY <1>1, ReadingsAlways, PTL

\* A write of the BME280 that leaves the bus claimed (i2c_bit_xfer, without a
\* stop) is never followed by another one.
THEOREM ClaimIsReleased == Spec => []ClaimReleased
  <1>1. ReadingsInv => ClaimReleased
    <2>1. Freeing \cap BmeWrites = {}
      BY SMT DEF Freeing, BmeWrites
    <2> QED
      BY <2>1, Zenon DEF ReadingsInv, ClaimInv, ClaimReleased
  <1> QED
    BY <1>1, ReadingsAlways, PTL

\* No value that is stored was read from another register than the one that
\* was asked for (read_regs), whatever bytes were lost before.
THEOREM ReadsAreAsked == Spec => []ReadsReachRegister
  <1>1. ReadingsInv => ReadsReachRegister
    BY DEF ReadingsInv
  <1> QED
    BY <1>1, ReadingsAlways, PTL

\* The loop of main() begins with the magnetometer and the light sensor
\* configured (mainFuncInit), unless they lost their power.
THEOREM LoopConfigured == Spec => []StartsConfigured
  <1>1. ReadingsInv => StartsConfigured
    <2> SUFFICES ASSUME ReadingsInv, looping,
                        NEW d \in Device, d \notin lost
                 PROVE  Registers[d] \subseteq conf
      BY DEF StartsConfigured
    <2>1. d \in {"hmc", "bme", "ltr"}
      BY ReadingsAssumption
    <2>2. Registers["bme"] = {}
      BY DEF Registers
    <2>3. Set("hmc") /\ Set("ltr")
      BY DEF ReadingsInv, ConfInv
    <2> QED
      BY <2>1, <2>2, <2>3, Zenon DEF Set
  <1> QED
    BY <1>1, ReadingsAlways, PTL

-----------------------------------------------------------------------------
(* How long the bus stays claimed *)

\* While the bus is claimed (i2c_bit_xfer left without i2c_stop), a step of the
\* main thread gives it back, or is one of the tests whether a poll is due.
\* No step of mainFuncInit, of a poll or of Rest leaves it claimed.
ClaimEndsNext ==
    [][claimed /\ Main =>
          ~claimed' \/ at \in {"hmcDue", "bmeDue", "ltrDue"}]_vars

\* Every transfer that may come when the bus is claimed stops the bus: the
\* reads, and the writes of the drivers that stop it always.
LEMMA MainFrees ==
    ASSUME ClaimInv, claimed, Main, at \notin {"hmcDue", "bmeDue", "ltrDue"}
    PROVE  ~claimed'
  <1>1. at \in {"ptRead", "ltrRate", "hmcTrigger", "sensorMode", "lightCtrl"}
    BY SMT DEF ClaimInv, Freeing
  <1>2. CASE Hmc
    BY <1>2, SMT DEF Hmc, HmcTest, HmcConfigure, HmcTrigger, HmcData,
                     ReadRegs, WriteReg, Stop
  <1>3. CASE Bme
    <2>1. CASE BmeId \/ BmeData
      BY <2>1, SMT DEF BmeId, BmeData, ReadRegs, Stop
    <2>2. ASSUME NEW label \in DOMAIN BmeThen, BmeTransfer(label)
          PROVE  ~claimed'
      <3>1. label = at /\ label \notin BmeWrites
        BY <1>1, <2>2, SMT DEF BmeTransfer, BmeWrites
      <3> QED
        BY <2>2, <3>1, Zenon DEF BmeTransfer, ReadRegs, Stop
    <2>3. ASSUME NEW label, NEW then, NEW return,
                 BmeMode(label, then, return)
          PROVE  ~claimed'
      BY <2>3, Zenon DEF BmeMode, ReadRegs, Stop
    <2>4. ~BmeFilter /\ ~BmePower
      BY <1>1, SMT DEF BmeFilter, BmePower
    <2> QED
      BY <1>3, <2>1, <2>2, <2>3, <2>4, Zenon DEF Bme
  <1>4. CASE Ltr
    BY <1>4, Zenon DEF Ltr, LtrConfigure, LtrControl, LtrInterrupt, LtrStatus,
                     LtrData, ReadRegs, WriteReg, Stop
  <1>5. CASE Rest \/ DuePoll
    BY <1>1, <1>5, SMT DEF Rest, Due, DuePoll
  <1>6. ASSUME NEW label \in {"hmcDue", "bmeDue", "ltrDue"}, NEW then,
               NotDue(label, then)
        PROVE  FALSE
    BY <1>6, Zenon DEF NotDue
  <1> QED
    BY <1>2, <1>3, <1>4, <1>5, <1>6 DEF Main

\* Behind BusFreed: the transfer after the one that left the bus claimed gives
\* it back, and only polls that are not due come in between.
THEOREM ClaimIsShort == Spec => ClaimEndsNext
  <1>1. ReadingsInv /\ [Next]_vars =>
           [claimed /\ Main =>
              ~claimed' \/ at \in {"hmcDue", "bmeDue", "ltrDue"}]_vars
    BY MainFrees DEF ReadingsInv
  <1> QED
    BY <1>1, ReadingsAlways, PTL DEF Spec, ClaimEndsNext
=============================================================================
