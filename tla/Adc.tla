-------------------------------- MODULE Adc ---------------------------------
(***************************************************************************)
(* The dust sensor GP2Y1014AU0F and the microphone amplifier LM386, which  *)
(* share the converter ADC1: adc_GP2Y1014AU0F.c, adc_LM386.c, and their    *)
(* lines in mainFuncInit and in the polls of main.c.                       *)
(*                                                                         *)
(* ADC1 converts one regular channel (NbrOfConversion = 1, no scan), the   *)
(* one configured last, whichever of the two handles starts it.            *)
(***************************************************************************)
EXTENDS Integers

CONSTANT Sample     \* the values a conversion may give

ASSUME SampleAssumption == Sample \subseteq 0 .. 4095   \* 12 bits

VARIABLES
    pc,         \* "dust" or "mic", to be initialised, or "loop"
    channel,    \* the regular channel of ADC1, 0 before any is configured
    filled,     \* flag_first of my_filter
    buffer,     \* the last ten conversions of the dust sensor, oldest first
    sum,        \* their sum, kept up to date by my_filter
    dust,       \* gp2y1014au0f_rawData
    sound,      \* lm386_rawData, and the channel it was converted from
    \* history variables
    last,       \* the last conversion given to my_filter
    equal       \* how many of the last ones were equal to it, up to ten

filter == <<filled, buffer, sum>>
history == <<last, equal>>
vars == <<pc, channel, filter, dust, sound, history>>

DustChannel == 5    \* GP2Y1014AU0F_ADC_DEV_CHANNEL, ADC_CHANNEL_5
MicChannel  == 6    \* ADC_CHANNEL_6

Slot == 1 .. 10     \* BUFFER_LENGTH

Init ==
    /\ pc = "dust" /\ channel = 0
    /\ filled = FALSE /\ buffer = [i \in Slot |-> 0] /\ sum = 0
    /\ dust = 0 /\ sound = [value |-> 0, from |-> 0]
    /\ last = 0 /\ equal = 0

-----------------------------------------------------------------------------
(* mainFuncInit *)

\* Faulty variant: the channel is configured for the dust sensor afterwards.
LM386InitOther ==
    /\ pc = "mic"
    /\ channel' = DustChannel
    /\ pc' \in {"dust", "loop"}
    /\ UNCHANGED <<filter, dust, sound, history>>

\* my_gp2y1014au0f_init
GP2Y1014AU0FInit ==
    /\ pc = "dust"
    /\ channel' = DustChannel
    /\ pc' = "mic"
    /\ UNCHANGED <<filter, dust, sound, history>>

\* my_lm386_init; mainFuncInit is repeated if the camera, the card or an I2C
\* sensor failed.
LM386Init ==
    /\ pc = "mic"
    /\ channel' = MicChannel
    /\ pc' \in {"dust", "loop"}
    /\ UNCHANGED <<filter, dust, sound, history>>

-----------------------------------------------------------------------------
(* The polls *)

\* Faulty variant: the buffer is shifted from its end, which spreads the
\* last entry over all of it.
ShiftedBackwards(data) == [i \in Slot |-> IF i = 10 THEN data ELSE buffer[10]]

\* The buffer of my_filter with the oldest conversion dropped for data.
Shifted(data) == [i \in Slot |-> IF i = 10 THEN data ELSE buffer[i + 1]]

\* Faulty variant: divided by the last index of the buffer.
AverageOfNine(total) == (total \div 9) % 256

\* i = sum / 10.0, where i is 8 bits wide.
Average(total) == (total \div 10) % 256

\* my_filter, the first time: the buffer is filled with the conversion.
Fill(data) ==
    /\ filled' = TRUE
    /\ buffer' = [i \in Slot |-> data]
    /\ sum' = 10 * data

\* Faulty variant: the oldest conversion is subtracted after the shift.
SlideAfterShift(data) ==
    /\ filled' = TRUE
    /\ buffer' = Shifted(data)
    /\ sum' = sum - buffer[2] + data

\* my_filter, afterwards: the sum loses the oldest conversion and gains this.
Slide(data) ==
    /\ filled' = TRUE
    /\ buffer' = Shifted(data)
    /\ sum' = sum - buffer[1] + data

\* The density for an average: 11 times the voltage, less the 0.6 V of clean
\* air, in units of 1 / 20.48 ug/m3; 0 below 0.6 V.
Density(value) ==
    IF 363 * value >= 24576 THEN 363 * value - 24576 ELSE 0

\* my_gp2y1014au0f_get_data, from my_gp2y1014au0f_test
DustPoll(data) ==
    /\ pc = "loop"
    /\ \/ /\ ~filled /\ Fill(data)
          /\ dust' = Density(data)
       \/ /\ filled /\ Slide(data)
          /\ dust' = Density(Average(sum'))
    /\ equal' = IF ~filled THEN 10
                ELSE IF data # last THEN 1
                ELSE IF equal < 10 THEN equal + 1 ELSE 10
    /\ last' = data
    /\ UNCHANGED <<pc, channel, sound>>

\* my_lm386_get_data, from my_lm386_test
SoundPoll(data) ==
    /\ pc = "loop"
    /\ sound' = [value |-> data, from |-> channel]
    /\ UNCHANGED <<pc, channel, filter, dust, history>>

Next ==
    \/ GP2Y1014AU0FInit
    \/ LM386Init
    \/ \E data \in Sample : DustPoll(data) \/ SoundPoll(data)

Spec == Init /\ [][Next]_vars

-----------------------------------------------------------------------------
(* Properties *)

\* Every variable has its type.
TypeOK ==
    /\ pc \in {"dust", "mic", "loop"}
    /\ channel \in {0, DustChannel, MicChannel}
    /\ filled \in BOOLEAN
    /\ buffer \in [Slot -> Sample \cup {0}]
    /\ sum \in Nat /\ dust \in Nat
    /\ sound \in [value : Sample \cup {0}, from : {0, DustChannel, MicChannel}]
    /\ last \in Sample \cup {0} /\ equal \in 0 .. 10

\* my_filter: the sum it updates by one subtraction and one addition is
\* always the sum of the buffer, however many conversions have passed.
SumIsWindow ==
    sum = buffer[1] + buffer[2] + buffer[3] + buffer[4] + buffer[5]
          + buffer[6] + buffer[7] + buffer[8] + buffer[9] + buffer[10]

\* my_filter: after ten equal conversions nothing before them counts, as long
\* as they fit the 8 bits of the average.
ForgetsOld ==
    (equal = 10 /\ last < 256) => dust = Density(last)

\* my_gp2y1014au0f_get_data: while the conversions of the window fit 8 bits,
\* the density lies between those of its smallest and its largest.
WithinWindow ==
    \A low, high \in Sample :
        (/\ filled /\ high < 256
         /\ \A i \in Slot : low <= buffer[i] /\ buffer[i] <= high)
        => Density(low) <= dust /\ dust <= Density(high)

\* my_lm386_get_data: though the initialisation of the dust sensor gives the
\* converter another channel, and may be repeated, the sound is only ever
\* converted from the channel of the microphone.
SoundFromMic == sound.from \in {0, MicChannel}

=============================================================================
