----------------------------- MODULE Adc_proofs -----------------------------
(***************************************************************************)
(* Proofs about Adc, for every set of values a conversion may give.        *)
(*                                                                         *)
(* What is reported after ten equal conversions needs to know that the     *)
(* last entries of the buffer are those conversions (Recent) and that the  *)
(* reported density is that of the buffer (Reported).                      *)
(***************************************************************************)
EXTENDS Adc, TLAPS

\* The last entries of the buffer are the equal conversions counted.
Recent == filled => \A i \in Slot : i + equal > 10 => buffer[i] = last

\* A density was reported from the sum, or from the first conversion.
Reported ==
    filled => \/ dust = Density(Average(sum))
              \/ dust = Density(last) /\ equal = 10
                 /\ \A i \in Slot : buffer[i] = last

\* Nothing is counted before the first conversion.
Counted == (~filled => equal = 0) /\ (filled => equal >= 1)

\* The inductive invariant.
FilterInv == TypeOK /\ SumIsWindow /\ Recent /\ Reported /\ Counted

\* The density is a natural number for every average.
LEMMA DensityType == \A v \in Nat : Density(v) \in Nat
  BY SMT DEF Density

\* A higher average never gives a lower density.
LEMMA DensityMonotone ==
    ASSUME NEW v \in Nat, NEW w \in Nat, v <= w
    PROVE  Density(v) <= Density(w)
  BY SMT DEF Density

\* The average is a natural number.
LEMMA AverageType == \A t \in Nat : Average(t) \in Nat
  BY SMT DEF Average

\* The average of a sum between ten times low and ten times high lies
\* between low and high, if high fits 8 bits.
LEMMA AverageBetween ==
    ASSUME NEW t \in Nat, NEW low \in Nat, NEW high \in 0 .. 255,
           10 * low <= t, t <= 10 * high
    PROVE  low <= Average(t) /\ Average(t) <= high
  <1>1. t \div 10 \in 0 .. 255 /\ low <= t \div 10 /\ t \div 10 <= high
    BY SMT
  <1>2. (t \div 10) % 256 = t \div 10
    BY <1>1, SMT
  <1> QED
    BY <1>1, <1>2 DEF Average

\* The entries of the buffer are natural numbers.
LEMMA BufferNat ==
    ASSUME TypeOK PROVE \A i \in Slot : buffer[i] \in Nat
  <1>1. Sample \cup {0} \subseteq Nat
    BY SampleAssumption, SMT
  <1>2. \A i \in Slot : buffer[i] \in Sample \cup {0}
    BY Zenon DEF TypeOK
  <1> QED
    BY <1>1, <1>2, Zenon

\* The sum of a window whose entries lie between two values.
LEMMA SumBetween ==
    ASSUME TypeOK, SumIsWindow, NEW low \in Int, NEW high \in Int,
           \A i \in Slot : low <= buffer[i] /\ buffer[i] <= high
    PROVE  10 * low <= sum /\ sum <= 10 * high
  <1>1. \A i \in Slot : buffer[i] \in Nat
    BY BufferNat
  <1>2. /\ 1 \in Slot /\ 2 \in Slot /\ 3 \in Slot /\ 4 \in Slot /\ 5 \in Slot
        /\ 6 \in Slot /\ 7 \in Slot /\ 8 \in Slot /\ 9 \in Slot /\ 10 \in Slot
    BY SMT DEF Slot
  <1> QED
    BY <1>1, <1>2, SMT DEF SumIsWindow

-----------------------------------------------------------------------------
\* The invariant holds at the start.
LEMMA FilterInit == Init => FilterInv
  <1> SUFFICES ASSUME Init PROVE FilterInv
    OBVIOUS
  <1>1. TypeOK
    <2>1. buffer \in [Slot -> Sample \cup {0}]
      BY Zenon DEF Init
    <2>2. sound \in [value : Sample \cup {0},
                     from : {0, DustChannel, MicChannel}]
      BY Zenon DEF Init
    <2>3. equal \in 0 .. 10 /\ sum \in Nat /\ dust \in Nat
      BY SMT DEF Init
    <2> QED
      BY <2>1, <2>2, <2>3, Zenon DEF Init, TypeOK
  <1>2. \A i \in Slot : buffer[i] = 0
    BY Zenon DEF Init
  <1>3. SumIsWindow
    BY <1>2, SMT DEF Init, SumIsWindow, Slot
  <1> QED
    BY <1>1, <1>3 DEF Init, FilterInv, Recent, Reported, Counted

\* A conversion given to my_filter keeps the type invariant and the sum.
LEMMA DustPollSum ==
    ASSUME TypeOK, SumIsWindow, NEW data \in Sample, DustPoll(data)
    PROVE  TypeOK' /\ SumIsWindow'
  <1>1. data \in Nat /\ \A i \in Slot : buffer[i] \in Nat
    BY BufferNat, SampleAssumption, SMT
  <1>2. /\ 1 \in Slot /\ 2 \in Slot /\ 3 \in Slot /\ 4 \in Slot /\ 5 \in Slot
        /\ 6 \in Slot /\ 7 \in Slot /\ 8 \in Slot /\ 9 \in Slot /\ 10 \in Slot
    BY SMT DEF Slot
  <1>3. buffer' \in [Slot -> Sample \cup {0}]
    <2>1. CASE Fill(data)
      BY <2>1, Zenon DEF Fill
    <2>2. CASE Slide(data)
      <3>1. \A i \in Slot : i # 10 => i + 1 \in Slot
        BY SMT DEF Slot
      <3>2. \A i \in Slot : (IF i = 10 THEN data ELSE buffer[i + 1])
                               \in Sample \cup {0}
        BY <3>1, Zenon DEF TypeOK
      <3> QED
        BY <2>2, <3>2, Zenon DEF Slide, Shifted
    <2> QED
      BY <2>1, <2>2 DEF DustPoll
  <1>4. SumIsWindow'
    <2>1. CASE Fill(data)
      BY <2>1, <1>1, <1>2, SMT DEF Fill, SumIsWindow
    <2>2. CASE Slide(data)
      <3>1. /\ buffer'[1] = buffer[2] /\ buffer'[2] = buffer[3]
            /\ buffer'[3] = buffer[4] /\ buffer'[4] = buffer[5]
            /\ buffer'[5] = buffer[6] /\ buffer'[6] = buffer[7]
            /\ buffer'[7] = buffer[8] /\ buffer'[8] = buffer[9]
            /\ buffer'[9] = buffer[10] /\ buffer'[10] = data
        BY <2>2, <1>2, SMT DEF Slide, Shifted, Slot
      <3> QED
        BY <2>2, <3>1, <1>1, <1>2, SMT DEF Slide, SumIsWindow
    <2> QED
      BY <2>1, <2>2 DEF DustPoll
  <1>5. \A i \in Slot : buffer'[i] \in Nat
    <2>1. Sample \cup {0} \subseteq Nat
      BY SampleAssumption, SMT
    <2> QED
      BY <1>3, <2>1, Zenon
  <1>6. sum' \in Nat
    BY <1>4, <1>5, <1>2, SMT DEF SumIsWindow
  <1>7. dust' \in Nat
    BY <1>1, <1>6, DensityType, AverageType DEF DustPoll
  <1>8. filled' \in BOOLEAN /\ last' \in Sample \cup {0}
    BY DEF DustPoll, Fill, Slide
  <1>9. equal' \in 0 .. 10
    BY SMT DEF DustPoll, TypeOK
  <1>10. TypeOK'
    BY <1>3, <1>6, <1>7, <1>8, <1>9, Zenon DEF DustPoll, TypeOK
  <1> QED
    BY <1>4, <1>10

\* A conversion given to my_filter keeps the rest of the invariant.
LEMMA DustPollRest ==
    ASSUME FilterInv, NEW data \in Sample, DustPoll(data)
    PROVE  Recent' /\ Reported' /\ Counted'
  <1> USE DEF FilterInv
  <1>1. CASE ~filled /\ Fill(data)
    <2>1. /\ filled' = TRUE /\ equal' = 10 /\ last' = data
          /\ dust' = Density(data) /\ \A i \in Slot : buffer'[i] = data
      BY <1>1, SMT DEF DustPoll, Fill, Slide
    <2> QED
      BY <2>1, SMT DEF Recent, Reported, Counted
  <1>2. CASE filled /\ Slide(data)
    <2>1. /\ filled' = TRUE /\ last' = data /\ equal \in 1 .. 10
          /\ equal' = IF data # last THEN 1
                      ELSE IF equal < 10 THEN equal + 1 ELSE 10
      BY <1>2, SMT DEF DustPoll, Slide, Counted, TypeOK
    <2>2. \A i \in Slot : i + equal' > 10 => buffer'[i] = data
      <3> SUFFICES ASSUME NEW i \in Slot, i + equal' > 10
                   PROVE  buffer'[i] = data
        OBVIOUS
      <3>1. CASE i = 10
        BY <3>1, <1>2, SMT DEF Slide, Shifted
      <3>2. CASE i # 10
        <4>1. data = last /\ i + 1 \in Slot /\ (i + 1) + equal > 10
          BY <3>2, <2>1, SMT DEF Slot
        <4>2. buffer[i + 1] = last
          BY <4>1, <1>2 DEF Recent
        <4> QED
          BY <4>1, <4>2, <3>2, <1>2, SMT DEF Slide, Shifted
      <3> QED
        BY <3>1, <3>2
    <2>3. dust' = Density(Average(sum'))
      BY <1>2 DEF DustPoll
    <2> QED
      BY <2>1, <2>2, <2>3, SMT DEF Recent, Reported, Counted
  <1> QED
    BY <1>1, <1>2 DEF DustPoll

\* Every step keeps the invariant.
LEMMA FilterKept == FilterInv /\ [Next]_vars => FilterInv'
  <1> SUFFICES ASSUME FilterInv, [Next]_vars PROVE FilterInv'
    OBVIOUS
  <1>1. CASE GP2Y1014AU0FInit \/ LM386Init
    BY <1>1, SMT DEF GP2Y1014AU0FInit, LM386Init, filter, history, FilterInv,
       TypeOK, SumIsWindow, Recent, Reported, Counted, DustChannel, MicChannel
  <1>2. ASSUME NEW data \in Sample, DustPoll(data) PROVE FilterInv'
    BY <1>2, DustPollSum, DustPollRest DEF FilterInv
  <1>3. ASSUME NEW data \in Sample, SoundPoll(data) PROVE FilterInv'
    BY <1>3, SMT DEF SoundPoll, filter, history, FilterInv,
       TypeOK, SumIsWindow, Recent, Reported, Counted, DustChannel, MicChannel
  <1>4. CASE UNCHANGED vars
    BY <1>4, SMT DEF vars, filter, history, FilterInv,
       TypeOK, SumIsWindow, Recent, Reported, Counted, DustChannel, MicChannel
  <1> QED
    BY <1>1, <1>2, <1>3, <1>4 DEF Next

\* FilterInv holds in every reachable state.
LEMMA FilterAlways == Spec => []FilterInv
  BY FilterInit, FilterKept, PTL DEF Spec

\* Type correctness, for every set of conversions.
THEOREM AdcTypes == Spec => []TypeOK
  <1>1. FilterInv => TypeOK
    BY DEF FilterInv
  <1> QED
    BY <1>1, FilterAlways, PTL

\* my_filter: the running sum is the sum of the window after any number of
\* conversions of any values.
THEOREM SumHolds == Spec => []SumIsWindow
  <1>1. FilterInv => SumIsWindow
    BY DEF FilterInv
  <1> QED
    BY <1>1, FilterAlways, PTL

\* my_filter: ten equal conversions below 256 determine the result.
THEOREM OldForgotten == Spec => []ForgetsOld
  <1>1. FilterInv => ForgetsOld
    <2> SUFFICES ASSUME FilterInv, equal = 10, last < 256
                 PROVE  dust = Density(last)
      BY DEF ForgetsOld
    <2> USE DEF FilterInv
    <2>1. last \in 0 .. 255 /\ filled
      BY SampleAssumption, SMT DEF TypeOK, Counted
    <2>2. \A i \in Slot : buffer[i] = last
      BY <2>1, SMT DEF Recent, Slot
    <2>3. 10 * last <= sum /\ sum <= 10 * last
      BY <2>1, <2>2, SumBetween, SMT
    <2>4. last <= Average(sum) /\ Average(sum) <= last
      <3>1. sum \in Nat /\ last \in Nat
        BY <2>1, SMT DEF TypeOK
      <3> QED
        BY <2>1, <2>3, <3>1, AverageBetween, Zenon
    <2>5. Average(sum) = last
      BY <2>1, <2>4, AverageType, SMT DEF TypeOK
    <2> QED
      BY <2>1, <2>5 DEF Reported
  <1> QED
    BY <1>1, FilterAlways, PTL

\* my_gp2y1014au0f_get_data: below 256 the density reported lies within the
\* densities of the window, whatever the conversions are.
THEOREM DensityWithin == Spec => []WithinWindow
  <1>1. FilterInv => WithinWindow
    <2> SUFFICES ASSUME FilterInv, NEW low \in Sample, NEW high \in Sample,
                        filled, high < 256,
                        \A i \in Slot : low <= buffer[i] /\ buffer[i] <= high
                 PROVE  Density(low) <= dust /\ dust <= Density(high)
      BY DEF WithinWindow
    <2> USE DEF FilterInv
    <2>1. low \in Nat /\ high \in 0 .. 255 /\ last \in Nat /\ sum \in Nat
      BY SampleAssumption, SMT DEF TypeOK
    <2>2. CASE dust = Density(Average(sum))
      <3>1. 10 * low <= sum /\ sum <= 10 * high
        BY <2>1, SumBetween, SMT
      <3>2. low <= Average(sum) /\ Average(sum) <= high
        BY <2>1, <3>1, AverageBetween
      <3> QED
        BY <2>1, <2>2, <3>2, AverageType, DensityMonotone, SMT
    <2>3. CASE dust = Density(last) /\ \A i \in Slot : buffer[i] = last
      <3>1. low <= last /\ last <= high
        BY <2>3, SMT DEF Slot
      <3> QED
        BY <2>1, <2>3, <3>1, DensityMonotone, SMT
    <2> QED
      BY <2>2, <2>3 DEF Reported
  <1> QED
    BY <1>1, FilterAlways, PTL

-----------------------------------------------------------------------------
\* The loop begins with the channel of the microphone configured.
ChannelInv == SoundFromMic /\ (pc = "loop" => channel = MicChannel)

\* my_lm386_get_data: the sound is only ever that of the microphone.
THEOREM SoundIsMic == Spec => []SoundFromMic
  <1>1. Init => ChannelInv
    BY SMT DEF Init, ChannelInv, SoundFromMic
  <1>2. ChannelInv /\ [Next]_vars => ChannelInv'
    BY SMT DEF ChannelInv, SoundFromMic, Next, GP2Y1014AU0FInit, LM386Init,
       DustPoll, SoundPoll, Fill, Slide, vars, filter, history
  <1>3. ChannelInv => SoundFromMic
    BY DEF ChannelInv
  <1> QED
    BY <1>1, <1>2, <1>3, PTL DEF Spec

=============================================================================
