CONSTANT Sample = {60, 255, 300}
SPECIFICATION Spec
INVARIANTS
    SumIsWindow
    ForgetsOld
    WithinWindow
    SoundFromMic
