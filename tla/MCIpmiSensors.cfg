CONSTANTS
    Plugins = {"sensor", "fan", "mem", "psu"}
    MaxSensors = 3
    Kinds <- const_Kinds
    MaxNamed = 2
SPECIFICATION Spec
INVARIANTS
    NothingForgotten
    BadSensorIsReported
    AnsweredDoesNotCrash
