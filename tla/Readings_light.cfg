CONSTANTS
    Device = {"hmc", "bme", "ltr"}
    Removable = {}
    Tries = 5
SPECIFICATION Spec
PROPERTY LuxInLightMode
