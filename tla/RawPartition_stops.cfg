CONSTANTS
    kept = kept  x = x  y = y  z = z
    Recording = {kept, x, y, z}
    Groups = 2
    Part <- Parts
    MaxStops = 4
    MaxSwitches = 3
SPECIFICATION LiveSpec
INVARIANTS PhaseTruthful WriteAhead
PROPERTIES OneWay Converges
CHECK_DEADLOCK FALSE
