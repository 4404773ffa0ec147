SPECIFICATION Spec
CONSTANTS
    Tasks = {i, a, b}
    Init1 = i
    MaxPid = 4
    Signals = {"HUP"}
    Catchable = {"HUP"}
    Callers = {a}
    Masks = {{}, {"HUP"}}
VIEW TaskView
INVARIANT DeathsSeen
