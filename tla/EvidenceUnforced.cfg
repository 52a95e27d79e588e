SPECIFICATION Spec
CONSTANTS
    v = v
    w = w
    e = e
    Writers = {v, w}
    Earlier = e
    Forced = {w}
    Signed = {v, e}
    Outcome <- MCOutcome
    Common = Common
    Junk = Junk
    Missing = Missing
    MaxFaults = 0
    MaxSignals = 0
    MaxCrashes = 0
    MaxEdits = 0
PROPERTIES UnforcedReplacesNothing
CHECK_DEADLOCK FALSE
