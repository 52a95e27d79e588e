SPECIFICATION Spec
CONSTANTS
    v = v
    w = w
    e = e
    Writers = {v, w}
    Earlier = e
    Forced = {v, w}
    Signed = {v, e}
    Outcome <- MCOutcome
    Common = Common
    Junk = Junk
    Missing = Missing
    MaxFaults = 1
    MaxSignals = 1
    MaxCrashes = 1
    MaxEdits = 1
INVARIANTS AcceptedIsGenuine GenuineIsAccepted
PROPERTIES EvidenceSurvives UnownedSurvives
CHECK_DEADLOCK FALSE
