SPECIFICATION Spec
CONSTANTS
    Blank = Blank
    Absent = Absent
    Greater <- MCGreater
    Broken = Broken
    None = None
    v1 = v1
    v2 = v2
    Topologies = {"host"}
    Objs <- MCObjs
    Texts <- MCTexts
    Inputs <- MCInputs
    Visits <- MCVisits
    MaxEdits = 2
INVARIANTS
    TypeOK
    InputsAreWritten
    RoundTripIsStable
    SayableComesBack
    RulesAreNotWeaker
    PassedCheckIsCurrent
CHECK_DEADLOCK FALSE
