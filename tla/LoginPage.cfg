\* Three presses of Start, with everything that can arrive late.
SPECIFICATION PageSpec
CONSTANT MaxSessions = 3
INVARIANTS
    PageTypeOK
    VerifiesWhatItShowed
PROPERTIES
    NoFinishAfterCancel
    CheckingEnds
    CreatingEnds
CHECK_DEADLOCK FALSE
