SPECIFICATION Spec
CONSTANTS
    MaxUpdates = 3
    MaxMessages = 3
INVARIANTS
    TypeOK
    SilenceIsFinal
    ScreenIsAnswer
