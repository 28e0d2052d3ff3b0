SPECIFICATION Spec
SYMMETRY GroupSymmetry
CONSTANTS
    b1 = b1
    group1 = group1
    group2 = group2
    dialog = dialog
    Bots <- OneBot
    Chats <- ThreeChats
    Groups <- TwoGroups
    Second = 2
    GroupWindow = 8
    PerChat = 1
    Global = 2
    PerGroup = 2
    NoRefusal = NoRefusal
    MaxTime = 10
    MaxSends = 4
INVARIANTS
    TypeOK
    LimitsHold
PROPERTIES
    ImplementsWindows
