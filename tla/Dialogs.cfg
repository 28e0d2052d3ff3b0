CONSTANTS
    p1 = p1
    p2 = p2
    b1 = b1
    b2 = b2
    People <- MCPeople
    BotIds <- MCBots
    NoQuery = NoQuery
    MaxMessages = 2
SPECIFICATION Spec
SYMMETRY Symmetry
INVARIANTS
    TypeOK
    HiddenOnlyByTakeover
    ChatListIsComplete
PROPERTIES
    PressMeetsItsButton
