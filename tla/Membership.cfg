CONSTANTS
    ann = ann
    bob = bob
    b1 = b1
    b2 = b2
    manage = manage
    restrict = restrict
    promote = promote
    Humans <- MCHumans
    Bots <- OneBot
    Creator = ann
    Flags <- MCFlags
    Manage = manage
    Restrict = restrict
    Promote = promote
    Nobody = Nobody
CHECK_DEADLOCK FALSE
SPECIFICATION Spec
INVARIANTS
    TypeOK
    MembersHaveNoRights
    ChatTypeIsRespected
    BotsAreUpToDate
PROPERTIES
    BansHold
