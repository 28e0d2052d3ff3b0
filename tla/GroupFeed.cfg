SPECIFICATION Spec
SYMMETRY FeedSymmetry
CONSTANTS
    b1 = b1
    b2 = b2
    name1 = name1
    name2 = name2
    Bots <- TwoBots
    Names <- TwoNames
    Plain = Plain
    Bare = Bare
    Person = Person
    NoOne = NoOne
    MaxId = 2
INVARIANTS
    TypeOK
    DeliveryAsSpecified
    IdsNameOneMessage
PROPERTIES
    PrivacyChangesByRejoining
