SPECIFICATION Spec
CONSTANTS
    CurveLen = 5
    FragmentLen = 2
    Pieces = 3
    ReplyLen = 2
    Disguises <- SomeDisguises
    MaxAsks = 2
    MaxLinks = 1
INVARIANTS
    TimeoutMeansNoReply
