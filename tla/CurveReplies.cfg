SPECIFICATION Spec
CONSTANTS
    CurveLen = 5
    FragmentLen = 2
    Pieces = 3
    ReplyLen = 2
    Disguises <- SomeDisguises
    MaxAsks = 4
    MaxLinks = 2
INVARIANTS
    TypeOK
    BufferHoldsOneCurve
    NothingOutlivesLink
    LossSpoilsOwnCurve
    SwallowingEnds
    RepliesGetThrough
