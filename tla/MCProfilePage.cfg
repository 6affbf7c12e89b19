\* One click makes a second check that may overtake the first.
CONSTANTS
    Self = Self
    Mate = Mate
    Shown <- MCShown
    MaxClicks = 1
    MaxMoves = 1
    MaxEvents = 1
SPECIFICATION Spec
INVARIANTS QueuedOnceUnlessPrivate LiveAnswerIsShown RaidRowIsKept MembersBecomeKnown
PROPERTIES PageSettles
CHECK_DEADLOCK FALSE
