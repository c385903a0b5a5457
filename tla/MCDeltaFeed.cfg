SPECIFICATION Spec
CONSTANTS
    Names = {a, b}
    None = None
    MaxSeq = 3
    MaxChannel = 3
INVARIANTS
    UnbrokenFeedIsExact
    NoFalseAlarm
    LostChangesAreLogged
