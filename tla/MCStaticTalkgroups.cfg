SPECIFICATION Spec
CONSTANTS
    a = a
    b = b
    Talkgroups <- mcTalkgroups
    Blank = Blank
    Rows <- mcRows
    Unseen = Unseen
    Omitted = Omitted
    Absent = Absent
INVARIANTS
    TypeOK
    StaleOnlyWithoutTopology
    TwiceOnlyByCommas
PROPERTIES
    HotspotsAreHeard
    SlimStateKeepsTalkgroups
