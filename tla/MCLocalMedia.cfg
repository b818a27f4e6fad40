SPECIFICATION FairSpec
CONSTANTS
    f1 = f1
    f2 = f2
    Files <- MCFiles
    High = 1
    Cap = 4
INVARIANTS
    MediaEndsWithCall
    AudioFollowsSource
    UndefinedOnlyByOverlap
    BufferNeverFills
PROPERTIES
    HangUpReturns
CONSTRAINT
    OneRace
