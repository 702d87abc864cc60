\* Every pair of random blocks on four columns, where one long block fills a row
\* and two square ones fill two; nine blocks pass level 2.
SPECIFICATION FairSpec
CONSTANTS
    BOARD_WIDTH = 6
    BOARD_HEIGHT = 8
    Speed0 = 2
    LinesPerLevel = 4
    RandomTypes = {0, 1, 2, 3, 4, 5, 6}
    MaxPieces = 9
    MaxClock = 3
INVARIANTS
    TypeOK
    MovesLeaveNoTrace
    NoFullRowStays
    LevelFollowsScore
PROPERTIES
    BlockLands
\* The player may leave, and pieces are bounded.
CHECK_DEADLOCK FALSE
