\* HttpUpload: three slices and three attempts, as the code has without a throttle.
\* AuthGate: four callers, three of them of one account, so two can queue behind a dial;
\* SmbSession: an operation that holds the slot and one that may be dropped; ReadLanes:
\* two lanes for one wanted, so a lane drains while its successor is used; SmbWrites: a
\* writer of each kind; Downloads: two of the client's and one of the C ABI's; WinFs: a
\* path that exists and one that does not.
SPECIFICATION SuiteSpec
CONSTANTS
    MaxSlices = 3
    MaxAttempts = 3
    MaxLate = 1
    Callers = {"c1", "c2", "c3", "c4"}
    Accounts = {"a", "b"}
    AccountOf <- ThirdElsewhere
    RouteOf <- FirstOverStream
    Impatient = {"c2"}
    Cooldown = 2
    MaxDials = 4
    Ops = {"o1", "o2"}
    Locked = {"o1"}
    Deserting = {"o2"}
    Adopters = {"a1"}
    MaxTrouble = 2
    Lanes = {"l1", "l2"}
    Handles = {"h1", "h2"}
    Pieces = {"p1", "p2"}
    Wanted = 1
    MaxFailures = 2
    MaxMoves = 1
    MaxReads = 2
    NoHandle = "no-handle"
    NoLane = "no-lane"
    Writers = {"w1", "w2", "w3", "w4"}
    MethodOf <- OneOfEach
    ModeOf <- ThirdCreates
    OldFile = "old"
    MaxChunks = 1
    Getters = {"d1", "d2", "d3"}
    InPieces = {"d3"}
    Chunk = 2
    Lengths <- FourThenThree
    MaxStarts = 2
    MaxFaults = 1
    Paths = {"p", "r"}
    Existing = {"p"}
    MaxOpens = 2
    MaxWrites = 2
INVARIANTS DoublesAreSuspected OnlyWrongFilesRejected StrikesSpaced LaneHandlesKept OldOrNew
PROPERTIES SuccessIsFaithful SessionHolds FilesKept
\* Every call returns.
CHECK_DEADLOCK FALSE
