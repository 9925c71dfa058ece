\* Reliable: windows of two for the six and twelve of the code, so the receiver has no
\* slack at all; three messages, one more than either end can hold.  The others are as
\* small as lets what they are about happen: a peer's generation two behind (Lag), with
\* ids that come round after three; two connections, and the five ports they, one claimed
\* meanwhile and two remembered ones need; a window of two packets.
SPECIFICATION SuiteSpec
CONSTANTS
    SendCapacity = 2
    RecvCapacity = 2
    FastRetransmit = 1
    RecentAcks = 2
    MaxAcks = 2
    MaxMessages = 3
    MaxAckPackets = 1
    Ids = 3
    Lag = 2
    MaxGen = 3
    Firsts <- TwoRepliesOrRefused
    Laters <- KeysAfterInfo
    ConnectTimeout = 5
    IdlePoll = 1
    Cap = 2
    PushInterval = 3
    PushTimeout = 7
    Pushes <- PushesOrSilence
    DefaultRestart = 6
    ChannelWakes = {3, 99}
    Depth = 1
    StreamWindow = 1
    MaxWritten = 3
    MaxSent = 2
    Conns = {"c1", "c2"}
    Ports = 5
    Lived = 1
    Remembered = 2
    QueueDepth = 1
    ReplaySpan = 2
    LastId = 4
    LastClock = 1
INVARIANTS TypeOK PromiseKept AcknowledgedIsKept DriverOnTime StreamTruthful PortsApart TakenOnce
PROPERTIES KeysInStep IsStream
\* Tunnels end, and the peers' scripts do.
CHECK_DEADLOCK FALSE
