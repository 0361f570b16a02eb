SPECIFICATION FairSpec
CONSTANTS
    l1 = l1
    Null = Null
    Listeners <- OneListener
    Ops <- SetAndAdd
    PacketSize = 1
    OnTime = TRUE
    MaxMetrics = 2
    MaxFlushes = 2
    MaxForgets = 1
INVARIANTS TypeOK GaugeInOrder OneWriter RestartPicksUp ResendsGauge
PROPERTIES FlushesEnd
