\* Carbon sessions, Carbon rooms and the pump of the website, one at a time.
SPECIFICATION LiveSpec
CONSTANTS
    Unset = Unset
    a1 = a1  f1 = f1
    u1 = u1  u2 = u2  g1 = g1  b1 = b1  b2 = b2
    p1 = p1  p2 = p2
CONSTRAINT UpToCountdown
PROPERTIES DrainingConnectionsClose EveryEventDelivered HostExitDrains GoneMembersLeave AnsweredWithoutVisitors
CHECK_DEADLOCK FALSE
