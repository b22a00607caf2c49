------------------------------- MODULE MCHub --------------------------------
EXTENDS Hub
CONSTANTS router, monitor, info, beacon, broken
MonitorTwo == [c \in Clients |-> IF c = monitor THEN 2 ELSE 1]
One == [c \in Clients |-> 1]
BothCommands == {StartBleScan, StopBleScan}
NoCommands == {}
=============================================================================
