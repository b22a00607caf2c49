------------------------------ MODULE MCRouter ------------------------------
EXTENDS RouterProcess
CONSTANTS router, monitor, info
Command == [kind |-> "command"]
Report == [kind |-> "report"]
Two == [c \in Clients |-> 2]
One == [c \in Clients |-> 1]
MCPlatformMessages == {Command}
MCComponentMessages == {Report}
=============================================================================
