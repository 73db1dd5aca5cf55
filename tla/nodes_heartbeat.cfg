SPECIFICATION FairNodesSpec
CONSTANTS
    Nodes = {n1, n2}
    Local = n1
    Deployed = {d1}
    Expired = 3
    NoNode = NoNode
PROPERTIES
    RegisteredStaysFresh
CHECK_DEADLOCK FALSE
