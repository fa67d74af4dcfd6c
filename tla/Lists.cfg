CONSTANTS
    n1 = n1
    n2 = n2
    n3 = n3
    n4 = n4
    freequeue = freequeue
    readyqueue = readyqueue
    NULL = NULL
    Nodes <- MCNodes
    Heads <- MCHeads
SPECIFICATION Spec
PROPERTY ImplementsQueues
