\* Two clients, a consumer, two slots: overflow, wrap-around, two seeks racing, a stop
\* clearing the pool under a sender, and a client that finds no memory for a command
\* when two are queued and two in other hands.  No symmetry: the run has liveness.
SPECIFICATION FairSpec
CONSTANTS
    MessageMax = 2
    Cell = {c1, c2, c3, c4}
    Client = {api, ui}
    Consumer = {player}
    Param = {1}
    NULL = NULL
    FREED = FREED
INVARIANTS TypeOK RingShape SingleOwner NoLeak
PROPERTIES ImplementsQueue CommandFreed
