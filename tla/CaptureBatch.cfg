\* Four groups on three workers; Ctrl-C at any step of the main thread.
SPECIFICATION FairSpec
CONSTANTS
    w1 = w1
    w2 = w2
    w3 = w3
    Workers <- MCWorkers
    N = 4
    InterruptAt = {"submit", "append", "wait", "write", "exit", "drain"}
    NoFailure = NoFailure
    Idle = Idle
INVARIANTS HandedOver OutcomeHonest Drained
PROPERTIES BatchEnds
CHECK_DEADLOCK FALSE
