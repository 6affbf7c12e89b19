\* A slot of two ticks, pauses up to five, timers that fire a tick early.
CONSTANTS
    Callers = {a, b, c}
    Interval = 2
    DefaultPause = 5
    Backoff = 2
    Early = 1
    Replies <- MCReplies
SPECIFICATION Spec
PROPERTIES ImplementsBudget EveryRequestLeaves
