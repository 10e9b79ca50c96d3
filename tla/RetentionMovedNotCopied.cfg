SPECIFICATION RetentionSpec
CONSTANTS
    Drafts = {"auto"}
    MaxSignals = 0
    MaxCrashes = 0
    MaxLostWakes = 0
INVARIANT MovedNotCopied
CHECK_DEADLOCK FALSE
