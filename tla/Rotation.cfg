\* In half days; the ten hours of the resync are rounded up.
CONSTANTS
    Life = 180
    Threshold = 28
    Requeue = 135
    Resync = 1
    MaxDelay = 27
SPECIFICATION Spec
INVARIANTS RecordedKeyLives
