SPECIFICATION CountsSpec
CONSTANTS
    Letters = {old, recent}
    Recent = {recent}
    Requests = {r1, r2}
    MaxChanges = 2
    MaxLosses = 1
PROPERTY
    CountsComeTrue
CHECK_DEADLOCK FALSE
