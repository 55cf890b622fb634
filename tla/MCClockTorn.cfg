CONSTANTS
    Seconds = 60
    Minutes = 60
SPECIFICATION Spec
PROPERTY ShowsCurrentTime
