CONSTANTS
    TickRange = 10
    Frequencies <- MCFrequencies
    Durations <- MCDurations
SPECIFICATION Spec
PROPERTY SleepTakesSeconds
