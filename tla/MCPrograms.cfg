CONSTANTS
    LevelCount = 9
    Keys <- MCKeys
    MaxKeys = 2
    MaxTouches = 2
    MAX_CMD_LENGTH = 3
    Letters = {"h", "p", "c", "z", "0", "3"}
    Digit <- MCDigit
    NewLine = "newline"
    Backspace = "backspace"
    Nul = "nul"
    C = "c"
    Word <- MCWord
    ZOOM_MIN = 1
    ZOOM_MAX = 10
    IntRange = 65536
    ShellKeys = 1
    Courts <- MCCourts
    BallSpeeds <- MCBallSpeeds
    PlayerSpeeds <- MCPlayerSpeeds
    Fields <- MCFields
    BallRadius = 1
    PlayerRadius = 2
SPECIFICATION ProgramsSpec
INVARIANTS FrameShowsPhase WinnerTouchedLast LevelsArePlayable
    DispatchSeesTheLine PromptIsAsLeft FieldShowsBodies
PROPERTIES KeysAnswerWhatWasShown QuitWorks HoleIsAnnounced BackToPrompt NobodyPassesThrough BallIsNeverLost
CHECK_DEADLOCK FALSE
