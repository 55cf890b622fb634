CONSTANTS
    Scenes <- MCScenes
    BallSpeeds <- MCBallSpeeds
    PlayerSpeeds <- MCPlayerSpeeds
SPECIFICATION Spec
PROPERTY PushedFullyOut
