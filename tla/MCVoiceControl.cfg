SPECIFICATION Spec
CONSTANTS
    SoundQueue = 2
    Caller <- TwoCallers
    Heard <- SomeCommands
    MaxFrames = 3
    MaxLost = 3
INVARIANTS
    RecognizerFollowsSpeech
    NoPhantomCommand
    LossCostsTwo
