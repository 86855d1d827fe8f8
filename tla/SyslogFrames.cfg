\* Messages of up to six tokens, one above the cap.
SPECIFICATION Spec
CONSTANTS
    MaxTokens = 5
    MaxNumber = 9
    Numeral <- MCNumeral
    Streams <- Sendable
    MaxFrameBytes = 5
INVARIANTS FramesAreExact StampedOnce
CHECK_DEADLOCK FALSE
