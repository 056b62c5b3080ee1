SPECIFICATION FairSpec
CONSTANTS
    Sizes <- TwoSizes
    Fps = 60
    MaxPoc = 119
    Payload <- ZeroPayload
    MaxFrames = 4
INVARIANTS BytesReadBack KeyFrameRepairs
PROPERTIES PicturesInOrder TakenIsShown
\* The frames run out.
CHECK_DEADLOCK FALSE
