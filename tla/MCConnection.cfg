CONSTANTS
    ack = ack
    fwd1 = fwd1
    fwd2 = fwd2
    Frames <- MCFrames
    ReaderFrames <- MCReaderFrames
    Cap = 2
SPECIFICATION FairSpec
\* The process ends after Shutdown returns: no step follows.
CHECK_DEADLOCK FALSE
PROPERTY WritePathRefinesOutbox
