\* The encoder's API called in any order: four new, prepare, reset or free
\* calls, and up to 26 frames per frame list, so that 25 frames are in
\* flight and the pacing's integer division reaches 0.
CONSTANTS
    MaxFrames = 26
    MaxOps = 4

SPECIFICATION Spec

INVARIANT TypeOK
INVARIANT FrameIdsFresh

\* The API calls are bounded; once they are spent nothing is left to do.
CHECK_DEADLOCK FALSE
