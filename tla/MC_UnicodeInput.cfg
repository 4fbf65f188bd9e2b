\* Unicode input: five characters, three posts, the worker started twice
\* (so a stop with characters queued is followed by a restart).
CONSTANTS
    Chars <- MCChars
    KeyMap <- MCKeyMap
    MaxPosts = 3
    MaxStarts = 2

SPECIFICATION Spec

INVARIANT TypeOK
INVARIANT BSearchAgrees
PROPERTY WorkerProgress

\* The caller's start, post and stop calls are bounded.
CHECK_DEADLOCK FALSE
