---------------------------- MODULE UnicodeInput ----------------------------
(***************************************************************************)
(* Asynchronous unicode keyboard input of the X11 service module            *)
(* (rdpInputUnicode.c).                                                    *)
(*                                                                         *)
(* The X server's thread posts each unicode keyboard event to a queue; a   *)
(* worker thread, which can open its own Display, dequeues them one at a  *)
(* time, maps the character to a keysym (Latin-1 directly, others through *)
(* a binary search of keysymtab, the rest as a directly encoded UCS       *)
(* keysym), the keysym to a keycode of the current keymap, and enqueues    *)
(* press and release events (with Shift_L around them when the keycode's   *)
(* first level is not the keysym) through the caller's callback.  Stop     *)
(* sets a flag the worker polls, joins it and frees the queue.             *)
(*                                                                         *)
(* The keymap is the X server's: a CONSTANT mapping keycodes to their      *)
(* levels.  Xlib's lookups are translated from their documented search    *)
(* order.  The caller (start, post, stop on the X server's thread) is not  *)
(* in this repository: it is the environment.                              *)
(***************************************************************************)
EXTENDS Naturals, Sequences, SequencesExt, Bitwise

CONSTANTS
    Chars,      \* unicode values the client may send
    KeyMap,     \* keycode -> << level 0 keysym, level 1 keysym, ... >>
    MaxPosts,   \* characters posted in a behaviour
    MaxStarts   \* times the worker is started

VARIABLES
    qstate,     \* g_unicodeInputQueue: "none", "live" or "freed"
    queue,      \* its contents: indices into posted
    cancel,     \* g_cancelUnicodeThread
    worker,     \* the worker thread: "none", "running" or "exited"
    caller,     \* the X server's thread: "idle" or "joining" (in stop)
    starts,     \* start calls so far
    posted,     \* history: every character posted, in order
    handled,    \* history: [idx, display] of every character dequeued
    lost,       \* history: indices of characters freed with the queue
    out         \* the key events enqueued through enqueueKey

vars == <<qstate, queue, cancel, worker, caller, starts, posted, handled, lost, out>>

Codes == DOMAIN KeyMap

XK_Shift_L == \hffe1
NoSymbol == 0

-----------------------------------------------------------------------------
(* The keysym table and its search                                         *)

\* keysymtab, sorted by ucs: the entries for the control characters, one
\* Latin-1 entry the direct mapping shadows, entries found by the search
\* and a ucs that appears twice.
keysymtab == << [keysym |-> \hff08, ucs |-> \h8],
                [keysym |-> \hff0d, ucs |-> \hd],
                [keysym |-> \hba3,  ucs |-> \h3c],
                [keysym |-> \h7e1,  ucs |-> \h3b1],
                [keysym |-> \had0,  ucs |-> \h2018],
                [keysym |-> \h20ac, ucs |-> \h20ac],
                [keysym |-> \h8de,  ucs |-> \h2227],
                [keysym |-> \hba9,  ucs |-> \h2227] >>

\* Mutant: "less than or equal" where the code tests "less than".
CompareUcsLe(key, ucs) == IF key <= ucs THEN -1 ELSE IF key > ucs THEN 1 ELSE 0

\* compare_ucs.
CompareUcs(key, ucs) == IF key < ucs THEN -1 ELSE IF key > ucs THEN 1 ELSE 0

\* bsearch over the ucs values us (0-based positions, half-open [l, u)):
\* the position of an element comparing equal, or -1.
RECURSIVE BSearch(_, _, _, _)
BSearch(us, key, l, u) ==
    IF l >= u THEN -1
    ELSE LET idx == (l + u) \div 2
             cmp == CompareUcs(key, us[idx + 1])
         IN  IF cmp < 0 THEN BSearch(us, key, l, idx)
             ELSE IF cmp > 0 THEN BSearch(us, key, idx + 1, u)
             ELSE idx

Latin1(ucs) == (ucs >= \h20 /\ ucs <= \h7e) \/ (ucs >= \ha0 /\ ucs <= \hff)

\* unicode_to_keysym.
UnicodeToKeysym(ucs) ==
    LET us == [i \in DOMAIN keysymtab |-> keysymtab[i].ucs]
        found == BSearch(us, ucs, 0, Len(keysymtab))
    IN  IF Latin1(ucs) THEN ucs
        ELSE IF found # -1 THEN keysymtab[found + 1].keysym
        ELSE ucs | \h1000000

-----------------------------------------------------------------------------
(* Xlib                                                                    *)

\* XKeysymToKeycode: levels outermost, keycodes in increasing order; 0 when
\* no keycode carries the keysym.
XKeysymToKeycode(sym) ==
    LET at(j) == {k \in Codes : Len(KeyMap[k]) >= j /\ KeyMap[k][j] = sym}
        levels == {j \in 1..4 : at(j) # {}}
    IN  IF levels = {} THEN 0
        ELSE LET j == CHOOSE j \in levels : \A i \in levels : j <= i
             IN  CHOOSE k \in at(j) : \A c \in at(j) : k <= c

\* XKeycodeToKeysym(display, code, 0).
LevelZero(code) == IF code \in Codes THEN KeyMap[code][1] ELSE NoSymbol

-----------------------------------------------------------------------------
(* Mapping a character to key events                                       *)

\* unicode_to_keycode with the display open: the keycode of the keysym, and
\* Shift_L's keycode when level 0 of that keycode is another keysym.
UnicodeToKeycode(ucs) ==
    LET sym == UnicodeToKeysym(ucs)
        code == XKeysymToKeycode(sym)
    IN  [code |-> code,
         shift |-> IF LevelZero(code) # sym THEN XKeysymToKeycode(XK_Shift_L) ELSE 0]

Press(k) == [kind |-> "press", code |-> k]
Release(k) == [kind |-> "release", code |-> k]

\* The enqueueKey calls of add_unicode_event_async.
KeyEvents(code, shift) ==
    (IF shift # 0 THEN <<Press(shift)>> ELSE <<>>)
        \o <<Press(code), Release(code)>>
        \o (IF shift # 0 THEN <<Release(shift)>> ELSE <<>>)

\* Mutant: the code == 0 test dropped.
AddUnicodeEventAsyncNoCheck(ucs, display) ==
    IF ~display THEN <<>>
    ELSE LET k == UnicodeToKeycode(ucs) IN KeyEvents(k.code, k.shift)

\* add_unicode_event_async: nothing when XOpenDisplay fails (code stays 0)
\* or the keysym has no keycode in the keymap.
AddUnicodeEventAsync(ucs, display) ==
    IF ~display THEN <<>>
    ELSE LET k == UnicodeToKeycode(ucs) IN
         IF k.code = 0 THEN <<>> ELSE KeyEvents(k.code, k.shift)

-----------------------------------------------------------------------------
(* The caller: start, post, stop                                           *)

Init ==
    /\ qstate = "none"
    /\ queue = <<>>
    /\ cancel = FALSE
    /\ worker = "none"
    /\ caller = "idle"
    /\ starts = 0
    /\ posted = <<>>
    /\ handled = <<>>
    /\ lost = {}
    /\ out = <<>>

\* start_asynchronous_unicode_input_processing_thread: a new queue, the
\* flag cleared, a new worker (again after a stop).
Start ==
    /\ caller = "idle" /\ worker # "running"
    /\ starts < MaxStarts
    /\ starts' = starts + 1
    /\ qstate' = "live" /\ queue' = <<>>
    /\ cancel' = FALSE
    /\ worker' = "running"
    /\ UNCHANGED <<caller, posted, handled, lost, out>>

\* postUnicodeInputEvent: the character is appended to the queue.
PostUnicodeInputEvent(u) ==
    /\ caller = "idle" /\ qstate = "live"
    /\ Len(posted) < MaxPosts
    /\ posted' = Append(posted, u)
    /\ queue' = Append(queue, Len(posted) + 1)
    /\ UNCHANGED <<qstate, cancel, worker, caller, starts, handled, lost, out>>

\* stop_asynchronous_unicode_input_processing_thread: set the flag, then
\* block in pthread_join.
StopSignal ==
    /\ caller = "idle" /\ qstate = "live"
    /\ cancel' = TRUE
    /\ caller' = "joining"
    /\ UNCHANGED <<qstate, queue, worker, starts, posted, handled, lost, out>>

\* pthread_join returns once the worker has exited; Queue_Free frees the
\* queue with the characters still in it.
StopJoin ==
    /\ caller = "joining" /\ worker = "exited"
    /\ caller' = "idle"
    /\ qstate' = "freed"
    /\ lost' = lost \cup Range(queue)
    /\ queue' = <<>>
    /\ UNCHANGED <<cancel, worker, starts, posted, handled, out>>

-----------------------------------------------------------------------------
(* The worker: unicode_run                                                 *)

\* Mutant: Queue_Count tested against 1.
HasWorkOffByOne == Len(queue) > 1

\* Queue_Count(g_unicodeInputQueue) > 0.
HasWork == Len(queue) > 0

\* One iteration with the flag clear and the queue not empty: dequeue the
\* oldest character and enqueue its key events (XOpenDisplay may fail).
\* An iteration with an empty queue waits and changes nothing.
Dequeue ==
    /\ worker = "running" /\ ~cancel
    /\ HasWork
    /\ \E display \in BOOLEAN :
         /\ handled' = Append(handled, [idx |-> Head(queue), display |-> display])
         /\ out' = out \o AddUnicodeEventAsync(posted[Head(queue)], display)
    /\ queue' = Tail(queue)
    /\ UNCHANGED <<qstate, cancel, worker, caller, starts, posted, lost>>

\* The flag is set: the loop breaks and the thread ends.
RunExit ==
    /\ worker = "running" /\ cancel
    /\ worker' = "exited"
    /\ UNCHANGED <<qstate, queue, cancel, caller, starts, posted, handled, lost, out>>

UnicodeRun == Dequeue \/ RunExit

Caller == Start \/ StopSignal \/ \E u \in Chars : PostUnicodeInputEvent(u)

Next == Caller \/ UnicodeRun \/ StopJoin

\* The worker loops until the flag is set, never blocking for more than the
\* 1000 ms of its wait; pthread_join returns once it has ended.  The
\* caller's start, posts and stop are never forced.
Spec == Init /\ [][Next]_vars /\ WF_vars(UnicodeRun) /\ WF_vars(StopJoin)

-----------------------------------------------------------------------------
(* Properties                                                              *)

TypeOK ==
    /\ qstate \in {"none", "live", "freed"}
    /\ queue \in Seq(1..MaxPosts)
    /\ cancel \in BOOLEAN
    /\ worker \in {"none", "running", "exited"}
    /\ caller \in {"idle", "joining"}
    /\ starts \in 0..MaxStarts
    /\ posted \in Seq(Chars)
    /\ handled \in Seq([idx : 1..MaxPosts, display : BOOLEAN])
    /\ lost \subseteq 1..MaxPosts
    /\ out \in Seq([kind : {"press", "release"}, code : Codes])

\* The reference meaning of keysymtab: the keysyms the table gives a
\* character, by linear search, after the Latin-1 identity; a character
\* the table lacks is the directly encoded UCS keysym.
RefKeysyms(ucs) ==
    LET rows == {i \in DOMAIN keysymtab : keysymtab[i].ucs = ucs} IN
    IF Latin1(ucs) THEN {ucs}
    ELSE IF rows # {} THEN {keysymtab[i].keysym : i \in rows}
    ELSE {ucs + \h1000000}

\* The bsearch of unicode_to_keysym, with compare_ucs, agrees with a
\* linear search: every character posted so far is mapped to one of its
\* reference keysyms, and on every sorted table of up to four entries
\* (values 1..3, repeats allowed) and every key 0..4 the search finds a
\* matching position when there is one, and -1 otherwise.
BSearchAgrees ==
    /\ \A i \in DOMAIN posted : UnicodeToKeysym(posted[i]) \in RefKeysyms(posted[i])
    /\ \A us \in {s \in SeqOf(1..3, 4) : \A i \in 1..Len(s) - 1 : s[i] <= s[i + 1]} :
         \A key \in 0..4 :
            LET r == BSearch(us, key, 0, Len(us)) IN
            IF \E i \in DOMAIN us : us[i] = key
              THEN r \in 0..Len(us) - 1 /\ us[r + 1] = key
              ELSE r = -1

\* The worker makes progress: every character posted is eventually taken
\* off the queue unless a stop freed the queue first, and a stop's
\* pthread_join returns (the worker sees g_cancelUnicodeThread set).
WorkerProgress ==
    /\ \A i \in 1..MaxPosts :
          Len(posted) >= i ~> (Len(handled) + Cardinality(lost) >= i)
    /\ caller = "joining" ~> caller = "idle"

====
