------------------------------ MODULE Encoder -------------------------------
(***************************************************************************)
(* The front end's bitmap encoder state (src/freerds/core/encoder.c).     *)
(*                                                                         *)
(* An rdsEncoder holds a set of prepared codecs, each with its codec       *)
(* context, a tile grid and a bitstream, and for the surface codecs (RFX   *)
(* and NSC, which share it) a frame list with the frame-rate pacing of     *)
(* freerds_encoder_create_frame_id.  The encoder is driven through its     *)
(* API: new, prepare, reset, create_frame_id and free.  No code in this   *)
(* repository calls that API; the caller is the environment, which calls  *)
(* create_frame_id only while a surface codec is prepared.                 *)
(*                                                                         *)
(* The struct is the record `e`.  Pixel data, tile sizes and the codecs'  *)
(* own settings are left out; every allocation may fail.  A codec context  *)
(* exists exactly while its codec bit is set (no path sets one without    *)
(* the other), so the set `codecs` stands for both.                        *)
(***************************************************************************)
EXTENDS Integers, Sequences

CONSTANTS
    MaxFrames,  \* create_frame_id calls per frame list
    MaxOps      \* new, prepare, reset and free calls in a behaviour

\* The codec bits in the order freerds_encoder_prepare tests them.
PrepareOrder == <<"rfx", "nsc", "planar", "interleaved">>
Codecs == {"rfx", "nsc", "planar", "interleaved"}
SurfaceCodecs == {"rfx", "nsc"}

VARIABLES
    live,    \* the encoder is allocated
    e,       \* the rdsEncoder fields
    marker,  \* settings->SurfaceFrameMarkerEnabled of the connection
    ret,     \* what the last API call returned
    ops

vars == <<live, e, marker, ret, ops>>

\* calloc: every field zero.
Zeroed == [codecs |-> {}, fl |-> FALSE, nfl |-> 0, frameId |-> 0, fps |-> 0,
           maxFps |-> 0, frameAck |-> 0, grid |-> "none", bs |-> FALSE]

Init ==
    /\ live = FALSE /\ e = Zeroed /\ marker \in {0, 1}
    /\ ret = 0 /\ ops = 0

-----------------------------------------------------------------------------
(* Helpers, each one function of encoder.c                                 *)

\* freerds_encoder_init_grid: the tile buffer, then the tile pointers.
InitGrid(s, bufOk, gridOk) ==
    [s EXCEPT !.grid = IF ~bufOk THEN "none" ELSE IF gridOk THEN "ready" ELSE "buffer"]

\* freerds_encoder_init: the grid's result is not looked at; a failed
\* bitstream allocation returns -1.
EncoderInit(s, bufOk, gridOk, bsOk) ==
    LET g == InitGrid(s, bufOk, gridOk)
    IN  [g EXCEPT !.bs = s.bs \/ bsOk]

\* Mutant: the rate and numbering are reset even when the frame list
\* already exists.
FrameListInitRenumbers(s, listOk) ==
    IF s.fl THEN [s EXCEPT !.frameId = 0]
    ELSE [s EXCEPT !.fps = 16, !.maxFps = 32, !.frameId = 0, !.fl = listOk,
                   !.nfl = 0, !.frameAck = marker]

\* The frame list set-up of init_rfx and init_nsc, done by whichever runs
\* first.  ListDictionary_New(TRUE) is not checked: when it fails
\* (listOk FALSE) frameList stays NULL and the codec is still prepared.
FrameListInit(s, listOk) ==
    IF s.fl THEN s
    ELSE [s EXCEPT !.fps = 16, !.maxFps = 32, !.frameId = 0, !.fl = listOk,
                   !.nfl = 0, !.frameAck = marker]

\* freerds_encoder_init_rfx, _nsc, _planar, _interleaved once the context
\* exists: the surface codecs set up the shared frame list, and the codec
\* bit is set.
InitCodec(k, s, listOk) ==
    LET t == IF k \in SurfaceCodecs THEN FrameListInit(s, listOk) ELSE s
    IN  [t EXCEPT !.codecs = @ \cup {k}]

\* freerds_encoder_prepare: each requested codec not yet prepared is
\* initialised in PrepareOrder; a context allocation in `fails` fails and
\* returns -1 at once, leaving the codecs before it prepared; a codec in
\* `nolist` meets a failed ListDictionary_New.
RECURSIVE PrepareFrom(_, _, _, _, _)
PrepareFrom(i, cs, s, fails, nolist) ==
    IF i > Len(PrepareOrder) THEN [enc |-> s, ret |-> 1]
    ELSE LET k == PrepareOrder[i] IN
         IF k \notin cs \/ k \in s.codecs THEN PrepareFrom(i + 1, cs, s, fails, nolist)
         ELSE IF k \in fails THEN [enc |-> s, ret |-> -1]
         ELSE PrepareFrom(i + 1, cs, InitCodec(k, s, k \notin nolist), fails, nolist)

\* Mutant: uninit_rfx and uninit_nsc leave the frame list allocated.
UninitKeepsFrameList(s) ==
    [s EXCEPT !.grid = "none", !.bs = FALSE, !.codecs = {},
              !.frameId = IF "rfx" \in s.codecs THEN 0 ELSE s.frameId]

\* freerds_encoder_uninit: free the grid and bitstream, then uninit each
\* prepared codec.  uninit_rfx also zeroes frameId; uninit_rfx and
\* uninit_nsc both free the shared frame list.
Uninit(s) ==
    [s EXCEPT !.grid = "none", !.bs = FALSE, !.codecs = {},
              !.frameId = IF "rfx" \in s.codecs THEN 0 ELSE s.frameId,
              !.fl = IF s.codecs \cap SurfaceCodecs # {} THEN FALSE ELSE s.fl,
              !.nfl = IF s.codecs \cap SurfaceCodecs # {} THEN 0 ELSE s.nfl]

\* The pacing of freerds_encoder_create_frame_id from the frames in flight:
\* more than frameAck in flight slows the rate, otherwise it climbs by 2
\* up to maxFps; it is never below 1.
Pace(s) ==
    LET f == IF s.nfl > s.frameAck
               THEN ((100 \div (s.nfl + 1)) * s.maxFps) \div 100
               ELSE IF s.fps + 2 > s.maxFps THEN s.maxFps ELSE s.fps + 2
    IN  IF f < 1 THEN 1 ELSE f

-----------------------------------------------------------------------------
(* The API                                                                  *)

\* freerds_encoder_new: calloc, the default frame rate, init; a failed init
\* frees the struct (and not the grid it may have allocated).
New ==
    /\ ~live /\ ops < MaxOps
    /\ ops' = ops + 1
    /\ \/ /\ live' = FALSE /\ ret' = 0 /\ UNCHANGED e      \* calloc fails
       \/ \E bufOk, gridOk, bsOk \in BOOLEAN :
            LET s == EncoderInit([Zeroed EXCEPT !.fps = 16, !.maxFps = 32],
                                 bufOk, gridOk, bsOk)
            IN  /\ live' = bsOk
                /\ e' = IF bsOk THEN s ELSE Zeroed
                /\ ret' = IF bsOk THEN 1 ELSE 0
    /\ UNCHANGED marker

\* freerds_encoder_prepare(encoder, codecs).
Prepare(cs) ==
    /\ live /\ ops < MaxOps
    /\ ops' = ops + 1
    /\ \E fails \in SUBSET cs, nolist \in SUBSET (cs \cap SurfaceCodecs) :
         LET r == PrepareFrom(1, cs, e, fails, nolist)
         IN  e' = r.enc /\ ret' = r.ret
    /\ UNCHANGED <<live, marker>>

\* freerds_encoder_reset: uninit, init, and prepare the codecs it had.
Reset ==
    /\ live /\ ops < MaxOps
    /\ ops' = ops + 1
    /\ \E bufOk, gridOk, bsOk \in BOOLEAN, fails \in SUBSET e.codecs,
         nolist \in SUBSET (e.codecs \cap SurfaceCodecs) :
         LET s == EncoderInit(Uninit(e), bufOk, gridOk, bsOk)
             r == PrepareFrom(1, e.codecs, s, fails, nolist)
         IN  IF bsOk THEN e' = r.enc /\ ret' = r.ret
                     ELSE e' = s /\ ret' = -1
    /\ UNCHANGED <<live, marker>>

\* freerds_encoder_create_frame_id: pace, then allocate a frame, number it
\* and add it to the list; a failed allocation returns -1 with the new
\* rate kept.  With frameList NULL (a failed ListDictionary_New) the call
\* passes NULL to ListDictionary_Count and ListDictionary_Add, whose
\* behaviour is WinPR's, not this repository's: the model stops short of it.
CreateFrameId ==
    /\ live /\ e.codecs \cap SurfaceCodecs # {} /\ e.fl
    /\ e.frameId < MaxFrames
    /\ \E frameOk \in BOOLEAN :
         LET s == [e EXCEPT !.fps = Pace(e)]
         IN  IF frameOk
               THEN /\ e' = [s EXCEPT !.frameId = @ + 1, !.nfl = @ + 1]
                    /\ ret' = e.frameId + 1
               ELSE e' = s /\ ret' = -1
    /\ UNCHANGED <<live, marker, ops>>

\* freerds_encoder_free: uninit, then free.
Free ==
    /\ live /\ ops < MaxOps
    /\ ops' = ops + 1
    /\ live' = FALSE /\ e' = Zeroed /\ ret' = 0
    /\ UNCHANGED marker

Next ==
    \/ New \/ Reset \/ CreateFrameId \/ Free
    \/ \E cs \in SUBSET Codecs : Prepare(cs)

Spec == Init /\ [][Next]_vars

-----------------------------------------------------------------------------
(* Properties                                                              *)

TypeOK ==
    /\ live \in BOOLEAN
    /\ e.codecs \subseteq Codecs
    /\ e.nfl \in 0..MaxFrames /\ e.frameId \in 0..MaxFrames
    /\ e.grid \in {"none", "buffer", "ready"}
    /\ ret \in -1..MaxFrames

\* Frame ids are fresh within a frame list: create_frame_id numbers frames
\* ++frameId and adds them to frameList, and no frame is ever removed from
\* it, so every frame in the list has a distinct id in 1..frameId.  A
\* reset, an uninit of one surface codec but not the other, a prepare that
\* adds the second surface codec or meets a failed allocation must never
\* leave frameId behind the list it numbers (the frame acknowledgement
\* looks frames up by that id).
FrameIdsFresh == e.fl => e.nfl <= e.frameId

=============================================================================
