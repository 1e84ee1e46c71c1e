------------------------------- MODULE Player -------------------------------
(***************************************************************************)
(* The threads of avtools/avplay.c that carry a video stream: the demuxing *)
(* thread D (decode_thread), the decoding thread V (video_thread), the     *)
(* main thread M (event_loop), which displays, and the refresh thread R.   *)
(*                                                                         *)
(* The packet queue is a monitor of its own: each of its operations is one *)
(* step, a blocking get is a step that waits for a packet or the abort.    *)
(* The picture queue is not: size changes under pictq_mutex, but rindex,   *)
(* windex, the pictures and their target times are read and written by M   *)
(* and V without it, so each such access is a step of its own.             *)
(*                                                                         *)
(* A picture is [e: how many seeks came before it, n: its number].         *)
(***************************************************************************)
EXTENDS Integers, Sequences, FiniteSets

CONSTANTS
  QueueSize,   \* VIDEO_PICTURE_QUEUE_SIZE, 2 in the code
  MinFrames,   \* MIN_FRAMES: D stops reading above it, 5 in the code
  Setups,      \* the ways to play: records of the type SetupType
  Frames       \* bound: packets in the file

ASSUME SizeAssumption == QueueSize \in Nat \ {0, 1} /\ MinFrames \in Nat /\ Frames \in Nat

SetupType ==
  [ delay : Nat,            \* pictures the decoder holds back
    framedrop : BOOLEAN,    \* -framedrop
    loops : Nat,            \* -loop: how often to start again at the end
    ioError : BOOLEAN,      \* reading may fail
    noautoexit : BOOLEAN,   \* -noautoexit
    allocFails : BOOLEAN,   \* SDL_CreateYUVOverlay() may fail
    maxSeeks : Nat,         \* bound: seeks of the user
    maxPauses : Nat ]       \* bound: uses of the pause key

ASSUME SetupsAssumption == Setups \subseteq SetupType

VARIABLES
  setup,
  videoq, qabort,           \* is->videoq and its abort_request
  pictq,                    \* pictures, target times, allocation, by slot
  size, rindex, windex,
  out_video_filter, filter_mutex,   \* who holds video_filter_mutex
  abort_request, seek_req, paused, refresh, video_st,
  events,                   \* the SDL event queue
  dpc, epoch, pos, eof, loops, dret,       \* D
  vpc, vsleep, vi, vpic, decoder,          \* V
  mpc, mnext,                              \* M
  rpc,                                     \* R
  seeks, pauses,            \* bounds
  shown, flushed            \* history: picture shown last, flush V has done

queueVars == <<videoq, qabort>>
pictVars  == <<pictq, size, rindex, windex>>
flagVars  == <<abort_request, seek_req, paused, refresh, video_st>>
demuxVars == <<dpc, epoch, pos, eof, loops, dret>>
videoVars == <<vpc, vsleep, vi, vpic, decoder, flushed>>
mainVars  == <<mpc, mnext, shown>>
boundVars == <<seeks, pauses>>
filterVars == <<out_video_filter, filter_mutex>>
vars == <<setup, queueVars, pictVars, flagVars, filterVars, events, demuxVars,
          videoVars, mainVars, rpc, boundVars>>

Slots == 0..(QueueSize - 1)
Succ(i) == (i + 1) % QueueSize
NoPicture == [e |-> -1, n |-> -1]
Flush == [k |-> "flush", e |-> 0, n |-> 0]
Null  == [k |-> "null", e |-> 0, n |-> 0]

(* stream_open(): the video thread and the queue with its first flush      *)
(* packet exist; no picture is allocated.                                  *)
Init ==
  /\ setup \in Setups
  /\ videoq = <<Flush>> /\ qabort = FALSE
  /\ pictq = [i \in Slots |-> [pic |-> NoPicture, target |-> 0, bmp |-> FALSE,
                               allocated |-> FALSE]]
  /\ size = 0 /\ rindex = 0 /\ windex = 0
  /\ out_video_filter = TRUE /\ filter_mutex = "free"
  /\ abort_request = FALSE /\ seek_req = FALSE /\ paused = FALSE
  /\ refresh = FALSE /\ video_st = TRUE
  /\ events = <<>>
  /\ dpc = "top" /\ epoch = 0 /\ pos = 0 /\ eof = FALSE
  /\ loops = setup.loops /\ dret = "none"
  /\ vpc = "top" /\ vsleep = FALSE /\ vi = 0 /\ vpic = NoPicture /\ decoder = <<>>
  /\ mpc = "loop" /\ mnext = 0
  /\ rpc = "top"
  /\ seeks = 0 /\ pauses = 0
  /\ shown = NoPicture /\ flushed = 0

(* pictq_mutex is held across steps only while V resets the target times. *)
PictLockFree == vpc # "zero"

(* SDL_CondSignal(is->pictq_cond): V is the only one to wait for it. *)
Signal_None == UNCHANGED vsleep
Signal == vsleep' = FALSE

(* stream_seek(): ignored while a seek is pending. *)
StreamSeek == seek_req' = TRUE

(* compute_target_time(): later for every picture of a stream. *)
TargetTime(p) == p.e * (Frames + 1) + p.n + 1

---------------------------------------------------------------------------
(***************************************************************************)
(* D: decode_thread().                                                     *)
(***************************************************************************)

(* The top of the loop: abort, or a seek, which flushes the packet queue   *)
(* and then appends the flush packet.                                      *)
DAbort ==
  /\ dpc \in {"top", "idle"} /\ abort_request
  /\ dpc' = "close"
  /\ UNCHANGED <<setup, queueVars, pictVars, flagVars, filterVars, events,
                 epoch, pos, eof, loops, dret, videoVars, mainVars, rpc, boundVars>>

DSeek ==
  /\ dpc = "top" /\ ~abort_request /\ seek_req
  /\ \/ /\ videoq' = <<>>
        /\ epoch' = epoch + 1 /\ pos' = 0
        /\ dpc' = "putflush"
        /\ UNCHANGED <<seek_req, eof>>
     \/ \* avformat_seek_file() fails
        /\ seek_req' = FALSE /\ eof' = FALSE
        /\ dpc' = "read"
        /\ UNCHANGED <<videoq, epoch, pos>>
  /\ UNCHANGED <<setup, qabort, pictVars, abort_request, paused, refresh, video_st,
                 filterVars, events, loops, dret, videoVars, mainVars, rpc, boundVars>>

DPutFlush ==
  /\ dpc = "putflush"
  /\ videoq' = Append(videoq, [Flush EXCEPT !.e = epoch])
  /\ seek_req' = FALSE /\ eof' = FALSE
  /\ dpc' = "read"
  /\ UNCHANGED <<setup, qabort, pictVars, abort_request, paused, refresh, video_st,
                 filterVars, events, epoch, pos, loops, dret, videoVars, mainVars, rpc,
                 boundVars>>

(* Without a seek: wait as long as the queue is full, append an empty      *)
(* packet at the end of the file, or read a packet.                        *)
DRead ==
  /\ dpc = "read" \/ (dpc = "top" /\ ~abort_request /\ ~seek_req)
  /\ \/ /\ Len(videoq) > MinFrames
        /\ dpc' = "top"
        /\ UNCHANGED <<videoq, pos, eof>>
     \/ /\ Len(videoq) <= MinFrames /\ eof
        /\ videoq' = Append(videoq, Null)
        /\ dpc' = "eof"
        /\ UNCHANGED <<pos, eof>>
     \/ /\ Len(videoq) <= MinFrames /\ ~eof /\ pos < Frames
        /\ videoq' = Append(videoq, [k |-> "packet", e |-> epoch, n |-> pos])
        /\ pos' = pos + 1
        /\ dpc' = "top"
        /\ UNCHANGED eof
     \/ /\ Len(videoq) <= MinFrames /\ ~eof /\ pos = Frames
        /\ eof' = TRUE
        /\ dpc' = "top"
        /\ UNCHANGED <<videoq, pos>>
     \/ \* ic->pb->error: wait until the end
        /\ Len(videoq) <= MinFrames /\ ~eof /\ setup.ioError
        /\ dpc' = "idle"
        /\ UNCHANGED <<videoq, pos, eof>>
  /\ UNCHANGED <<setup, qabort, pictVars, flagVars, filterVars, events, epoch, loops, dret,
                 videoVars, mainVars, rpc, boundVars>>

(* All packets taken: play it again, or exit. *)
DEof ==
  /\ dpc = "eof"
  /\ \/ /\ videoq # <<>>
        /\ dpc' = "top" /\ UNCHANGED <<seek_req, loops, dret>>
     \/ /\ videoq = <<>> /\ loops > 0
        /\ loops' = loops - 1 /\ StreamSeek
        /\ dpc' = "top" /\ UNCHANGED dret
     \/ /\ videoq = <<>> /\ loops = 0 /\ setup.noautoexit
        /\ dpc' = "top" /\ UNCHANGED <<seek_req, loops, dret>>
     \/ /\ videoq = <<>> /\ loops = 0 /\ ~setup.noautoexit
        /\ dret' = "eof" /\ dpc' = "close"
        /\ UNCHANGED <<seek_req, loops>>
  /\ UNCHANGED <<setup, queueVars, pictVars, abort_request, paused, refresh, video_st,
                 filterVars, events, epoch, pos, eof, videoVars, mainVars, rpc, boundVars>>

(* stream_component_close(): abort the packet queue, wake V, join it. *)
DClose ==
  /\ dpc = "close"
  /\ qabort' = TRUE
  /\ dpc' = "wake"
  /\ UNCHANGED <<setup, videoq, pictVars, flagVars, filterVars, events, epoch, pos, eof,
                 loops, dret, videoVars, mainVars, rpc, boundVars>>

DWake ==
  /\ dpc = "wake" /\ PictLockFree
  /\ Signal
  /\ dpc' = "join"
  /\ UNCHANGED <<setup, queueVars, pictVars, flagVars, filterVars, events, epoch, pos, eof,
                 loops, dret, vpc, vi, vpic, decoder, flushed, mainVars, rpc, boundVars>>

(* packet_queue_end() and, at the end of the file, FF_QUIT_EVENT. *)
DJoin ==
  /\ dpc = "join" /\ vpc = "exit"
  /\ videoq' = <<>> /\ video_st' = FALSE
  /\ events' = IF dret = "eof" THEN Append(events, "quit") ELSE events
  /\ dpc' = "exit"
  /\ UNCHANGED <<setup, qabort, pictVars, abort_request, seek_req, paused, refresh,
                 filterVars, epoch, pos, eof, loops, dret, videoVars, mainVars, rpc,
                 boundVars>>

Demux == DAbort \/ DSeek \/ DPutFlush \/ DRead \/ DEof \/ DClose \/ DWake \/ DJoin

---------------------------------------------------------------------------
(***************************************************************************)
(* V: video_thread().                                                      *)
(***************************************************************************)

(* The loop polls while the player is paused. *)
VTop ==
  /\ vpc = "top" /\ (paused => qabort)
  /\ vpc' = "get"
  /\ UNCHANGED <<setup, queueVars, pictVars, flagVars, filterVars, events, demuxVars,
                 vsleep, vi, vpic, decoder, flushed, mainVars, rpc, boundVars>>

(* avcodec_decode_video2(): a packet pushes a picture out of a full        *)
(* decoder, the empty packet pushes one out of any that holds one.         *)
Fed(p) == IF p.k = "packet" THEN Append(decoder, [e |-> p.e, n |-> p.n]) ELSE decoder
Held(p) == IF p.k = "packet" THEN setup.delay ELSE 0

(* get_video_frame(): the flush packet empties the decoder and goes on to  *)
(* drain the picture queue with pictq_mutex held; otherwise a picture that *)
(* is not skipped goes to queue_picture().                                 *)
VGet ==
  /\ vpc = "get"
  /\ \/ /\ qabort
        /\ vpc' = "end"
        /\ UNCHANGED <<videoq, vi, vpic, decoder>>
     \/ /\ ~qabort /\ videoq # <<>> /\ Head(videoq).k = "flush"
        /\ videoq' = Tail(videoq)
        /\ decoder' = <<>> /\ vi' = 0
        /\ vpic' = [e |-> Head(videoq).e, n |-> -1]
        /\ vpc' = "zero"
     \/ /\ ~qabort /\ videoq # <<>> /\ Head(videoq).k # "flush"
        /\ videoq' = Tail(videoq)
        /\ LET d == Fed(Head(videoq)) IN
           IF Len(d) > Held(Head(videoq))
           THEN /\ decoder' = Tail(d) /\ vpic' = Head(d)
                /\ vpc' \in {"full"} \cup (IF setup.framedrop THEN {"top"} ELSE {})
           ELSE decoder' = d /\ vpc' = "top" /\ UNCHANGED vpic
        /\ UNCHANGED vi
  /\ UNCHANGED <<setup, qabort, pictVars, flagVars, filterVars, events, demuxVars,
                 vsleep, flushed, mainVars, rpc, boundVars>>

(* while (is->pictq_size && !is->videoq.abort_request) SDL_CondWait() *)
Drained_Unchecked == TRUE
Drained_NoAbort == size = 0
Drained == size = 0 \/ qabort

DrainWait ==
  IF Drained
  THEN vpc' = "top" /\ flushed' = vpic.e /\ UNCHANGED vsleep
  ELSE vpc' = "drain" /\ vsleep' = TRUE /\ UNCHANGED flushed

VZero ==
  /\ vpc = "zero"
  /\ IF vi < QueueSize
     THEN /\ pictq' = [pictq EXCEPT ![vi].target = 0]
          /\ vi' = vi + 1
          /\ UNCHANGED <<vpc, vsleep, flushed>>
     ELSE DrainWait /\ vi' = 0 /\ UNCHANGED pictq
  /\ UNCHANGED <<setup, queueVars, size, rindex, windex, flagVars, filterVars, events,
                 demuxVars, vpic, decoder, mainVars, rpc, boundVars>>

VDrain ==
  /\ vpc = "drain" /\ ~vsleep
  /\ DrainWait
  /\ UNCHANGED <<setup, queueVars, pictVars, flagVars, filterVars, events, demuxVars,
                 vi, vpic, decoder, mainVars, rpc, boundVars>>

(* queue_picture(): wait for a free slot. *)
HasRoom_OneMore == size <= QueueSize
HasRoom == size < QueueSize

VFull ==
  /\ vpc = "full" /\ ~vsleep
  /\ IF HasRoom \/ qabort THEN vpc' = "slot" /\ UNCHANGED vsleep
                          ELSE vsleep' = TRUE /\ UNCHANGED vpc
  /\ UNCHANGED <<setup, queueVars, pictVars, flagVars, filterVars, events, demuxVars,
                 vi, vpic, decoder, flushed, mainVars, rpc, boundVars>>

(* A slot without an overlay is allocated by M. *)
VSlot ==
  /\ vpc = "slot"
  /\ IF qabort \/ pictq[windex].bmp
     THEN /\ vpc' = IF qabort THEN "end" ELSE "copy"
          /\ UNCHANGED <<pictq, events>>
     ELSE /\ pictq' = [pictq EXCEPT ![windex].allocated = FALSE]
          /\ events' = Append(events, "alloc")
          /\ vpc' = "alloc"
  /\ UNCHANGED <<setup, queueVars, size, rindex, windex, flagVars, filterVars, demuxVars,
                 vsleep, vi, vpic, decoder, flushed, mainVars, rpc, boundVars>>

VAlloc ==
  /\ vpc = "alloc" /\ ~vsleep
  /\ IF pictq[windex].allocated \/ qabort
     THEN vpc' = (IF qabort THEN "end" ELSE "copy") /\ UNCHANGED vsleep
     ELSE vsleep' = TRUE /\ UNCHANGED vpc
  /\ UNCHANGED <<setup, queueVars, pictVars, flagVars, filterVars, events, demuxVars,
                 vi, vpic, decoder, flushed, mainVars, rpc, boundVars>>

(* av_image_copy() ends; windex moves on without pictq_mutex. *)
VCopied ==
  /\ vpc = "copy"
  /\ pictq' = [pictq EXCEPT ![windex].pic = vpic]
  /\ windex' = Succ(windex)
  /\ vpc' = "count"
  /\ UNCHANGED <<setup, queueVars, size, rindex, flagVars, filterVars, events, demuxVars,
                 vsleep, vi, vpic, decoder, flushed, mainVars, rpc, boundVars>>

(* With pictq_mutex: the target time of the picture, and its count. *)
VCount ==
  /\ vpc = "count"
  /\ pictq' = [i \in Slots |-> IF Succ(i) = windex
                               THEN [pictq[i] EXCEPT !.target = TargetTime(vpic)]
                               ELSE pictq[i]]
  /\ size' = size + 1
  /\ vpc' = "top"
  /\ UNCHANGED <<setup, queueVars, rindex, windex, flagVars, filterVars, events, demuxVars,
                 vsleep, vi, vpic, decoder, flushed, mainVars, rpc, boundVars>>

VEnd ==
  /\ vpc = "end" /\ filter_mutex = "free"
  /\ out_video_filter' = FALSE
  /\ vpc' = "exit"
  /\ UNCHANGED <<setup, queueVars, pictVars, flagVars, filter_mutex, events, demuxVars,
                 vsleep, vi, vpic, decoder, flushed, mainVars, rpc, boundVars>>

Video == VTop \/ VGet \/ VZero \/ VDrain \/ VFull \/ VSlot \/ VAlloc \/ VCopied
           \/ VCount \/ VEnd

---------------------------------------------------------------------------
(***************************************************************************)
(* M: event_loop(), and R: refresh_thread().                               *)
(***************************************************************************)

(* The user seeks, pauses or quits. *)
User ==
  /\ mpc = "loop"
  /\ \/ /\ seeks < setup.maxSeeks
        /\ StreamSeek /\ seeks' = seeks + 1
        /\ UNCHANGED <<paused, pauses, mpc>>
     \/ /\ pauses < setup.maxPauses
        /\ paused' = ~paused /\ pauses' = pauses + 1
        /\ UNCHANGED <<seek_req, seeks, mpc>>
     \/ /\ mpc' = "close"
        /\ UNCHANGED <<seek_req, paused, boundVars>>
  /\ UNCHANGED <<setup, queueVars, pictVars, abort_request, refresh, video_st, filterVars,
                 events, demuxVars, videoVars, mnext, shown, rpc>>

MEvent ==
  /\ mpc = "loop" /\ events # <<>>
  /\ mpc' = CASE Head(events) = "refresh" -> "ref"
              [] Head(events) = "alloc" -> "lockfilter"
              [] Head(events) = "quit" -> "close"
  /\ events' = Tail(events)
  /\ UNCHANGED <<setup, queueVars, pictVars, flagVars, filterVars, demuxVars, videoVars,
                 mnext, shown, rpc, boundVars>>

(* video_refresh_timer(): nothing to show, or not yet, or a picture is due. *)
MRest == UNCHANGED <<setup, queueVars, flagVars, filterVars, events, demuxVars, rpc,
                     boundVars>>

HasPicture == ((mpc = "ref" /\ video_st) \/ mpc = "retry") /\ size > 0

MNotDue ==
  /\ mpc \in {"ref", "retry"}
  /\ HasPicture => pictq[rindex].target > 0
  /\ mpc' = "refdone"
  /\ UNCHANGED <<pictVars, videoVars, mnext, shown>> /\ MRest

MDue ==
  /\ HasPicture
  /\ mpc' = "due"
  /\ UNCHANGED <<pictVars, videoVars, mnext, shown>> /\ MRest

(* With a second picture its target time is read, and then the one of the  *)
(* first again, for the assert().                                          *)
MNext ==
  /\ mpc = "due"
  /\ IF size > 1 THEN mnext' = pictq[Succ(rindex)].target /\ mpc' = "assert"
                 ELSE mpc' = "drop" /\ UNCHANGED mnext
  /\ UNCHANGED <<pictVars, videoVars, shown>> /\ MRest

(* The assertion TargetsOrdered states; a build with NDEBUG goes on. *)
MAssert ==
  /\ mpc = "assert"
  /\ mnext' = 0 /\ mpc' = "drop"
  /\ UNCHANGED <<pictVars, videoVars, shown>> /\ MRest

(* -framedrop: a picture that is too late is dropped. *)
MDrop ==
  /\ mpc = "drop" /\ setup.framedrop
  /\ rindex' = Succ(rindex)
  /\ mpc' = "dropped"
  /\ UNCHANGED <<pictq, size, windex, videoVars, mnext, shown>> /\ MRest

(* video_display() shows the picture at rindex as long as there is a stream. *)
MDisplay ==
  /\ mpc = "drop" /\ video_st
  /\ shown' = pictq[rindex].pic
  /\ mpc' = "showing"
  /\ UNCHANGED <<pictVars, videoVars, mnext>> /\ MRest

(* rindex moves on without pictq_mutex, size with it. *)
MAdvance ==
  /\ mpc = "showing" \/ (mpc = "drop" /\ ~video_st)
  /\ rindex' = Succ(rindex)
  /\ mpc' = "dec"
  /\ UNCHANGED <<pictq, size, windex, videoVars, mnext, shown>> /\ MRest

MDec ==
  /\ mpc \in {"dec", "dropped"} /\ PictLockFree
  /\ size' = size - 1
  /\ Signal
  /\ mpc' = IF mpc = "dec" THEN "refdone" ELSE "retry"
  /\ UNCHANGED <<pictq, rindex, windex, vpc, vi, vpic, decoder, flushed, mnext, shown>>
  /\ MRest

MRefDone ==
  /\ mpc = "refdone"
  /\ refresh' = FALSE
  /\ mpc' = "loop"
  /\ UNCHANGED <<setup, queueVars, pictVars, abort_request, seek_req, paused, video_st,
                 filterVars, events, demuxVars, videoVars, mnext, shown, rpc, boundVars>>

(* FF_ALLOC_EVENT: with video_filter_mutex, while V has its filter.        *)
(* alloc_picture() calls do_exit() when it fails, the mutex still held.    *)
MLockFilter ==
  /\ mpc = "lockfilter" /\ filter_mutex = "free"
  /\ IF out_video_filter THEN filter_mutex' = "M" /\ mpc' = "alloc"
                         ELSE mpc' = "loop" /\ UNCHANGED filter_mutex
  /\ UNCHANGED <<setup, queueVars, pictVars, flagVars, out_video_filter, events, demuxVars,
                 videoVars, mnext, shown, rpc, boundVars>>

MAlloc ==
  /\ mpc = "alloc"
  /\ \/ pictq' = [pictq EXCEPT ![windex].bmp = TRUE] /\ mpc' = "allocated"
     \/ setup.allocFails /\ mpc' = "close" /\ UNCHANGED pictq
  /\ UNCHANGED <<size, rindex, windex, videoVars, mnext, shown>> /\ MRest

MAllocated ==
  /\ mpc = "allocated" /\ PictLockFree
  /\ pictq' = [pictq EXCEPT ![windex].allocated = TRUE]
  /\ Signal
  /\ filter_mutex' = "free"
  /\ mpc' = "loop"
  /\ UNCHANGED <<setup, queueVars, size, rindex, windex, flagVars, out_video_filter, events,
                 demuxVars, vpc, vi, vpic, decoder, flushed, mnext, shown, rpc, boundVars>>

(* do_exit(): player_close() joins D and R. *)
MClose ==
  /\ mpc = "close"
  /\ abort_request' = TRUE
  /\ mpc' = "join"
  /\ UNCHANGED <<setup, queueVars, pictVars, seek_req, paused, refresh, video_st, filterVars,
                 events, demuxVars, videoVars, mnext, shown, rpc, boundVars>>

MJoin ==
  /\ mpc = "join" /\ dpc = "exit" /\ rpc = "exit"
  /\ mpc' = "exit"
  /\ UNCHANGED <<pictVars, videoVars, mnext, shown>> /\ MRest

Main == MEvent \/ MNotDue \/ MDue \/ MNext \/ MAssert \/ MDrop \/ MDisplay \/ MAdvance
          \/ MDec \/ MRefDone \/ MLockFilter \/ MAlloc \/ MAllocated \/ MClose \/ MJoin

Refresh ==
  /\ rpc = "top"
  /\ \/ /\ abort_request
        /\ rpc' = "exit" /\ UNCHANGED <<refresh, events>>
     \/ /\ ~abort_request /\ ~refresh
        /\ refresh' = TRUE /\ events' = Append(events, "refresh") /\ UNCHANGED rpc
  /\ UNCHANGED <<setup, queueVars, pictVars, abort_request, seek_req, paused, video_st,
                 filterVars, demuxVars, videoVars, mainVars, boundVars>>

Next == Demux \/ Video \/ User \/ Main \/ Refresh

Spec == Init /\ [][Next]_vars

(* Every thread runs, and the time of a picture comes. *)
FairSpec ==
  /\ Spec
  /\ WF_vars(Demux) /\ WF_vars(Video) /\ WF_vars(Main) /\ WF_vars(Refresh)
  /\ SF_vars(MDue)

---------------------------------------------------------------------------
(***************************************************************************)
(* Properties.                                                             *)
(***************************************************************************)

(* The overlay that M displays, at rindex, is not the one that V copies a  *)
(* picture to, at windex, although both indices move outside pictq_mutex   *)
(* (avplay.c:1137-1142 and 1313-1340), and M allocates no overlay that V   *)
(* is using: V waits for it (avplay.c:1301-1306).                          *)
NoTearing ==
  /\ vpc = "copy" /\ mpc = "showing" => rindex # windex
  /\ mpc \in {"alloc", "allocated"} => vpc \in {"alloc", "end", "exit"}

Before(p, q) == p.e < q.e \/ (p.e = q.e /\ p.n < q.n)

(* Pictures are shown in the order of the stream: never an earlier one     *)
(* again, without -framedrop none left out between two seeks, and none     *)
(* from before a seek once V has drained the picture queue for the flush   *)
(* packet (avplay.c:1392-1394).                                            *)
ShowOrder ==
  [][shown' # shown =>
       /\ Before(shown, shown')
       /\ shown'.e >= flushed
       /\ ~setup.framedrop /\ shown'.e = shown.e => shown'.n = shown.n + 1
       /\ ~setup.framedrop /\ shown'.e # shown.e => shown'.n = 0]_vars

(* Closing the player ends every thread, wherever it waits: V in a         *)
(* condition wait, in packet_queue_get() or in its pause loop.  The one    *)
(* exception is a close from alloc_picture() that failed, which still      *)
(* holds the video_filter_mutex that V takes at its end (avplay.c:1622).   *)
QuitTerminates == mpc = "close" /\ filter_mutex = "free" ~> mpc = "exit"

(* With -noautoexit and a file that can be read, the last picture is       *)
(* shown after whatever seeks there were, unless the user quits or leaves  *)
(* the player paused.                                                      *)
PlayedOut ==
  setup.noautoexit /\ ~setup.ioError /\ ~setup.framedrop
    => <>[](mpc \in {"close", "join", "exit"} \/ paused
              \/ (shown.e = epoch /\ shown.n = Frames - 1))

(* assert(nextvp->target_clock >= vp->target_clock), avplay.c:1072. *)
TargetsOrdered == mpc = "assert" => mnext >= pictq[rindex].target
=============================================================================
