# A TLA+ verification project for libav

This directory holds TLA+ models of the parts of libav whose correctness rests
on control rather than on data: its thread pools, the state machines behind
its decoding and encoding API, its reference-counted buffers, the reception of
RTP, the interleaving of a muxer and the threads of the player. Each module
is written from the C source and names the functions it models; TLC checks the
properties on small instances, and TLAPS proves the safety properties of all
modules for every value of the constants: any number of threads, jobs, packets,
filters, streams or references, and numbers that wrap at any modulus.

Paths below are relative to the repository root.

## 1. Inventory

libav is a set of C libraries (`libavutil`, `libavcodec`, `libavformat`,
`libavfilter`, `libavdevice`, `libavresample`, `libswscale`) and three programs
(`avconv`, `avplay`, `avprobe`). Almost all of its 780 000 lines are codecs, file
formats, tables and assembly: bitstream syntax and signal processing, which a
regression test (`tests/fate`) covers well and where a model would repeat the
code without a state space to explore. What is hard is the machinery that all of
them share, a few thousand lines, and that is what the modules cover.

| component | source | state | operations | what is hard | correctness |
|---|---|---|---|---|---|
| slice threading | `libavcodec/pthread_slice.c` | `SliceThreadContext`: job counters, callback, result array, two condition variables; each worker's `our_job`, `self_id`, `last_execute` | `ff_slice_thread_init/free`, `thread_execute`, `thread_execute2`, `worker` | jobs come from two sources; callbacks run and write results outside the lock; late and spurious wake-ups; failing `pthread_create` | each job once, with the right callback, results complete when the call returns, the call does return |
| frame threading | `libavcodec/pthread_frame.c` | ring of `PerThreadContext` (state, packet, frame, result), one `AVCodecContext` per thread, three shared mutexes, frame progress | `ff_thread_decode_frame`, `submit_packet`, `frame_worker_thread`, `ff_thread_get_buffer`, `ff_thread_finish_setup`, progress, flush, free | callbacks made on behalf of a worker by the user's thread; context copied from thread to thread; hwaccel locks handed over; waits in three directions | frames in order, once each, none lost at the end; context of the packet before; no deadlock |
| decoding API | `libavcodec/decode.c` | `AVCodecInternal`: `buffer_frame`, `draining`, `draining_done`, `in_pkt`, `compat_decode_*` | `avcodec_send_packet`, `avcodec_receive_frame`, `avcodec_flush_buffers`, `compat_decode` | several one-place buffers in a row; any step may fail; flush and drain at any time | the contract of `avcodec.h` on EAGAIN, EOF and draining; nothing lost or reordered |
| bitstream filters | `libavcodec/bsf.c`, `null_bsf.c`, `vp9_superframe_split_bsf.c` | `buffer_pkt`, `eof`, the superframe being split | `av_bsf_send_packet`, `av_bsf_receive_packet`, `av_bsf_flush` | end of stream overtaking data | a chain of filters is a queue |
| encoding API | `libavcodec/encode.c` | `buffer_pkt`, `buffer_pkt_valid`, `draining`, `last_audio_frame` | `avcodec_send_frame`, `avcodec_receive_packet`, `avcodec_encode_audio2/video2` | one buffered packet; entering draining mode with a full buffer | the same contract |
| buffers and pools | `libavutil/buffer.c` | `AVBuffer` refcount and flags, `AVBufferPool` list and refcount | `av_buffer_alloc/ref/unref/make_writable/realloc`, `av_buffer_pool_get/uninit` | no locks around refcounts; release into a pool that is being closed | no use after free, no double free, no leak, copy on write |
| thread type selection | `libavcodec/pthread.c` | - | `validate_thread_parameters` | - | agrees with doc/multithreading.txt |
| filter slice threading | `libavfilter/pthread.c` | `ThreadContext` | `thread_execute`, `worker` | as for slice threading | the same promise |
| filter graph | `libavfilter/avfilter.c`, `buffersink.c`, `buffersrc.c`, `vf_fps.c`, ... | per-link flags | request and push of frames | recursion, EOF | every request ends in a frame or EOF |
| muxer interleaving | `libavformat/mux.c` | packet list with pointers to its end and to each stream's last packet; `cur_dts`, `pts_buffer`, the offset for negative timestamps | `av_interleaved_write_frame`, `av_write_frame`, `av_write_trailer` | streams that end or stall; time bases that differ; failing writes | packets by DTS, held back no longer than allowed, all written, streams in sync |
| demuxing | `libavformat/utils.c` | raw and parsed packet lists | `av_read_frame`, `avformat_find_stream_info` | probing | heuristics; packet buffers are queues |
| buffered I/O | `libavformat/aviobuf.c` | buffer pointers, position, flags | read, write, seek, flush | short reads, seeks into the buffer | the file seen through the buffer is the file |
| RTP reception | `libavformat/rtpdec.c`, `rtsp.c`, `rtspdec.c` | reordering queue, 16-bit sequence numbers and their statistics, unwrapped timestamps, `prev_ret`, `cur_transport_priv` | `ff_rtp_parse_packet`, `ff_rtsp_fetch_packet`, RTCP, `rtsp_read_play` | loss, duplication, reordering, wrap-around, restarts, timeouts | packets in order, bounded delay, exact statistics and pts |
| parsers | `libavcodec/parser.c` | `ParseContext` | `ff_combine_frame` | data returned late, overread | concatenation of frames is the input |
| fifos | `libavutil/fifo.c`, `libavutil/audio_fifo.c` | ring pointers | read, write, grow | 32-bit indices | a queue |
| picture buffers | `libavcodec/h264_picture.c`, `hevc_refs.c` | reference and output flags | bumping, output | - | output order |
| avplay | `avtools/avplay.c` | packet queues, picture queue with indices outside its mutex, flags shared without locks | `decode_thread`, `video_thread`, `event_loop`, `refresh_thread`; seek, pause, quit | one condition variable for three waits; unlocked reads; joins across threads | no deadlock, no torn or stale picture, played to the end |
| avconv | `avtools/avconv.c` | input threads and their queue | - | - | - |

How they interact: an application calls the decoding API; it runs its packets
through the filter chain and then calls `codec->decode()`, or, when frame
threading is on, `ff_thread_decode_frame()`, which runs `codec->decode()` in its
ring of threads. A codec with slice threading calls `avctx->execute()` from
inside `decode()`. All data that passes between these parts is held by
`AVBufferRef`s, which is why their refcounts are used from several threads at
once. The encoding API is the mirror image without the filters. At the other ends
a demuxer, for example the RTSP client over `rtpdec.c`, delivers packets and a
muxer interleaves them; `avplay` runs demuxer, decoder and display in threads of
their own with queues in between.

The remaining parts (codecs, formats and protocols, scaling, resampling,
capture devices) are data processing or operating system I/O and are not
modelled; `PROJECT.json` lists them with reasons.

The hazards, each with the line where it bites and the properties that would
catch it, are in `PROJECT.json` under `hazards`.

## 2. Modules

| module | models | composed with |
|---|---|---|
| `ParallelFor` | what `execute()` and `execute2()` promise (the default versions in `libavcodec/utils.c` are the sequential case) | - |
| `SliceThreads` | `libavcodec/pthread_slice.c` | implements `ParallelFor` |
| `DelayLine` | what `ff_thread_decode_frame()` and `ff_thread_flush()` promise (`doc/multithreading.txt`) | - |
| `FrameThreads` | `libavcodec/pthread_frame.c` | an external codec process, the user's thread; implements `DelayLine` |
| `DecodeApi` | `libavcodec/decode.c` over `bsf.c` and two filters | an external codec, the user |
| `EncodeApi` | `libavcodec/encode.c` | an external codec, the user |
| `Buffer` | `libavutil/buffer.c` | - |
| `RtpReceiver` | `libavformat/rtpdec.c` and the loop of `rtsp.c` around it | an external network, sender and depacketizer |
| `Player` | the video half of `avtools/avplay.c` | an external decoder, the user |
| `Mux` | `libavformat/mux.c` | an external muxer, the user |
| `BufferProofs`, `SliceThreadsProofs`, `FrameThreadsProofs`, `DecodeApiProofs`, `EncodeApiProofs`, `PlayerProofs`, `MuxProofs`, `RtpReceiverProofs` | the inductive invariant of the module and the theorems that follow | extend the module they are about |
| `MC*` | instances for TLC | extend the module they instantiate |

Operators with a suffix, such as `LastTicket_Early` next to `LastTicket`, are
plausible mistakes in the code they stand beside. No action uses them; put in
place of the original, each must break the property named in `PROJECT.json`
under `mutants`. They show that the properties can fail.

### SliceThreads

The user's thread (`mpc`) and the workers (`wpc`) share `SliceThreadContext`.
All of it except the callback and `rets` is touched only under
`current_job_lock`, so an action is a critical section: from taking the lock to
the next unlock or condition wait. The callback is fetched (`JobCall`) and its
result stored (`JobReturn`) outside the lock, and `func2` is stored outside it
(`SetFunc2`), so these are steps of their own. Waiting on a condition variable is
a location (`wait`, `parked`); a signal or broadcast moves the waiter on, and it
may wake spuriously at any time. Worker creation may fail after any number of
workers (`CreateFails`), which cuts `thread_count` and frees the pool.

A job is a number, its result `<<callback, execute call, job>>`: enough to tell
a result of this call from one of another call or job. Left out: the
pthread-less fallback and the choice of the number of threads, which come before
the pool exists.

**Refinement.** `ParallelFor` says what a caller relies on: a call with `n` jobs;
each job begins once and ends, with the callback of the call, in any order and
overlapping; the call returns when all have ended, with their results stored. It
has no workers, tickets or locks. `KeepsPromise` is that specification with the
state of the pool substituted: a job is active while a worker is between
`JobCall` and `JobReturn`, the callback is what `func` and `func2` say during a
call, the phase is that of the user's thread. Waking, parking, drawing tickets
and creating workers are stuttering steps.

### FrameThreads

Threads form the ring `0..ThreadCount-1`. The user's thread walks
`ff_thread_decode_frame()`: submit (wait for the previous thread's setup, copy
its context, hand over the packet, serve `get_buffer` calls until setup is
finished), then return nothing while the ring fills, then collect from
`next_finished`. The worker takes a packet, takes the hwaccel lock if it has a
hwaccel, decodes, and reports. `p->mutex` is implied by locations;
`buffer_mutex`, `hwaccel_mutex` and `async_mutex` are explicit because they are
held across actions and handed from thread to thread.

The codec is external and follows `doc/multithreading.txt`: setup, at most one
`get_buffer`, `ff_thread_finish_setup`, awaiting its reference's progress and
reporting its own; it may fail at each of them and may return no frame. What is
handed from context to context is reduced to the last packet whose setup it
reflects, whether a hwaccel was chosen, and the reference frame with its owner.

`DelayLine` is what the caller may rely on: a call puts at most one packet in and
takes at most one frame out. With a packet that is the frame of exactly the packet
`thread_count - 1` before, or none (the ring is filling, or that packet gave no frame); without
one it is the oldest frame, or none because nothing is left. Between calls only the
last `thread_count - 1` packets are inside, and a flush drops finished frames, never
one that is being decoded. The refinement mapping reads the packets and frames off
the threads (`PacketsInside`, `FramesInside`) and the phase of the call off the location
of the user's thread (`CallPhase`).

Not modelled: the error path of `ff_frame_thread_init`, where allocation or a
thread's codec initialisation fails, and a failing `av_packet_ref`.

### DecodeApi

A call is split into steps (`pc`, `call`), though only one thread is in the
library: the steps are the places at which a call can fail or loop. Data are
units numbered as sent; a packet is a sequence of units, so "consumed in part",
"split by a filter" and "lost" can be told apart. `BsfSendRet`, `BsfGetRet` and
`Filtered` are `bsf.c` and the two filters; `PollEmpty`, `PollEof`, `PollPacket`
and `PollFails` are `bsfs_poll()`; `DecodeCall`, `DecodeEof` and `DecodeFails`
are `decode_simple_internal()`; `CompatSent`, `CompatReceived` and
`CompatFinish` are `compat_decode()`. `h` is history that no guard reads, except
that it numbers the units and bounds the run. `setup` says which decoder and
which kind of user it is (filters, video or audio, delay, old or new API, the
recommended loop or any order of calls, whether the user flushes); it is chosen
in the initial state and never changes, so that one run covers several.
`OutOfMemory` says whether allocations may fail; it is off in the runs that show
a divergence, so that those do not depend on it.

Abstracted: timestamps, side data, cropping and discarding of samples (they may
fail, which is kept), and the parsing of the superframe index (it may reject a
packet, which is kept). A codec with `AV_CODEC_CAP_DELAY` keeps at most
`MaxHeld` frames back. Subtitles, format negotiation and codecs with their own
`receive_frame` are not modelled.

### EncodeApi

A call is one action, because nothing runs between its steps and its failures
are choices of that action. `EncodeVideo2` and `EncodeAudio2` give the outcomes
of the old functions, including the frame size check and the padding of the last
audio frame; `DoEncode` the packet buffer; the API calls the draining state.
`codec` (video or audio, with or without delay, the kind of frame size) is chosen
in the initial state and never changes.

### Buffer

`Slots` are the application's `AVBufferRef *` variables, each used by the thread
that owns it, as the API demands; `newbuf` inside a function is the reference
named by the thread itself. A refcount changes in one atomic step. Everything
between two accesses to shared memory is one action: so `av_buffer_is_writable()`
and the write that relies on it are two, the decrement to zero and the free
callback are two, and `av_buffer_pool_get()`, which unlocks the pool before it
counts its buffer, is two (`got` is the place between). Data is one bit per
buffer, and `seen` remembers for each reference what its holder expects to read.
Allocations may fail. In the build modelled, atomics and mutexes are available.

### RtpReceiver

A packet is its place `n` in the sender's stream and the epoch `e` of the
numbering it was sent in; the code sees of it a sequence number and a timestamp,
which wrap at `SEQ_MOD` and `TS_MOD`. All the arithmetic of the code on them
(`int16_t` and `int32_t` differences, the unsigned `udelta`, the cycle count, 0 as
"none yet", -1 as "no timestamp") is kept. `GetsPts` is the early returns of
`finalize_packet()`: it leaves alone a packet that has a pts, and one whose timestamp
is `RTP_NOTS_VALUE`, which gets none and changes nothing; the second and later frames
of a packet come with that value. The network (`Delivers`) loses, reorders and duplicates
within the bounds `Gap`, `Late` and `dups`; the sender may begin a new numbering
without telling (`Restart`) or after a PLAY (`Play`, which is `rtsp_read_play()`).

The code is sequential. A call is one step per packet given to the depacketizer,
because its answer (error, a frame, a frame with more to follow) is a choice each
time: `Arrive`, `Timeout`, `SenderReport` and `Bye` are a `ff_rtp_parse_packet()`
up to its loop, `Loop` one round of it, `Finish` the rest and what
`ff_rtsp_fetch_packet()` makes of the result. `stamped` is whether the packet the
user passed in already has a pts: an error after `finalize_packet()` leaves it
there, and `goto redo` takes it along.

`setup` says which stream it is (queue size, first sequence numbers, packets of
another payload type, how many duplicates and restarts). `Account` and `counted`
are history: the first and newest packet the statistics speak of; `timed` the
packets `base_timestamp` and `timestamp` were taken from. Wrapped numbers tell an
old packet from a new one only within half their space (`Near`). The network is not
held to that: `Gap` may be larger, and a burst of loss may put the receiver as far
behind. What is remembered instead is that it has happened (`astray` for
sequence numbers, `disordered` for timestamps, an unknown `counted` for the
statistics), and the properties are about streams in which it has not.

### Player

The demuxing thread D, the decoding thread V, the main thread M and the refresh
thread R. A packet queue is a monitor, so each of its operations is one step. The
picture queue is not: `size` changes with `pictq_mutex`, but `rindex`, `windex`,
the pictures and the target times are used without it, so each access is a step
of its own; that V resets the target times one by one with the mutex is `VZero`.
`pictq_cond` has one waiter, V, which sleeps (`vsleep`) until somebody signals.
Time is not modelled: a picture may be due or not (`MDue`, `MNotDue`), except that
one whose target time was reset is due at once, and fairness says that its time
comes. Pausing stops the video thread and the display; what the demuxing thread does
about it (`av_read_pause()`, `av_read_play()` and the wait for RTSP,
`avplay.c:2421-2435`) is left out, so it goes on reading as it does for a file.
`allocFails` makes `alloc_picture()` call `do_exit()` with
`video_filter_mutex` held, as the code does.

### Mux

The queue is a sequence; the pointers to its end and to each stream's last packet
are names of packets, so that one that dangles can be seen. A call is one step per
packet written, because each write may fail. Timestamps are integers in ticks of
`setup.tb[s]` units, of which a microsecond has `Microsecond`; comparing uses the
exact products, as `av_compare_ts()` does with 64 bits, and `Rescale` is
`av_rescale_q()` with its rounding. `max_interleave_delta` is compared with a span whose
ends were each rounded to microseconds (`Micros`, `Delta`), so a queue may be held that
spans up to a microsecond more. `compute_pkt_fields2()` is
`Dts`, `PtsBuffer` and `NotIncreasing`: a user who gives only pts, with a delay of
one, gets a guessed dts. The user's timestamps do not go back within a stream, and
one who calls `av_write_frame()` interleaves the streams, as the header demands:
a packet is not earlier than the clock of any other stream.

## 3. Runs

| run | instance | states | shows |
|---|---|---|---|
| `SliceThreads` | 3 workers, up to 4 jobs, 2 calls | 594 000 | the pool implements `ParallelFor`; thread numbers of running jobs are distinct and below `thread_count`; `execute()`, init and free return: no wake-up is lost |
| `FrameThreads` | 3 packets and four kinds of decoder: 2 threads, a codec with `update_thread_context` and delay, with `get_buffer2` for the user's thread only, or with a flush; 2 threads, a codec that lets the next packet start at once; 3 threads, a codec without delay | 3 450 000 | the ring implements `DelayLine`; frames come out in order, once, none lost when the drain ends; the user's context is the one of the returned frame |
| `FrameThreadsHwaccel` | 2 threads, 3 packets; a hwaccel that is not async safe, with `get_buffer2` called by the workers or by the user's thread, and progress waits | 713 000 | a thread starts from the context its predecessor's setup left; the hwaccel is used by one thread at a time, and only while the user is in the library; every call returns |
| `DecodeApi` | three setups: the recommended loop over audio consumed in parts behind two filters; any order of calls over video behind a superframe splitter; `avcodec_decode_audio4()` | 940 000 | the codec sees each unit once and in order, frames come out in order; a drain is complete for the recommended loop; there is no EAGAIN after a flush packet and one drain of the codec at most; a decoder that asked for input, or was flushed, accepts it; library and user of the old API agree on the rest of a packet, as long as no call failed and nothing was flushed; every call returns |
| `EncodeApi` | all 12 kinds of encoder, 4 frames, 2 held back | 35 000 | a frame is at every time a packet, in the buffer, in the codec or lost with an error, and packets are in order; EOF is complete; EAGAIN alternates; one padded frame |
| `Buffer` | 2 threads, 3 slots, 3 buffers | 106 000 | no use after free or double free, copy on write, writers alone, the pool outlives its users, nothing leaks; and the inductive invariant of the proofs |
| `RtpReceiver` | 7 packets, numbers and timestamps modulo 12 that wrap among them; queue of 3 with a duplicate, with packets of another type, with a restart or PLAY; no queue | 727 000 | a waiting queue is sorted, bounded and lacks the next packet; NACKs name exactly what is missing; the expected count and every pts that is set are exact over wraps, losses and restarts; packets are parsed in order; no queued packet waits for ever |
| `Player` | 3 packets, a picture queue of 2; played twice; seek and pause with a delaying decoder; frame dropping and seek; read errors and pause; failing allocation | 585 000 | the slot shown is not the one written; pictures are shown in order, none left out, none from before a flush; quitting ends every thread; the stream is played to its end |
| `Mux` | 3 streams, 3 packets each, time bases of 2 and 3 units, microseconds of 4; five kinds of file: plain, with limited delay and guessed dts, non-strict with flushes, direct, with a failure | 3 950 000 | list and pointers agree and it is sorted; packets are written in order of time, each stream complete; after a call the queue lacks a stream and is less than a microsecond over `max_interleave_delta`, after the trailer it is empty; shifted timestamps are not negative and keep the streams in sync |

Every run ends within three minutes on two cores.

Why the bounds are enough. Slice threading: three workers and four jobs give
workers with and without a job of their own, jobs drawn from the counter, and
jobs that outlast the others; two calls let a worker wake late into the second.
Frame threading: two threads already have every pair interaction; three packets
make the ring wrap, and the third thread adds the case of a thread skipped while
another is ahead. Decoding: two filters give a filter with a predecessor and one
with a successor; three units fill `buffer_frame`, a split superframe and
`buffer_pkt` at the same time, and a packet of two units is the smallest that can
be consumed or split in part. Encoding: two frames held back and one in
`buffer_pkt` is one more than what a send and a receive can move. Buffers: the
proofs do not depend on the bound. RTP: a queue of three is the smallest with an
order among its packets; the stream starts at 10 of 12, so that the numbers wrap
within the queue, and packets may run `Gap` = 6 ahead, more than `MaxDropout` and
half of the number space, so that the receiver meets packets it cannot tell from old
ones; the timestamps start at 7 of 12, so that packet 4 has the one taken for no
timestamp and packet 5 that taken for none yet; the thresholds are scaled with the modulus and keep the four cases of
`rtp_valid_packet_in_sequence()` apart. Player: a queue of two is the size in the
code, three pictures overfill it, one seek meets it in every state. Muxing: three
streams are the fewest that leave two waiting while a third stalls; three packets
of each let a stream's last packet be in the middle of the list; time bases of 2
and 3 units and microseconds of 4 make rounding necessary in both places where the
code rounds, and queues do exceed the limit by as much as the property allows.

Symmetry is used for the buffers of `Buffer`, which no definition tells apart; the
other runs check temporal properties or have identities that matter (ring order).
Deadlock is checked in all runs but those of `Mux`, which stops after the trailer,
and `Player`, which ends (that it does end is `QuitTerminates`).

**Fairness.** Weak fairness of every thread of the library: the scheduler runs a
thread that can run, and a mutex that is free is given to somebody who waits.
The user's thread is fair only inside a call; nothing assumes that another call
is made. Codecs are assumed to return from `decode()`, and in `DecodeApi`
nothing more: the loop of `decode_simple_receive_frame()` ends because each
round uses up input or sets `draining_done`. `RtpReceiver` assumes that the program
keeps reading and that time passes (`Timeout`), not that packets arrive. `Player`
assumes weak fairness of its four threads, not of the user, and strong fairness of
`MDue`: the main thread looks at a picture again and again, and one time its
target time has passed.

## 4. Where code and documentation disagree

Each of these is a run that TLC must find violated; none depends on a failing
allocation.

| run | what it shows |
|---|---|
| `DecodeEarlyFlush` | send, send, flush: the second packet waits in the filter, the flush sets `eof` in front of it and the packet is never decoded, although `avcodec.h` says buffered frames are returned after a flush packet |
| `RtpFramesComplete` | `ff_rtp_parse_packet()` stores `prev_ret` before its loop over the queue; when a queued packet holds several frames, the call for the next one (with NULL, as its comment says) parses another packet and drops the rest |
| `PlayerAssert` | after a seek the video thread sets the target times to 0 one after the other, with `pictq_mutex`; the main thread compares two of them without it, and its `assert()` at `avplay.c:1072` can fail |

A user who follows the recommended loop (receive until EAGAIN, then send) does
not meet the first: `LoopDrainComplete` is the same property for that loop.

Seen in the models or while reading, and without a run of their own:

- Decoding. After send, send, receive a third send may answer EAGAIN
  (`bsf.c:195`), and the receive after it EAGAIN, too, if the codec keeps the
  second packet's frame back; `avcodec.h:141` says it will succeed. Two errors
  inside a superframe leave a packet in the filter, and the old API then returns
  AVERROR_BUG at the place that "should not ever happen" (`decode.c:555`).
  `avcodec_flush_buffers()` keeps `compat_decode_partial_size`: the first packet
  after a flush in the middle of a packet is refused with EINVAL. A second flush
  packet returns 0, not the AVERROR_EOF of `avcodec.h`, as long as a frame is
  buffered, because `draining` is set only when the decoder polls its filters.
  `compat_decode_consumed` (`decode.c:361`) grows with every packet of a
  send/receive session and overflows after 2 GB.
- Encoding. `avcodec_send_frame(NULL)` that answers EAGAIN has already entered
  draining mode (`encode.c:305`): sending it again, as `avcodec.h:4098` demands,
  returns AVERROR_EOF.
- Frame threading. `ff_thread_decode_frame()` returns the `result` of the last
  thread it visited without resetting it, so a drain may return an old error
  again; the result of `av_packet_ref()` at `pthread_frame.c:381` is not looked at.
- RTP. A duplicate of a queued packet is queued, too, and after the first is
  parsed it is taken for a gap until the queue is full or `max_delay` passes. A
  packet of another payload type does not advance `seq`, so those behind it wait as
  if it were lost. A timestamp of 0 is taken for none (`rtpdec.c:582`), so
  reordering around it can put the pts off by a whole wrap; a packet with the
  timestamp 2^32 - 1 gets no pts (`rtpdec.c:560`); a sequence number of 0
  lets an old packet in (`rtpdec.c:792`). A sender that restarts with lower numbers
  is dropped for half the number space. PLAY leaves the statistics and
  `cur_transport_priv` as they were.
- Player. At the end of the file it exits when the packet queue is empty, with
  pictures still to be shown. After a read error a seek is never served.
  `alloc_picture()` that fails calls `do_exit()` with `video_filter_mutex` held,
  which the video thread takes at its end: the close waits for ever, although
  `avplay.c:2199` means to "deblock the video thread in all cases"
  (`QuitTerminates` excludes this case). The video thread is started before
  `pictq_mutex` exists, and cycling a stream destroys a queue that the demuxing
  thread may be using.
- Muxing. A `cur_dts` of 0 is taken for none, so after a packet with dts 0 one with
  dts 0 again is accepted in a format that forbids it, and so is one that goes
  back. A queue may span up to a microsecond more than `max_interleave_delta`, because
  both its ends are rounded before they are subtracted (`mux.c:552`). A failed allocation in `av_interleaved_write_frame()` leaks the packet's
  reference. Once a packet was forced out, a later one can be earlier than the
  offset was computed for and stay negative, which the code warns about; `InSync`
  and `Interleaved` are about what happens until then.

## 5. Proofs

Eight modules hold theorems. Each proves `Spec => []Inv` for an inductive
invariant `Inv` and derives from it the safety properties the runs check; TLC has
checked every `Inv` on the instances of section 3. Unless said otherwise a
proof has one lemma per action, one step per conjunct that the action can
disturb, and a lemma that combines them over `Next`. The theorems hold for every
value of the constants that the `ASSUME`s of the module allow, so no bound of a
run matters to them.

| module | assumptions | theorem | property |
|---|---|---|---|
| `BufferProofs` | finite sets of threads, slots and buffers, any owner of a slot | `BufferInvariant` | `BufferInv` |
| | | `BufferTypes` | `TypeOK`: in particular no refcount goes below 0 |
| | | `NoUseAfterFree` | `RefsValid` |
| | | `CopyOnWrite` | `ContentStable` |
| | | `WritersAlone` | `WriteExclusive` |
| | | `PoolOutlivesUsers` | `PoolSafe` |
| | | `NothingLeaks` | `NoLeak` |
| `SliceThreadsProofs` | at least 2 workers, at least 1 job | `PoolInvariant` | `PoolInv` |
| | | `ThreadNumbers` | `ThreadNrDistinct` |
| | | `PoolImplementsParallelFor` | `KeepsPromise`, the refinement |
| `FrameThreadsProofs` | 2 to `MaxThreads` threads; a codec that uses a hwaccel has `update_thread_context` | `FrameInvariant` | `FrameInv` |
| | | `FramesInOrder` | `OutputComplete` |
| | | `ContextHandedOn` | `ContextChain` |
| | | `UserSeesItsContext` | `UserContext` |
| | | `HwaccelAlone` | `HwaccelExclusion` |
| | | `DelayBounded` | `BoundedDelay`: at most `thread_count - 1` packets inside between calls |
| | | `RingIsDelayLine` | `KeepsDelayLine`, the refinement |
| `DecodeApiProofs` | a chain of at least one filter, each the null filter or the splitter | `DecodeInvariant` | `DecodeInv` |
| | | `DecodedInOrder` | `InOrder` |
| | | `LoopLosesNothing` | `LoopDrainComplete` |
| | | `DrainsOnce` | `DrainEndsOnce` |
| | | `EagainIsAPromise` | `ReadyAccepts` |
| | | `CompatAgreesWithUser` | `CompatInSync` |
| `EncodeApiProofs` | any set of codecs | `EncodeInvariant` | `EncodeInv` |
| | | `NoFrameLost` | `FramesAccounted` |
| | | `EofIsTheEnd` | `DrainComplete` |
| | | `NoMutualEagain` | `EagainAlternates` |
| | | `PadsOneFrame` | `OnePaddedFrame` |
| `PlayerProofs` | a picture queue of at least 2 | `PlayerInvariant` | `PlayerInv` |
| | | `OverlaysExclusive` | `NoTearing` |
| | | `ShownInOrder` | `ShowOrder`, an action property |
| `MuxProofs` | at least 1 stream; time bases and `Microsecond` positive; timestamps above `NOPTS`; steps of a stream not negative | `MuxInvariant` | `MuxInv` |
| | | `QueueIntact` | `ListIntact` |
| | | `HeldBriefly` | `BoundedHold` |
| | | `StreamsInSync` | `InSync` |
| | | `WrittenInOrder` | `Interleaved`, an action property |
| `RtpReceiverProofs` | even moduli; `MAX_DROPOUT`, `MAX_MISORDER` and the bits of a NACK at most half of `SEQ_MOD` (3000, 100 and 16 of 65536) | `RtpInvariant` | `RtpInv` |
| | | `WaitingQueueSorted` | `QueueWaits` |
| | | `NacksNameTheMissing` | `NackExact` |
| | | `ExpectedCountExact` | `ExpectedExact` |
| | | `PtsFollowsStream` | `PtsExact` |
| | | `ParsedInSequence` | `ParsedInOrder`, an action property |

### Buffer

Apart from `BufferInv` none of the properties is inductive. `TypeOK` is not, because
a decrement keeps a refcount natural only if the count is at least the number of
references; `RefsValid` is not, because the last unref must be the last reference.
The argument is therefore about counting: `CountsExact` says a refcount is the
cardinality of its set of holders, and `PoolExact` the same for the pool, whose
holders are the caller's pointer, the counted buffers that are out, and the
threads between putting a buffer back and uncounting it. Around them,
`NoOrphan` (a buffer without references is free, in the pool or being freed),
`FreeingExact` (what is being freed is out of reach) and `CallsExact` (a thread in
the middle of a call owns the pointer it works on and, where the code relies on
it, is the sole holder). The window in `av_buffer_pool_get()` after the unlock is
safe because the caller's own pointer holds the pool for as long as the call lasts
(`GotExact`): the application must not uninit a pool while it gets a buffer from
it, which is the one obligation of the API that the invariant needs.

The layout: lemmas on how a set of holders changes when one pointer changes
(`HoldersAdd`, `HoldersDrop`, `HoldersMove`, `SoleRef`); one lemma per action for
the part of the invariant that concerns buffers (`RefStep` ... `PoolFreeStep`) and
one per action that touches the pool for the rest (`PoolGetPool` ...
`PoolFreePool`; `PoolQuiet` for all others); `BufferInvStep` combines them.

### Slice threading

`thread_execute()` returns when a worker has drawn the last ticket, and
`worker()` compares a counter with `thread_count + job_count`: nothing in the code
says that all jobs have been run by then. `JobsInv` does: during a call
`current_job` is the number of workers plus the number of jobs that have
returned and whose ticket was handed back (`FinishedJobs`), because every
job that ends draws one ticket. The last ticket is therefore drawn when, and only when, every job is
finished (`LastTicketDone`). The rest of the invariant says who may call a job:
its own worker, if that has not noticed the call yet, or the one that drew it.

The refinement is proved step by step: `ThreadExecute` maps to `ParallelFor`'s
call, `JobCall` to a beginning, `JobReturn` to an end with its result stored,
the user's return to a return for which all jobs have ended; the other steps leave
the mapped state alone (`InternalSteps`, `PromiseStutters`).

### Frame threading

The four ideas of `FrameInv`:

- *The ring.* `Back(t)` is how many packets ago thread `t` had its turn. A thread
  with a packet or a frame has the packet submitted `Back(t)` packets ago, and none is
  further back than `next_finished` (`RingInv`). So frames leave in order, and
  the thread at `next_decoding` is empty whenever a packet is submitted to it
  (`NextFree`), which `submit_packet()` relies on without a test and which is
  the bound on the delay. `DelayInv` is about the filling of the ring, which ends
  one packet early, and about a drain that begins before the ring is full.
- *The context.* A thread is copied from only after its setup, and it is the thread
  submitted to last (`LatestInv`). A thread past its setup has seen its own packet,
  one before its setup the packet before (`ContextOK`). After a flush, thread 0 has
  the newest context, so that the chain goes on.
- *hwaccel_mutex.* A thread that works with a hwaccel holds it. There is one
  exception: a drain packet sent before any other. No hwaccel is known when its thread
  would lock, and `ff_thread_finish_setup()`, which locks late, is called only after
  `decode()` has returned. Such a thread is the only one with a packet (`Alone`), so
  the exclusion still holds.
- *async_mutex* is the user's while the user is outside the library (`AsyncInv`),
  so a thread that needs it waits.

`WorkerStep` reduces a step of a worker to what it does to its own thread, and
`StillStep` a step of the user's thread to what it does to its local variables and the
lock. The lemmas of most actions use one of the two; those where packets and frames
change hands (`SubmitPacketStep`, `CollectStep`, `FlushStep`) stand for themselves.

`RingIsDelayLine` is the refinement of `DelayLine`: a lemma for each action that moves the line, and
several for those that leave it alone. `FrameInv` gives most of it: packets are
told apart by their place on the ring (`PacketsDistinct`), the thread collected has the oldest
(`CollectOrder`), and the empty thread at `next_decoding` is what keeps the packets inside within
`thread_count - 1` of the newest. That a frame is *exactly* `thread_count - 1` packets late needs
`LatencyInv`, which is not part of it: once `delaying` has been cleared and until the user
drains, `next_finished` stays `thread_count - 1` packets behind the newest. It is true because the
first call that collects is the one after the pipe was found full, one packet
early, and because from then on every successful call moves both ends of the ring by one. A
failed call moves neither.

### Decoding

Two chains are in order. What the codec was given, `in_pkt` and the data of the
filters from the last to the first are one increasing sequence of units
(`UnitOrder`), because `bsfs_poll()` asks a filter only while every filter behind it
is empty; the frames the user has, the one on its way and those inside the codec
are another (`FrameOrder`). With the accounts of what was lost
(`UnitsAccounted`, `FramesAccounted`) these give `InOrder` and, where a drain has
emptied everything, `LoopDrainComplete`. That needs `LoopInv`: a filter that has seen
the end is empty and so are those before it, which is false for other users
(section 4, `DecodeEarlyFlush`) and true for the recommended loop, because EAGAIN is
answered only after every filter was passed. The proof of `CompatInSync` showed
that the property was false after a flush in the middle of a packet, where
`compat_decode_partial_size` is kept; it now says so.

### Encoding

The packets the user has, the buffered packet and the frames inside the codec are
one increasing sequence (`OrderInv`), of which each call moves an end. EAGAIN from
both functions in turn is excluded because a full packet buffer is what one of
them refuses and the other empties (`LastInv`).

### Player

`NoTearing` is about a queue whose size and indices change in separate steps of two
threads. The slots from `rindex` up to `windex` are always the `Unread` ones, where
a picture is unread from the moment the video thread moves `windex` to the moment the main
thread moves `rindex`, whatever `size` says in between; what either thread has read of
`size` is still true when it acts on it (`RoomInv`). `ShowOrder` sees the player as a
pipeline of stages (picture shown, queue, picture at hand, decoder, packet queue,
position in the file), each in order and each before the next (`StageOrder`), without
gaps unless frames are dropped (`GaplessInv`), and with nothing from before a flush
(`FlushInv`). `CloseInv` keeps closing and flushing apart.

### Muxing

`packet_buffer` is sorted and a stream's packets in it are exactly those accepted and not
yet taken, in their order (`QueueInv`), wherever `ff_interleave_add_packet()` puts a packet:
at the end, behind the stream's last one, or at the place found by its search. A time is
`Settled` when nothing earlier can still be written. As long as no packet was forced out, the
time of the last packet written is settled, because every stream had a packet in the queue
or the file is being closed; `OrderInv` says this of the output and of the offset against
negative timestamps, from which `Interleaved` and `InSync` follow with lemmas about
rescaling (`RescaleNear`: the rounding error is at most half a tick, `ShiftedNonnegative`).
`BoundedHold` needs more of rounding: it is monotone (`RescaleMono`), so the newest of
the streams' last packets is also the newest after rounding and `Delta` is the span
seen by the code (`DeltaIsSpan`), and a rounded span of at most `delta` comes from one of
less than `delta + 1` microseconds (`RescaledSpan`).

### RTP reception

The code compares numbers that wrap and the properties compare places in the stream, so
everything rests on one lemma: a distance of less than half the modulus survives the
wrap (`SignedExact`). `RtpInv` keeps each comparison within that reach:

- *The queue* (`OrderInv`). As long as the stream is not `astray`, every queued packet is
  newer than the one parsed last by less than half the number space (`Reach`), so two
  queued packets are as close to each other, `enqueue_packet()` finds the place between
  the older and the newer ones (`EnqueuedOrdered`), and taking the first
  leaves the others in reach of it (`OrderedTail`). That none is there twice needs
  what the network remembers (`Tracked`): a packet in the queue either arrived so long
  ago that it does not come again, or is known to have arrived. `ParsedInOrder` is
  about the same comparison with the last packet parsed; a `seq` of 0 is its exception
  because the code takes it for "none yet".
- *Waiting* (`CallInv`). Whoever waits lacks the next packet, because the loop ends only
  then. Between calls this is false, as a frame is returned with the next
  packet still in the queue; then `cur_transport_priv` is set, and the next fetch parses
  before it waits.
- *NACKs.* `find_missing_packets()` walks the queue once for all bits. `ScanReaches`
  says where the walk is after `i` bits: at the first packet that is not older than
  the `i`-th. As the queue is sorted and in reach, a bit is set exactly for a packet
  that is not there and has a newer one behind it.
- *Statistics* (`CountInv`). Each of the four cases of
  `rtp_valid_packet_in_sequence()` keeps `cycles + max_seq - base_seq` the number of packets
  from the first to the newest (`CountStep`). A wrap is counted when a packet
  newer by less than `MAX_DROPOUT` has a lower number, and a `bad_seq` hit starts anew.
- *Timestamps* (`TsInv`). `unwrapped_timestamp - base_timestamp` is the distance of the two
  packets, also through timestamps of 0, which the code takes for "none yet"
  (`UnwrapExact`): adding the timestamp itself is right as long as packets come in order,
  because then it is the distance from the packet whose timestamp was 0. A packet
  with the timestamp -1 leaves all of this as it was; `Stamp` says that a packet with a pts
  got it from the last packet timed, so that the frame's pts is the one `TsInv` speaks of.

The walk of `find_missing_packets()` is a recursive function over `0..NackBits`. The
library's induction theorems have an operator as a parameter and cannot be used here, but
sets can stand for predicates: `LeastNat` follows from the library's well-foundedness
of `<`, `SetInduction` from it, and from that the function exists and satisfies its
equation (`ScanExists`, `ScanUnfolds`).

### Only model-checked

- Liveness, which is out of the prover's reach: `ExecuteReturns` and
  `FreeTerminates` (slice threading), `CallReturns` (frame threading, decoding),
  `QueueDrains` (RTP), `QuitTerminates` and `PlayedOut` (player).
- The three properties of section 4, which the code does not have.

## 6. Not modelled

- Codecs, file formats, protocols, scaling, resampling, capture devices: data
  processing or operating system I/O, most of the repository's lines. The API
  modules treat a codec, a depacketizer or a muxer as an external process that may
  answer in every way its interface allows.
- `libavcodec/pthread.c` is one nested condition without state;
  `libavfilter/pthread.c` is the algorithm of `pthread_slice.c` once more.
- Frame threading: the error path of `ff_frame_thread_init()`, and a failing
  `pthread_create()` there (`thread_init` stays 0 and the thread is waited for
  without end).
- Decoding and encoding: subtitles, format negotiation, codecs with their own
  `receive_frame` or `send_frame`.
- RTP: malformed packets, SRTP, jitter and the sending of receiver reports, the
  mapping of timestamps between several streams, RDT and MPEG-TS, RTSP signalling.
- Player: the audio callback, subtitles, cycling of streams, stepping, resizing
  (overlays are allocated once), the clocks. Flags read without a lock are atomic.
- Muxing: headers, formats without timestamps or with an interleaver of their own,
  `ff_interleaved_peek()`, delays above one, 64-bit overflow of timestamps.
- Filter graph, buffered I/O, parsers, fifos, picture buffers, `avconv`: sequential
  code that could be modelled and is not yet; see the plan.

## 7. Plan

Done: the components above, proofs of the safety properties of all eight modules, and the
refinements of `ParallelFor` and `DelayLine`.
In the order of importance:

1. `DelayLine` behind `DecodeApi`, in place of its external codec.
2. The error path of `ff_frame_thread_init`, buffered I/O, the filter graph's
   request flow, the decoded picture buffers, `ff_combine_frame`.
