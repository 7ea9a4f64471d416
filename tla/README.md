# Media-Codec-Pipeline in TLA+

Models, model checks and proofs for Media-Codec-Pipeline: a program that takes an MP4 file or an
RTSP stream apart, decodes video and audio, encodes them again and writes an MP4 file. Paths below
are relative to `src/Media-Codec-Pipeline/`. Each module says in its header what it stands for;
`PROJECT.json` maps every definition to the lines it models and lists the runs, the mutants that
show each property can fail, the hazards and the theorems.

## 1. The system

    Test/main.cpp
      MiedaWrapper (Warpper/)  ----------- the owner of everything, the listener of everything
        MediaReader   | RtspClientProxy - RtspClient - H264Demuxer ...      input
        HardVideoDecoder | DVPPDecoder | NVIDIADecoder      AACDecoder      decode
        HardVideoEncoder | H264DVPPEncoder | NVHardVideoEncoder   AACEncoder    encode
        Muxer                                                               output

The components call each other through listener interfaces: whoever has something new calls the
wrapper, on its own thread, and the wrapper calls the next component, which puts the item on a list
and notifies a thread of its own. So there are two or more threads per component, a lock per list,
and a number of plain flags and pointers that several threads read and write without a lock. Every
loop ends on an `abort_` or `run_flag_`, and every wait has a time limit of 100 ms, because the
destructors notify nobody.

| Component | State it keeps | Operations | What makes it hard, what makes it correct |
|---|---|---|---|
| MP4 reader `Media/MediaReader/FileReader` | two packet lists, `file_finish_`, `video_finish_`, `audio_finish_`, listener, close call back | file thread, one pacing thread per stream, `Reset`, destructor | flags of three threads decide on the one call back that ends the program: it must come, once, after the last packet; nothing may be lost or overtaken |
| RTSP client `Media/MediaReader/RtspReader/rtsp_client.cpp` | dialogue state, command buffer, session, parser state, receive thread | `Connect`, `ReadPacketTcp`, destructor | TCP cuts answers and packets anywhere; the first thing after the dialogue is found again; only whole packets come out |
| RTSP proxy `rtsp_client_proxy.cpp` | the client, frame rate probe, `video_ready_`, listener | construction, reconnect thread, `RtspVideoData`, destructor | clients are deleted and made while threads use them; a dead one must be replaced; the first unit must be an SPS |
| RTP depacketisers `rtp/` | the unit in the making | `InputData` | fragments of one unit, whose start may be missing |
| FFmpeg decoder `HardCodec/Decoder/FF*Decoder.cpp` | packet list, frame list, codec | decode thread, scale thread, `InputVideoData`, destructor | every packet becomes a picture, nodes and frames are freed once, the flush at the end |
| FFmpeg encoder `HardCodec/Encoder/H264FF*Encoder.cpp` | picture list, frame list, conversion context, codec, clock sums | scale thread, encode thread, `AddVideoFrame`, destructor | lists that drop when they are long, frames freed on five paths, stamps summed from cut intervals, packets handed out while the destructor runs |
| AAC decoder `HardCodec/Decoder/AACDecoder.cpp` | packet list, frame list, resampler and its arguments, codec | decode thread, scale thread, `InputAACData`, destructor | `src_nb_samples_` is written by one thread for the frame received and read by the other for a frame received before; what the resampler keeps must not pile up |
| AAC encoder `HardCodec/Encoder/AACEncoder.cpp` | block list, frame list, resampler, codec and its profile | scale thread, encode thread, `AddPCMFrame`, destructor | made by the first block, from its length; every block must be as long as the codec wants it |
| DVPP decoder `HardCodec/Decoder/DVPPDecoder.cpp` | packet list, pool of picture buffers, packets in the hardware | send thread, get thread, destructor | two threads pass buffers through the hardware; an error loses one, and a thread that waits for the pool must still end |
| DVPP encoder `HardCodec/Encoder/H264DVPPEncoder.cpp` and `dvpp_enc/` | picture list, buffer list and pool, input frame, stream cache, channel number, looper | scale, encode and looper thread, `AddVideoFrame`, construction and destructor | two kinds of buffers used again and again; a start that fails half way; a looper that another thread stops |
| NVIDIA decoder `HardCodec/Decoder/NVIDIADecoder.cpp` and `Nvcodec_utils/NvDec` | packet list, parser, stock of frames, picture format | decode thread, the parser's call backs, destructor | the parser is behind, so a new size arrives while pictures of the old one wait; the stock is used again for every packet |
| NVIDIA encoder `HardCodec/Encoder/H264NVIDIAEncoder.cpp` and `Nvcodec_utils/NvEnc` | picture list, ring of surfaces and bitstreams, `m_iToSend`, `m_iGot`, output delay | worker thread, `AddVideoFrame`, destructor | a surface must not be filled before the hardware has read it, and a locked bitstream must come |
| Muxer `Media/MediaMuxer` | streams, parameter sets, last stamps, one offset | `AddVideo`, `AddAudio`, `Open`, `SendHeader`, `SendPacket`, `SendTrailer` | stamps must rise strictly on both streams whatever they come with, and follow the packets' time |
| Wrapper `Warpper/MediaWrapper.cpp` | pointers to all of these, stream numbers, clocks | the listeners' methods, construction, destruction | the file is begun by one thread, filled by two and ended by a third, with plain members between them |

The three pairs of video codecs are alternatives chosen at build time. `PROJECT.json` lists every
component with its state of modelling, and the hazards line by line.

## 2. The modules

Abstractions used throughout: a packet, picture, frame or NAL unit is a number or a small record; a
critical section is one step, except where another thread's unlocked store can fall into it; sleeps
and pacing only delay a step; libavcodec, libavformat, libswscale, libswresample, the Ascend and
NVIDIA drivers, sockets and the server are modelled from the way the code uses them. A `done`
program counter is a thread that has returned; `opc` is the program counter of the owner (`wpc` in
RtspProxy, `closePc` in DvppDecoder). `fault`, or `failed`, is set where the process would end, and
nothing moves after it. MediaReader, RtspProxy and RtspClient have no name in common, nor have
DvppEncoder and DvppDecoder, so that one module can extend all of them for the proofs: hence
`ClientSpec`, `ProxySpec`, `DecSpec` and the like. Definitions marked "Variant" in a
comment belong to no behaviour: they are the mistakes the mutants put in the place of the definition
they stand before.

**MediaReader** is `MediaReader.cpp`. The file thread (`ReaderTop`, `ReadPacket`, `PushPacket`,
`ReadEnd`, `SetFileFinish`, `ReaderPoll`) fills `queue`; the stream threads (`Sync...`) pop, pace
and deliver; the owner constructs, sets the listener and the call back in two steps, may `Reset` (six
steps, since its stores are unlocked) and destroys. `missed`, `delivered` and `closes` are history.
A packet popped before the listener is set is freed and goes to `missed`. A read error is the end of the
file, as in the code.
**Playback** is what the listener is promised, and `MediaReader` implements it (`ReaderIsPlayback`).

**RtspClient** is one client after the TCP connection stands: the dialogue of `Connect` as the
requests and answers that are left in `buffer_cmd_`, and `ReadPacketTcp` as a parser of single bytes,
in reads of any size, with `H264Demuxer` behind it. What the server sends is one sequence of answers
and, after PLAY, packets; it may refuse requests (`Refusal`), and a session it did not give it may
always refuse. An answer is cut by `Receive` between any two lines and by `ReceiveCut` inside one, a
line into two parts: `part` is how the last line received reads with its end missing (`Pieces`: not
recognised yet, or with its code, session or credentials cut short), and the rest of a line that
`Connect` has used already is text to it. Lines whose parts make no difference to what is looked for
are not cut. `cut` remembers that a Session line was. `rx.packets` and `rx.units` are the history of
what came out.

**RtspProxy** is `rtsp_client_proxy.cpp` and the life of the clients it makes. `Connect` appears as
its outcome and the order of its last steps (`ConnectFails`, `ConnectPlays`, `Connected`), since the
receive thread is started before `connected_` is set. `At` and `Move` let the owner and the
reconnect thread share the steps that connect and delete. The receive thread's way through
`RtspVideoData` is cut where it reads what others write (`ReadUnit`, `Rate`, `Gate`, `GiveUnit`,
`Clear`), and so is the reconnect thread's (`CheckStat`, `CheckProbing`, `ClearCount`, `ClearFps`):
`probe_cnt_` and `fps_` have no lock, and a store that falls into the other thread's increment is
lost. A silent connection may speak again (`LinkReturns`), its client given up or not.
`JoinTest` destroys a started thread without joining it; `GetAudioType` asks a client that is
deleted or has no description yet: both are faults.

**VideoEncoder** and **VideoDecoder** are the FFmpeg codecs: two threads each, cut at every lock,
the frames and packet nodes they allocate (`heap`, `nodes`), and a codec that keeps frames back and
may refuse them. The hardware and software files differ in the codec opened and a copy, which do not
change the control. The encoder also has the conversion context, the arithmetic of time stamps, and
the errors of `avcodec_receive_packet` in the loop (`EncError`) and in the flush (`EncCut`), counted
by `errors` and `cut`.

**LossyFifo** is what every codec path promises: what is put in comes out in order, with gaps but no
repetition. VideoEncoder, VideoDecoder, DvppEncoder, DvppDecoder, AacCodec and NvPipeline each
implement it, with the parts of their state that hold an item concatenated to `inside`.

**AacCodec** is both AAC codecs with `OnPCMData` of the wrapper between them: four threads. `srcNb`
is `src_nb_samples_`, which the decode thread sets for the frame it received while the scale thread
resamples another; `kept` is what the resampler holds; `made` and `encSrcNb` are the encoder that the
first block makes. The counts of samples are kept, their values are not. The codecs fail only where
they are given something; an error where they are asked for the result is left out.

**DvppEncoder** is `H264DVPPEncoder` on `HmevEncoder`, `MediaLooper`'s thread and the channel
manager: pictures go from device buffers of a pool (`pool`, `yuv`, `mem`) to input frames
(`freeIn`, `filled`, `chn`) and come back as streams (`cache`). Starting it may fail at every step
that can fail (`Start`, `StartFails`); a buffer that no list has any more is in `lost`.

**DvppDecoder** is `DVPPDecoder.cpp`: packets leave with a buffer of the pool (`hw`) and come back
with the picture; `SendStarved` is the wait for a buffer.

**NvDecoder** and **NvEncoder** are the classes on the NVIDIA SDK, the parts of `NvDecoder.cpp`,
`NvEncoder.cpp` and `NvEncoderCuda.cpp` they call included. In the decoder the parser's call backs
are steps of the decode thread (`HandlePictureDecode`, `HandlePictureDisplay` and the sequence
header before them); in the encoder the hardware is an actor that reads `input` when it encodes, so
a surface filled too early shows.
**NvPipeline** EXTENDS both: `OnRGBData` takes a frame from the one and gives it to the other, which
the first picture makes, and the wrapper deletes decoder and encoder in this order.

**Muxer** is `MediaMuxer.cpp`. `SendPacket` holds the lock throughout and is one step; the stamps of
both streams, the offset, failed writes and the parameter sets it collects are kept, the bytes are not.
Its specification lets any caller do anything in the documented order with any stamps.

**OutputFile** EXTENDS Muxer with the wrapper's threads around it: `WriteVideo2File` on the encode
thread of the video encoder, step by step from the first parameter set to the header; the audio
decoder's thread that makes the AAC encoder, whose thread writes audio; and the destructor. The
packets' times are the wrapper's two clocks (`Tick`), which may stand still, rescaled to the time
base of their stream (`At`).

**FifoLemmas** and **..._proofs** hold the theorems; **MC...** define the instances for TLC.

## 3. The runs

A run passes unless the table says otherwise; `PROJECT.json` has the property lists, and for each
property a mutant of the model that the run refutes.

| Run | Question | Bounds, and why they are enough |
|---|---|---|
| reader | driven as `main` does it: is everything delivered once there is a listener, in order, and the end reported last? | six packets, both streams and a third one; each list gets longer than one and each stream ends on a different side of the other |
| reader_control | with one `Reset` and a destructor at any time: one report per play, do the destructor's joins return? | two packets meet a Reset in every place: in hand, queued, popped |
| encoder | frames, bounds, order, stamps, contexts, flush, end | four pictures that change both sizes and the height alone through lists of limit 1, so both lists overflow and drop; one frame kept back by the codec, three that it may refuse or fail over; half milliseconds on the clock |
| decoder | packets, memory, order, end | five packets, two kept back, any failing: a failed copy in the middle of the receive loop has frames before and behind it, and the flush has more than one frame |
| output_file | order of file operations by three threads, stamps of the file | two video packets of six units, three audio packets, clocks that advance by 0, 1 or 3: the first packet, the one that meets its stamp, the one that meets a corrected one; a fine time base and one so coarse that corrected stamps meet; the AAC encoder may be late and the destructor early |
| output_file_h265 | **violation** of `TrailerAfterHeader` | one packet |
| rtsp_client | dialogue and parser | both media, credentials; cuts inside the answers to all six requests (`Cuts`), one refusal of the server's own will (`Refusals`); ten items: every kind of unit, fragments with other channels between, a text, two packets with a `$`; reads of every size |
| rtsp_proxy | threads, reconnection, probing | three clients, two of which may fail at any point or fall silent and speak again; two intervals |
| dvpp_encoder | buffers, copies, starting, destroying, order | five pictures through lists of limit 1, a pool of 4, one input frame and a cache of one; two frames that may be refused, one stream that may be lost; a channel number in use, refused or free; two sizes, one of them not aligned |
| dvpp_decoder | buffers, progress, order | seven packets through a pool of 3; two that may be refused, which leaves one buffer; a bad picture and a packet that is too long |
| aac | samples, order, progress | a stream of LC frames, one of HE-AAC frames, one of both lengths, one at another rate; a damaged packet; each codec keeps one packet |
| nvidia | frames, ring, order, progress | five videos of up to six packets that grow, shrink and change their display size; a list limit of 1, one picture kept by the parser, a ring of four surfaces that goes round, a lookahead of two |

What they show, in the order of weight:

* *Reader.* `OnlyEarlyOnesLost`, `CloseOnlyWhenPlayed` and `ReaderIsPlayback` hold for a reader that
  is not reset: only packets popped before the listener is set are lost, always the first of their
  stream. The call back comes once per play with Reset too (`CloseOncePerPlay`). Destroyed after the
  call back, the destructor's loop over the wrong list (`MediaReader.cpp:622`) is never entered
  (`DestructorDefined`); destroyed at any time, it gets past its three joins (`JoinsReturn`).
* *FFmpeg codecs.* Ownership of frames is exact in every reachable state (`FramesOwned`,
  `MemoryOwned`). The encoder's stamps lag the clock by less than a millisecond per packet
  (`PtsLag`), the conversion context has the picture's width and is that of this picture or one before
  (`ContextFits`), the last picture is never the one dropped and the destructor hands out what the
  codec kept, but for one frame for each error and what a failing flush leaves (`Progress`). The decoder
  skips only what failed (`NothingSkipped`).
* *Hardware codecs.* `FramesWhole`: no frame of NVIDIA's stock is written or read past its end,
  although sizes change while pictures wait. `RingKept`: no surface is filled before the
  hardware has read it, and exactly the surfaces in use are mapped; the worker never locks a
  bitstream that will not come (`Progress`). On Ascend every buffer has one owner or is known to be
  lost (`MemoryOwned`, `OutBuffersOwned`), copies fit the input frame (`CopyFits`), and the destructor returns even when
  the pool has run dry.
* *Audio.* A stream of one frame length keeps every sample through both resamplers and both lists
  (`SamplesKept`), although the resampler is asked with the length of another frame.
* *File.* Three threads that share plain members use the muxer as it asks to be used
  (`MuxerUsedInOrder`), so stamps rise strictly and follow the clock in the file as well; no picture
  is missing from a file that is ended and the audio stream is never left out of the header
  (`FileComplete`).
* *RTSP.* However the stream is cut the parser gives exactly the whole packets and units after the
  point where it starts (`StreamWhole`), unless it starts inside a packet whose rest has a `$`; PLAY is
  prepared however the answers are cut, but for a session that is cut short (`PlayIsPrepared`). No receive thread
  outlives its client (`OneReceiver`), the listener starts with an SPS (`FirstUnitIsSps`), and a dead
  link that looks alive does not stay so (`Recovers`): the thread that clears the flag clears it
  again every two seconds. The probing ends, with one exception (`StrandedByReset`, below).

One run ends in a violation, of something the muxer's header and the README say; the finding in
`PROJECT.json` quotes them. Known behaviour of the code that the models contain, or leave to a
precondition, without a run of its own:

* Packets popped between the constructor and `SetDataListner` are freed without having been given to
  anybody (`MediaReader.cpp:447`, `575`).
* A reader destroyed before the call back may find audio queued; the loop at `MediaReader.cpp:621` then
  pops the other list and does not end (`undefined`). `main` does not do that.
* Audio at stream index 0 gets no thread (`AudioThread` against `HaveAudio`): its packets are queued
  and never played. `CloseOnlyWhenPlayed` fails for `AudioIndex = 0`.
* `Reset` takes the finish flags back without the lock; a stream thread may set its flag after, and
  the reader then reports the end without a second play.
* A picture encoded before the AAC encoder is ready, or while or after the input is deleted, goes
  through a null pointer. `FileEnds` says that these are the only cases in which the file is not ended.
* With RTSP input without audio `WriteVideo2File` goes through `reader_`, which is null (`AskedNull`).
* `~RtspClient` joins its thread only if it has begun and not ended; otherwise `std::thread` ends the
  process. The encoder may ask for the audio type while the proxy replaces the client. Both are
  `fault` in RtspProxy, and the liveness properties there are about behaviours without them.
* The sum of the intervals probed is kept over a reconnection (`rtsp_client_proxy.cpp:25`), so one
  interval may span two connections; `FpsFromProbe` says that nothing else spoils the rate.
* The reconnect thread may find a client dead that has just delivered the last interval. If the
  rate is stored between its test and its own store (`rtsp_client_proxy.cpp:24`, `26`, `114`), the rate
  is lost while the count stands at its end: no client counts again and the owner's constructor waits
  for ever (`Stranded`). `StrandedByReset` says that this is the only way there. If the owner has seen the
  rate already, it returns -1 for it (44); the model does not go on to what is made of that.
* An answer that TCP cuts may make `Connect` fail; `ConnectEnds` says that a cut or a break is the
  only reason to. A Session line of which only a beginning has come is taken for the whole
  (`rtsp_common.cpp:103`), and PLAY carries that. A refused request, for which no line has the header
  waited for, leaves `Connect` waiting for ever (`Stuck`), since codes other than 401 are not looked
  at. Bytes that come with the answer to PLAY are dropped.
* The parser finds the stream by the next `$` after what `Connect` has read (`rtsp_client.cpp`,
  `ReadPacketTcp`). If the rest of the packet that was cut there holds that byte, it takes the three
  bytes behind it for a channel and a length and what follows for the packet; `StreamWhole` is about cuts
  whose rest has none (`CleanCut`). The run has cuts of both kinds.
* The conversion context of the FFmpeg encoder is made again when the width changes, not when only
  the height does (`H264FFSoftEncoder.cpp:124`), against its comment at 119: "when the size changes, the
  software conversion has to be initialised again". A picture that differs from the one before in its
  height alone is converted with the wrong context; the run has one. `ContextFits` says that nothing else
  can be wrong with it.
* An error of `avcodec_receive_packet` leaves accepted frames in the codec or loses one, and in the
  flush it loses all that are left (`H264FFSoftEncoder.cpp:210`, `249`).
* Frames the decoder flushes at the end may never be scaled: its scale thread ends on `abort_`
  (`FFHardDecoder.cpp:392`).
* A picture that finds the DVPP pool empty while the encoder is destroyed is converted to a null
  address, which ends the process (`H264DVPPEncoder.cpp:268`); a refused frame loses its buffer
  (326, 334); a start that failed leaves no threads to join, and the number 256, when its turn comes,
  is refused. A DVPP decoder that is destroyed leaves buffers in the hardware.
* A change of the displayed size alone is not remembered (`NvDecoder.cpp:378`) and later frames
  have the old size; one that is then larger overruns its frame. The run has such a video;
  `FramesWhole` is about those whose displayed height changes with the coded one.
* A source of audio at another rate is read with the length of its first block (`AACEncoder.cpp:175`);
  `spoilt` has the blocks for which that is wrong.

## 4. Fairness

Weak fairness for each thread: the operating system runs a thread that can run, and every wait in
this code has a time limit, so a waiting thread can. Hardware (Ascend's channel, NVIDIA's encoder)
goes on encoding what it was given, each while no fault has ended the process. Owners are fair in
finishing what they began, not in beginning: `Reset`, an early destructor and failing calls may never
happen. In MediaReader the owner does destroy the reader once called back, as `main` does. RtspClient
assumes a server that answers or refuses each request; one that says nothing holds `Connect` for ever
(`recv` without a limit), which is the reason the assumption is stated. RtspProxy assumes in addition strong fairness
of the two kinds of unit a playing server sends, and that the last of `MaxConnects` connections does
not fail: a network that always fails again before the probe has ended would keep the owner waiting.
A connection that was silent need not speak again.
The violation run uses a specification without fairness and checks an invariant only.

## 5. The proofs

TLAPS proves the following for every value of the constants and with no bound; the theorems are
about `SafeSpec`, the specification without fairness, which `Spec` implies.

* `Readers_proofs`, the two kinds of input. About MediaReader:
  * `TypeCorrect`: `SafeSpec => []TypeOK`. Inductive with `Custody`, which ties what a thread has in
    hand to its program counter.
  * `CloseComesLast`: `SafeSpec => CloseOnlyWhenPlayed`, assuming `MaxResets = 0` and
    `AudioIndex # 0`. `CloseOnlyWhenPlayed` alone says nothing of the flags it rests on; `PlayInv`
    says that a flag once set is stable: `fileFinish` is set after the last push, by the thread
    that pushes, and a stream's flag only with an empty list and nothing in hand.
  * `DestructorIsDefined`, assuming also `~EarlyDestroy`, from `ClosedInv`: the destructor comes
    after the call back, so it finds empty lists.
  * `OnlyEarlyPacketsLost`: `OnlyEarlyOnesLost` under the same assumptions. `Track(s)` joins the places
    a packet that was not freed unseen can be in, and the invariant `TrackInv` puts `missed` before it;
    `TrackKeptByPush`, `TrackKeptByPop` and `TrackKeptByEmit` show that each hand-over leaves this as
    it is, `TrackRead` that reading a packet appends it. `KeptBehindMissed` draws from it what the rest is.
  * `OneCloseAPlay`: `SafeSpec => []CloseOncePerPlay` without any of these assumptions. `OwedInv`
    counts the reports that are due: one while the file is read or is at its end unreported, two when
    `Reset` takes the file flag from a thread about to report, one more for a `Reset` on its way.
  * `ReaderImplementsPlayback`: the step simulation of Playback's `SafeSpec` under the same
    assumptions and `AllWanted`. What a thread emits is first in `Track(s)` behind what was passed on,
    and so the first packet of its stream after the last one passed on (`FirstAfter`); the report is
    the end, with no packet left (`PlayedAtReport`) and a listener (`Attached`); every other step
    leaves Playback alone.

  About RtspProxy:
  * `NoThreadLeft`, `ProxySafeSpec => []OneReceiver`, from `ProxyInv`, which says where the one thread
    that may connect or delete is and what that means for the client.
  * `ListenerStartsWithSps`, `[]FirstUnitIsSps`, from `FirstUnit`: before the listener was given
    anything, `video_ready_` is set only while the SPS that set it is in the receive thread's hand
    or after it.
  * `RateOfProbe`, `[]FpsFromProbe`, from `Sums`: until an interval is spoilt the sum has as many as the
    count says, and whoever is about to store the rate, or has, saw Probe of them.
    `OnlyResetStrands`, `StrandedByReset`, is a case for each step that stores the count or the rate
    or ends the way to it. Also `ProxyTypeCorrect`.

  About RtspClient, for every description and stream and every way TCP cuts the answers:
  * `PlayIsAlwaysPrepared`, `[]PlayIsPrepared`, whatever the server refuses. The invariant `Dialogue`
    has the types, what a line of the server may be (`GoodLine`) and how the last one received may
    read while its end is missing (`PartFits`), the media set up so far with one request each and the
    session as far as it is known (`Prepared`), and `Greeting`: until it is known whether the server
    wants credentials, nothing that has been received or is on its way has a Content-Length. Without
    `Greeting` it is not inductive: `Connect` takes the first status it finds for the answer, whatever
    it reads, and a description would let it go on without credentials. The length of a packet bounds
    its body (`Parsing`), one byte after the other: `ChainExists` and `SetInduction` are how the
    recursive function `parsed` is dealt with.
  * `PacketsAreWhole` and `StreamIsWhole`, `ClientSafeSpec => [](CleanCut => StreamWhole)`: however the
    answers and the stream are cut, the packets and units that come out are, whole and in order,
    those of the stream behind `dropped`, where `Connect` stopped. The invariant `Receiving` has two
    more parts than `Dialogue`.
    `Exchange` is about the wire: what has been received and is on its way ends with the one answer
    or refusal that is out, no status before it, so the status that `Connect` finds is that one's;
    once PLAY is answered it is the stream from `Read` on. That is why the place where `Connect` stops is known to be a place in the stream.
    `ParsedInv` is about the parser: either it is still before the first item behind `dropped` and has
    nothing in hand (`Seeking`), or it is within an item (`Within`): `Position` says at which byte, and
    that the header and body collected are that item's so far, and `Emitted`, that the packets given
    are exactly those of the items before, as `Bodies` has them, and that the depacketiser holds the
    run of fragments begun by the last of them (`Depacketised`).
    A byte moves `Position` by one (`ParsedStep`); the byte behind an item gives the item away and
    starts the next. `Offset`, `StreamBytes` and `Bytes` are tied by lemmas about flattened sequences
    (`FlatNext` and those after it), and `Bodies`, a recursive function, by `ChainExists`.
* `OutputFile_proofs`. About Muxer with any caller: `StampsAlwaysIncrease`, `MuxerTypeCorrect` and
  `OffsetIsAlwaysOne` from `StampInv`, whose further part ties the last stamp of a stream to the last
  packet written: the stamps themselves do not say what the next one is compared with.
  `StampsAlwaysFollowClock` from `ClockInv`, which adds that the last stamp is itself within two
  units a packet of some time. About the wrapper, for any packets and input:
  * `WrapperUsesMuxerInOrder`, that every step of the wrapper's threads is a step of Muxer's
    specification or leaves it alone. `WrapperInv` says what a thread at a given place has done: the
    packet in hand (`InHand`), the sets it needs (`SetsReady`), which streams and file stages are
    behind it (`FileStage`) and that the owner ends the file after the threads (`Ending`);
    `NoSetsOfH265` keeps an H265 input from beginning.
  * `FileStampsIncrease` and `FileStampsFollowClock`, without a second proof about stamps: with the
    order proved, Muxer's own `ClockInv` is kept by the wrapper (`StepMuxer`).
  * `FileIsComplete`: `SafeSpec => []FileComplete` for H264 packets as the encoder makes them, with
    both parameter sets and a key picture before any other picture (`BeginsWithKey`). `CountInv` says
    that the pictures in the file are those behind the `Position` of the encode thread, so none is
    left out and none is written twice. Also `HeaderIsComplete` and `OutputTypeCorrect`.
* `VideoDecoder_proofs`: `TypeCorrect`; `DecoderImplementsFifo`, the step simulation of LossyFifo,
  where each part of the decoder that may hold a packet is one operand of a concatenation and a step
  moves an item from one operand to the next; `NothingLeaked`, `SafeSpec => []MemoryOwned`, from
  `OwnInv`: the places that hold a node or a frame are apart, together they are what is allocated,
  and a thread that has ended holds nothing. `NoPacketSkipped`, `SafeSpec => []NothingSkipped`, from
  `SkipInv`: pictures and what is inside are together a rising list of all packets but the failed
  ones, so a picture's place in it is its count (`PlaceInRising`).
* `VideoEncoder_proofs`: `TypeCorrect`, `EncoderImplementsFifo` and `NoFrameLost` along the same
  lines, with lists that drop; `StampsFollowClock` from `PtsInv`, which bounds the stamp of the last
  frame and not only those delivered; `DestructorFlushes`: when the destructor has returned, every
  frame the codec accepted has come out, but for one for each error in the loop, unless the flush
  failed. `ContextHasWidth`, `SafeSpec => []ContextFits`, from `ContextInv`: the context was made for
  a picture not later than the one in hand, of the width the scale thread remembers. So it can be
  wrong only where the height changes alone, and there it is (section 3).
* `Dvpp_proofs`. About DvppEncoder: `TypeCorrect`; `CopyAlwaysFits`, `SafeSpec => []CopyFits`, the
  arithmetic of the three roundings (`Division`, `Fits`) for every size of picture;
  `NothingSharedOrForgotten`, `SafeSpec => []MemoryOwned`, from `BufInv` (a device buffer is in the
  pool, in `yuv_frames_`, in a thread's hand or given up, in one of them only, until the lists are
  cleared, and no list grows past what makes a buffer wait) and `FrameInv` (the same of input frames,
  and that each in the hardware has the picture it was filled with); `EncoderImplementsFifo`. About
  DvppDecoder: `BuffersOwned`, `DecSafeSpec => []OutBuffersOwned`, from `OwnInv`;
  `DecoderImplementsFifo`, `DecSafeSpec => DecoderIsFifo`; `DecTypeCorrect`.
* `AacCodec_proofs`, for any lengths of frames and rates: `TypeCorrect`; `NoSampleLost`,
  `SafeSpec => []SamplesKept`. `PathInv` has in `Resampler` why the room is enough although
  `srcNb` may be that of a later frame: what is kept is at most some frame's samples and the room was
  computed for some frame (`Room`); `ExactInv` follows one length through the path, and `Counted`
  says that what is inside and what came out are no more than what was put in.
  `PathImplementsFifo`: `AudioIsFifo` through four threads, two codecs and the resampler.
* `NvPipeline_proofs`: `RingIsKept` for any depth of the ring and length of the video. `RingInv`
  says that the indices in use are fewer than the ring is long and those the hardware has not encoded
  are the last of them (`Window`), and what each slot holds (`Filled`). By
  `NoCollision` two indices less than the ring apart have two slots. `FramesAreWhole`: `StockInv`
  counts the stock; `HeightInv` says that the header the parser called back for is that of the
  packet before (`InTurn`) and that frames taken have the height of their picture (`Sizes`).
  `PathImplementsFifo`: `PathIsFifo` from the packets' list to the encoded pictures. `Hands` says
  which picture each thread has where it is and which the surfaces and frames not yet taken hold; a
  window of slots or frames that moves by one is a `Segment` that loses its first or gains a last.
* `FifoLemmas`: sequences as concatenations of operands (`Cat`), losing one item, joining one, the
  items of lists that are pushed and popped, rising lists and an item taken out of one. They serve
  all six codec paths, each of which puts its state as operands and shows that a step moves one item.

What the theorems assume beyond the modules' own ASSUMEs, and why the code meets it:

| Hypothesis | Of | Because |
|---|---|---|
| `MaxResets = 0`, `AudioIndex # 0`, `~EarlyDestroy` | reader | `main` never calls `Reset`, destroys the reader after the call back, and plays files whose first stream is video; the other cases really fail (section 3) |
| `\A s \in Streams, n \in Nat : At(s, n) \in Stamps` | output file | `Stamps` must hold every value of the clock; there is no other bound on them |
| `VideoType = "H264"`, `BeginsWithKey` | `FileIsComplete` | pictures before the first key picture are left out on purpose, and of H265 nothing is written |
| no width 0 | `ContextHasWidth` | `lastWidth = 0` is the model's mark that there was no picture yet, and no picture has width 0 |
| `16 % Align = 0` | `CopyAlwaysFits` | `DEFAULT_ALIGN` comes with the SDK and is 16 in the run; if it did not divide 16, planes of a picture of the size the header asks for would not lie where the frame says |
| `AllWanted` | `ReaderImplementsPlayback` | the file has no packets of an audio stream the reader has no thread for: `ReadPacket` passes audio on only when there is one |
| `CleanCut` (in the property) | `PacketsAreWhole`, `StreamIsWhole` | the parser looks for the next `$`; where the rest of a cut packet holds one it really joins packets (section 3). It is a condition on the place where `Connect` stopped, not on the stream: a `$` anywhere else is allowed, and the run's stream has both cases |
| `FragmentsTogether` | `StreamIsWhole` | RFC 6184: the fragments of a unit are sent one after the other; a video packet has a first byte, which `InputData` reads. Loss is ruled out by TCP. TLC evaluates it on the run's stream |

Only model-checked: liveness and every use of fairness (`Progress`, `Recovers`, `ConnectEnds`,
`FileEnds`, `JoinsReturn`, the fairness in `ReaderIsPlayback` and the like), which the prover
does not handle, and the violation of `TrailerAfterHeader`. Every invariant a passing run checks is
a theorem.

## 6. Not modelled

* `NVSoftVideoEncoder`, which copies the FFmpeg encoder; the parts of the NVIDIA SDK classes the
  program never calls (locked frames, motion estimation, `Reconfigure`); the vendored headers and
  utilities of the SDK.
* SDP and URL parsing, digests and MD5, sockets, ADTS and SPS layout, logging: formatting and I/O.
* RTP over UDP (the proxy only asks for TCP) and loss inside an RTP stream; the H265, AAC and PCMA
  depacketisers.
* The FFmpeg decoder's conversion context, playing speed, the debug copies to `out.h264` and
  `out.aac`, rate control and codec parameters.
* What `assert` says: the default build is Release (`CMakeLists.txt:48`), where asserts are void.

Two of the DVPP files do not compile as they are (`H264DVPPEncoder.cpp:118` has `= =`, and
`DVPPDecoder.cpp:294` names a member in a static function); they are modelled as they are evidently
meant. The codecs are assumed to support the stream they are given: a constructor that throws for
another ends the process.

## 7. Plan

Nothing of what the prover can do is left for the invariants. What the models could say more: loss and
reordering in front of the depacketisers, which needs RTP over UDP; the size of pictures in
VideoDecoder, with the conversion context that is made once (`FFSoftDecoder.cpp:194`); the H265 and
AAC depacketisers. For a cut packet with a `$` in its rest, how many packets the parser may join
before it is back at an item's beginning.
