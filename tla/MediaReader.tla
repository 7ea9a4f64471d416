----------------------------- MODULE MediaReader -----------------------------
(***************************************************************************)
(* The MP4 reader: Media/MediaReader/FileReader/MediaReader.cpp.           *)
(*                                                                         *)
(* Three threads share two packet lists and a handful of flags.  The file  *)
(* thread demuxes packets into video_list_ and audio_list_; one thread per *)
(* stream paces its packets and hands them to the listener; when the file  *)
(* is at its end and both streams report that they have finished, the file *)
(* thread calls the owner back once, and the owner (the wrapper, driven by *)
(* Test/main.cpp) destroys the reader.  The owner may also call Reset.     *)
(*                                                                         *)
(* A packet is its position in the file.  Pacing (the A/V clock, sleeps)   *)
(* only delays steps and is not represented; the callbacks for the NAL     *)
(* units of one video packet are one delivery.  A critical section is one  *)
(* step, except the one that sets a finish flag, whose test and assignment *)
(* another thread's unlocked store can separate.                           *)
(***************************************************************************)
EXTENDS Integers, Sequences

CONSTANTS
  File,         \* the packets of the file, in order, by the stream they belong to
  AudioIndex,   \* audio_index_: position of the audio stream in the file, -1 if none
  MaxResets,    \* bound: how often the owner calls Reset
  EarlyDestroy  \* whether the owner may destroy the reader before it is called back

Streams == {"video", "audio"}

ASSUME ReaderAssumption ==
  /\ File \in Seq(Streams \cup {"other"})
  /\ AudioIndex \in Int /\ AudioIndex >= -1
  /\ MaxResets \in Nat
  /\ EarlyDestroy \in BOOLEAN

VARIABLES
  pos,        \* the packet the next av_read_frame returns
  hand,       \* packet_ of the file thread, not yet pushed (0: none)
  queue,      \* video_list_ and audio_list_
  busy,       \* the packet a stream thread has popped (0: none)
  missed,     \* history: packets paced while data_listner_ was still NULL
  delivered,  \* history: packets given to the listener
  fileFinish, \* file_finish_
  finish,     \* video_finish_ and audio_finish_
  abort,      \* abort_
  listener,   \* data_listner_ # NULL
  closeCb,    \* colse_cb_ # NULL
  haveReport, \* have_report, a local of the file thread
  closes,     \* history: calls of colse_cb_
  rpc,        \* where the file thread is
  spc,        \* where each stream thread is
  opc,        \* where the owner is
  resets      \* calls of Reset so far

vars == <<pos, hand, queue, busy, missed, delivered, fileFinish, finish, abort,
          listener, closeCb, haveReport, closes, rpc, spc, opc, resets>>

flow == <<pos, hand, queue, busy, missed, delivered>>   \* what moves packets
flags == <<fileFinish, finish, abort, listener, closeCb>>
report == <<haveReport, closes>>

HaveAudio == AudioIndex >= 0
AudioThread == AudioIndex > 0   \* the constructor's own test for starting th_audio_

(* Whether the file thread queues packet i, and on which list. *)
Wanted(i) == File[i] = "video" \/ (File[i] = "audio" /\ HaveAudio)

Init ==
  /\ pos = 1 /\ hand = 0
  /\ queue = [s \in Streams |-> <<>>]
  /\ busy = [s \in Streams |-> 0]
  /\ missed = [s \in Streams |-> <<>>]
  /\ delivered = [s \in Streams |-> <<>>]
  /\ fileFinish = FALSE
  /\ finish = [s \in Streams |-> FALSE]
  /\ abort = FALSE
  /\ listener = FALSE /\ closeCb = FALSE
  /\ haveReport = FALSE /\ closes = 0
  /\ rpc = "top"
  /\ spc = [s \in Streams |-> IF s = "video" THEN "top" ELSE "unborn"]
  /\ opc = "ctor"
  /\ resets = 0

(* push_back.  Variant: make room by forgetting what is queued, as the     *)
(* encoder's lists do.                                                     *)
PushDropping(q, p) == IF Len(q) > 1 THEN <<p>> ELSE Append(q, p)
Push(q, p) == Append(q, p)

(* A stream is at its end: nothing is queued and nothing more will be.     *)
(* Variant: the list is not looked at.                                     *)
EndOfFile(s) == fileFinish
Drained(s) == fileFinish /\ queue[s] = <<>>

(* When the file thread calls the owner back.  Variants: the audio thread  *)
(* is not waited for; the report is repeated.                              *)
VideoReport == finish["video"] /\ closeCb /\ ~haveReport
RepeatReport == finish["video"] /\ finish["audio"] /\ closeCb
MustReport == finish["video"] /\ finish["audio"] /\ closeCb /\ ~haveReport

-----------------------------------------------------------------------------
(* The file thread, MediaReaderThread.                                     *)

(* Loop head: leave on abort_, idle while the file is at its end, else read. *)
ReaderTop ==
  /\ rpc = "top"
  /\ rpc' = IF abort THEN "done" ELSE IF fileFinish THEN "poll" ELSE "read"
  /\ haveReport' = IF ~abort /\ ~fileFinish THEN FALSE ELSE haveReport
  /\ UNCHANGED <<flow, flags, closes, spc, opc, resets>>

(* At the end of the file: when both streams have finished, call back once. *)
ReaderPoll ==
  /\ rpc = "poll"
  /\ IF MustReport
     THEN haveReport' = TRUE /\ closes' = closes + 1
     ELSE UNCHANGED report
  /\ rpc' = "top"
  /\ UNCHANGED <<flow, flags, spc, opc, resets>>

(* av_read_frame succeeds: keep a packet of the two streams, skip others.  *)
(* File is what it gives before it fails: the thread takes a read error    *)
(* and the end of the file for the same thing.                             *)
ReadPacket ==
  /\ rpc = "read" /\ pos <= Len(File)
  /\ pos' = pos + 1
  /\ IF Wanted(pos) THEN hand' = pos /\ rpc' = "push"
                    ELSE hand' = hand /\ rpc' = "top"
  /\ UNCHANGED <<queue, busy, missed, delivered, flags, report, spc, opc, resets>>

(* av_read_frame fails: at the end of the file, or where it cannot be read. *)
ReadEnd ==
  /\ rpc = "read" /\ pos > Len(File)
  /\ rpc' = "eof"
  /\ UNCHANGED <<flow, flags, report, spc, opc, resets>>

SetFileFinish ==
  /\ rpc = "eof"
  /\ fileFinish' = TRUE
  /\ rpc' = "top"
  /\ UNCHANGED <<flow, finish, abort, listener, closeCb, report, spc, opc, resets>>

(* push_back under the list's mutex, which a thread at "finish" is holding. *)
PushPacket ==
  /\ rpc = "push"
  /\ LET s == File[hand]
     IN  /\ spc[s] # "finish"
         /\ queue' = [queue EXCEPT ![s] = Push(@, hand)]
  /\ hand' = 0
  /\ rpc' = "top"
  /\ UNCHANGED <<pos, busy, missed, delivered, flags, report, spc, opc, resets>>

Reader == ReaderTop \/ ReaderPoll \/ ReadPacket \/ ReadEnd \/ SetFileFinish \/ PushPacket

-----------------------------------------------------------------------------
(* The stream threads, VideoSyncThread and AudioSyncThread.                *)

Goto(s, pc) == spc' = [spc EXCEPT ![s] = pc]

(* Loop head: while (!abort_). *)
SyncTop(s) ==
  /\ spc[s] = "top"
  /\ Goto(s, IF abort THEN "done" ELSE "enter")
  /\ UNCHANGED <<flow, flags, report, rpc, opc, resets>>

(* With the mutex held, and nothing left to come: about to report it. *)
SyncDrained(s) ==
  /\ spc[s] = "enter"
  /\ Drained(s)
  /\ Goto(s, "finish")
  /\ UNCHANGED <<flow, flags, report, rpc, opc, resets>>

(* Variant: both threads set the flag of the video stream. *)
SyncFinishVideo(s) ==
  /\ spc[s] = "finish"
  /\ finish' = [finish EXCEPT !["video"] = TRUE]
  /\ Goto(s, "top")
  /\ UNCHANGED <<flow, fileFinish, abort, listener, closeCb, report, rpc, opc, resets>>

SyncFinish(s) ==
  /\ spc[s] = "finish"
  /\ finish' = [finish EXCEPT ![s] = TRUE]
  /\ Goto(s, "top")
  /\ UNCHANGED <<flow, fileFinish, abort, listener, closeCb, report, rpc, opc, resets>>

(* Pop the oldest packet; pacing follows with the mutex released. *)
SyncPop(s) ==
  /\ spc[s] = "enter"
  /\ queue[s] # <<>>
  /\ busy' = [busy EXCEPT ![s] = Head(queue[s])]
  /\ queue' = [queue EXCEPT ![s] = Tail(@)]
  /\ Goto(s, IF s = "video" THEN "filter" ELSE "emit")
  /\ UNCHANGED <<pos, hand, missed, delivered, flags, report, rpc, opc, resets>>

(* Nothing queued yet: wait on the condition variable. *)
SyncWait(s) ==
  /\ spc[s] = "enter"
  /\ ~fileFinish /\ queue[s] = <<>>
  /\ Goto(s, "wait")
  /\ UNCHANGED <<flow, flags, report, rpc, opc, resets>>

(* The wait ends on a notification or, at the latest, after 100 ms.        *)
(* Variant: a wait that only a notification of a new packet ends.          *)
SyncNotified(s) ==
  /\ spc[s] = "wait"
  /\ queue[s] # <<>>
  /\ Goto(s, "top")
  /\ UNCHANGED <<flow, flags, report, rpc, opc, resets>>

SyncWake(s) ==
  /\ spc[s] = "wait"
  /\ Goto(s, "top")
  /\ UNCHANGED <<flow, flags, report, rpc, opc, resets>>

(* Video only: the bit stream filter loop gives the packet up on abort_. *)
SyncFilter(s) ==
  /\ spc[s] = "filter"
  /\ IF abort THEN busy' = [busy EXCEPT ![s] = 0] /\ Goto(s, "top")
              ELSE busy' = busy /\ Goto(s, "emit")
  /\ UNCHANGED <<pos, hand, queue, missed, delivered, flags, report, rpc, opc, resets>>

(* OnVideoData or OnAudioData, when a listener is set. *)
SyncEmit(s) ==
  /\ spc[s] = "emit"
  /\ IF listener
     THEN delivered' = [delivered EXCEPT ![s] = Append(@, busy[s])] /\ missed' = missed
     ELSE missed' = [missed EXCEPT ![s] = Append(@, busy[s])] /\ delivered' = delivered
  /\ busy' = [busy EXCEPT ![s] = 0]
  /\ Goto(s, "top")
  /\ UNCHANGED <<pos, hand, queue, flags, report, rpc, opc, resets>>

Sync(s) ==
  \/ SyncTop(s) \/ SyncDrained(s) \/ SyncFinish(s) \/ SyncPop(s)
  \/ SyncWait(s) \/ SyncWake(s) \/ SyncFilter(s) \/ SyncEmit(s)

-----------------------------------------------------------------------------
(* The owner: constructor, SetDataListner, Reset, destructor.              *)

(* The end of the constructor; the file and video threads already run.     *)
StartAudio ==
  /\ opc = "ctor"
  /\ IF AudioThread
     THEN spc' = [spc EXCEPT !["audio"] = "top"] /\ finish' = finish
     ELSE finish' = [finish EXCEPT !["audio"] = TRUE] /\ spc' = spc
  /\ opc' = "made"
  /\ UNCHANGED <<flow, fileFinish, abort, listener, closeCb, report, rpc, resets>>

(* SetDataListner stores two plain pointers, the listener first. *)
SetListner ==
  /\ opc = "made"
  /\ listener' = TRUE
  /\ opc' = "listening"
  /\ UNCHANGED <<flow, fileFinish, finish, abort, closeCb, report, rpc, spc, resets>>

SetCloseCb ==
  /\ opc = "listening"
  /\ closeCb' = TRUE
  /\ opc' = "running"
  /\ UNCHANGED <<flow, fileFinish, finish, abort, listener, report, rpc, spc, resets>>

(* Reset clears each list under its mutex, rewinds the file and only then  *)
(* takes the three finish flags back, one store at a time.                 *)
ResetList(s, from, to) ==
  /\ opc = from
  /\ spc[s] # "finish"
  /\ queue' = [queue EXCEPT ![s] = <<>>]
  /\ opc' = to
  /\ UNCHANGED <<pos, hand, busy, missed, delivered, flags, report, rpc, spc>>

ResetStart ==
  /\ resets < MaxResets
  /\ ResetList("video", "running", "resetAudio")
  /\ resets' = resets + 1

ResetAudio == ResetList("audio", "resetAudio", "seek") /\ UNCHANGED resets

(* Variant: a seek to before the first packet. *)
ResetSeekBefore ==
  /\ opc = "seek"
  /\ pos' = 0
  /\ opc' = "fileFlag"
  /\ UNCHANGED <<hand, queue, busy, missed, delivered, flags, report, rpc, spc, resets>>

ResetSeek ==
  /\ opc = "seek"
  /\ pos' = 1
  /\ opc' = "fileFlag"
  /\ UNCHANGED <<hand, queue, busy, missed, delivered, flags, report, rpc, spc, resets>>

ResetFileFlag ==
  /\ opc = "fileFlag"
  /\ fileFinish' = FALSE
  /\ opc' = "videoFlag"
  /\ UNCHANGED <<flow, finish, abort, listener, closeCb, report, rpc, spc, resets>>

ResetVideoFlag ==
  /\ opc = "videoFlag"
  /\ finish' = [finish EXCEPT !["video"] = FALSE]
  /\ opc' = "audioFlag"
  /\ UNCHANGED <<flow, fileFinish, abort, listener, closeCb, report, rpc, spc, resets>>

ResetAudioFlag ==
  /\ opc = "audioFlag"
  /\ finish' = IF HaveAudio THEN [finish EXCEPT !["audio"] = FALSE] ELSE finish
  /\ opc' = "running"
  /\ UNCHANGED <<flow, fileFinish, abort, listener, closeCb, report, rpc, spc, resets>>

(* main deletes the wrapper, and with it the reader, once it was called back. *)
Destroy ==
  /\ opc = "running"
  /\ closes > 0 \/ EarlyDestroy
  /\ abort' = TRUE
  /\ opc' = "joinFile"
  /\ UNCHANGED <<flow, fileFinish, finish, listener, closeCb, report, rpc, spc, resets>>

JoinFile ==
  /\ opc = "joinFile" /\ rpc = "done"
  /\ opc' = "joinVideo"
  /\ UNCHANGED <<flow, flags, report, rpc, spc, resets>>

(* th_video_.join(), then empty video_list_. *)
JoinVideo ==
  /\ opc = "joinVideo" /\ spc["video"] = "done"
  /\ queue' = [queue EXCEPT !["video"] = <<>>]
  /\ opc' = IF AudioThread THEN "joinAudio" ELSE "dead"
  /\ UNCHANGED <<pos, hand, busy, missed, delivered, flags, report, rpc, spc, resets>>

(* th_audio_.join(), then "while (!audio_list_.empty())" pops video_list_, *)
(* which is empty by now: undefined behaviour, in a loop that cannot end,  *)
(* unless audio_list_ is empty.                                            *)
JoinAudio ==
  /\ opc = "joinAudio" /\ spc["audio"] = "done"
  /\ opc' = IF queue["audio"] = <<>> THEN "dead" ELSE "undefined"
  /\ UNCHANGED <<flow, flags, report, rpc, spc, resets>>

Setup == StartAudio \/ SetListner \/ SetCloseCb
Reset == ResetStart \/ ResetAudio \/ ResetSeek
         \/ ResetFileFlag \/ ResetVideoFlag \/ ResetAudioFlag
Teardown == Destroy \/ JoinFile \/ JoinVideo \/ JoinAudio
Owner == Setup \/ Reset \/ Teardown

-----------------------------------------------------------------------------
Next == Reader \/ (\E s \in Streams : Sync(s)) \/ Owner

(* The operating system runs every thread that can run: one weak fairness  *)
(* condition per thread.  The owner need not call Reset, but finishes what *)
(* it has started and destroys the reader when it has been called back.    *)
Fairness ==
  /\ WF_vars(Reader)
  /\ \A s \in Streams : WF_vars(Sync(s))
  /\ WF_vars(Setup) /\ WF_vars(Teardown)
  /\ WF_vars(ResetAudio \/ ResetSeek \/ ResetFileFlag \/ ResetVideoFlag \/ ResetAudioFlag)

SafeSpec == Init /\ [][Next]_vars
Spec == SafeSpec /\ Fairness

-----------------------------------------------------------------------------
(* Properties.                                                             *)

Packets == 1..Len(File)
ReaderPc == {"top", "poll", "read", "eof", "push", "done"}
SyncPc == {"unborn", "top", "enter", "finish", "wait", "filter", "emit", "done"}
OwnerPc == {"ctor", "made", "listening", "running", "resetAudio", "seek", "fileFlag",
            "videoFlag", "audioFlag", "joinFile", "joinVideo", "joinAudio", "dead",
            "undefined"}

(* The type of every variable of the reader and its threads. *)
TypeOK ==
  /\ pos \in 1..(Len(File) + 1)
  /\ hand \in 0..Len(File)
  /\ queue \in [Streams -> Seq(Packets)]
  /\ busy \in [Streams -> 0..Len(File)]
  /\ missed \in [Streams -> Seq(Packets)]
  /\ delivered \in [Streams -> Seq(Packets)]
  /\ fileFinish \in BOOLEAN
  /\ finish \in [Streams -> BOOLEAN]
  /\ abort \in BOOLEAN /\ listener \in BOOLEAN /\ closeCb \in BOOLEAN
  /\ haveReport \in BOOLEAN
  /\ closes \in Nat
  /\ rpc \in ReaderPc
  /\ spc \in [Streams -> SyncPc]
  /\ opc \in OwnerPc
  /\ resets \in 0..MaxResets

(* Where the packets of a stream are that were kept: delivered, with the   *)
(* stream's thread, on its list, with the file thread, oldest first.       *)
One(p) == IF p = 0 THEN <<>> ELSE <<p>>
Mine(s) == IF hand # 0 /\ File[hand] = s THEN One(hand) ELSE <<>>
Track(s) == delivered[s] \o One(busy[s]) \o queue[s] \o Mine(s)

StreamPackets(s, n) == {i \in 1..n : File[i] = s /\ Wanted(i)}
LastMissed(s) == IF missed[s] = <<>> THEN 0 ELSE missed[s][Len(missed[s])]

(* The packets of a stream read behind the last one that was freed for     *)
(* want of a listener, each of them once and in file order.                *)
KeptInOrder(s) ==
  /\ \A i, j \in DOMAIN Track(s) : i < j => Track(s)[i] < Track(s)[j]
  /\ {Track(s)[i] : i \in DOMAIN Track(s)} = StreamPackets(s, pos - 1) \ 1..LastMissed(s)

(* The stream threads free what they pop before SetDataListner has stored  *)
(* the listener; those packets never reach anybody.  They are the only     *)
(* ones that do not: they are the first ones of their stream, none follows *)
(* once the listener is there, and no later packet is lost, repeated or    *)
(* overtaken on its way over three threads to the listener, up to the end  *)
(* of the destructor.                                                      *)
OnlyEarlyOnesLost ==
  [](\A s \in Streams : KeptInOrder(s)) /\ [][listener => missed' = missed]_vars

(* The owner is called back only when the whole file has been read and     *)
(* every packet of it has left the lists and the threads, so that main may *)
(* end the process without cutting the stream short.  (A call back during  *)
(* Reset, which takes the flags back one by one, is not judged.)           *)
AllPlayed ==
  /\ pos > Len(File) /\ hand = 0
  /\ \A s \in Streams : busy[s] = 0 /\ queue[s] = <<>>

CloseOnlyWhenPlayed == [][closes' > closes /\ opc = "running" => AllPlayed]_vars

(* The owner is called back once per play of the file. *)
CloseOncePerPlay == closes <= resets + 1

(* The destructor's loop over audio_list_ pops video_list_; that never     *)
(* happens when the owner waits for the call back, as Test/main.cpp does.  *)
DestructorDefined == opc # "undefined"

(* A destructor that has started gets past its three joins, wherever the   *)
(* threads were: it notifies nobody, so waits have to end by their own     *)
(* timeout.  What follows the last join is DestructorDefined's matter: the *)
(* loop over audio_list_ does not end when that list is not empty.         *)
JoinsReturn ==
  (opc = "joinFile") ~> (opc \notin {"joinFile", "joinVideo", "joinAudio"})

(* The reader as its listener sees it: each stream in order, without gaps, *)
(* and the end only after the last packet of every stream.                 *)
Passed(s) == missed[s] \o delivered[s]
LastPassed(s) == IF Passed(s) = <<>> THEN 0 ELSE Passed(s)[Len(Passed(s))]

PB == INSTANCE Playback WITH
        place <- [s \in Streams |-> LastPassed(s)],
        heard <- delivered,
        attached <- listener,
        over <- closes > 0

ReaderIsPlayback == PB!Spec
=============================================================================
