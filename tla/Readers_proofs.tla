--------------------------- MODULE Readers_proofs ---------------------------
(***************************************************************************)
(* Proofs about the readers: MediaReader, for every file, every position   *)
(* of the audio stream and every number of Resets; RtspProxy, for any      *)
(* number of connections and of intervals probed; and RtspClient, for      *)
(* every description and stream.                                           *)
(***************************************************************************)
EXTENDS MediaReader, RtspProxy, RtspClient, TLAPS, SequenceTheorems, FiniteSetTheorems, WellFoundedInduction

LEMMA FileProperties ==
  /\ Len(File) \in Nat
  /\ \A i \in 1..Len(File) : File[i] \in Streams \cup {"other"}
BY ReaderAssumption

(* A packet is in a thread's hands exactly while the thread is at work on  *)
(* it.  TypeOK is not inductive without this: the packet 0 could be pushed *)
(* on a list or handed to the listener.                                    *)
Custody ==
  /\ rpc = "push" <=> hand # 0
  /\ hand # 0 => Wanted(hand)
  /\ \A s \in Streams : spc[s] \in {"filter", "emit"} <=> busy[s] # 0
  /\ opc = "ctor" => spc["audio"] = "unborn"

TypeInv == TypeOK /\ Custody

LEMMA TypeInvInit == Init => TypeInv
<1> SUFFICES ASSUME Init PROVE TypeInv
  OBVIOUS
<1>1. /\ 1 \in 1..(Len(File) + 1) /\ 0 \in 0..Len(File) /\ 0 \in 0..MaxResets
  BY FileProperties, ReaderAssumption
<1>2. <<>> \in Seq(Packets)
  OBVIOUS
<1>3. TypeOK
  BY <1>1, <1>2 DEF Init, TypeOK, Streams, ReaderPc, SyncPc, OwnerPc
<1>4. Custody
  BY DEF Init, Custody, Streams
<1>5. QED
  BY <1>3, <1>4 DEF TypeInv

LEMMA TypeInvReader == TypeInv /\ Reader => TypeInv'
<1> SUFFICES ASSUME TypeInv, Reader PROVE TypeInv'
  OBVIOUS
<1> USE FileProperties DEF TypeInv, TypeOK, Custody, Packets, ReaderPc, flow, flags, report
<1>1. CASE ReaderTop
  BY <1>1 DEF ReaderTop
<1>2. CASE ReaderPoll
  <2>1. CASE MustReport
    BY <1>2, <2>1 DEF ReaderPoll
  <2>2. CASE ~MustReport
    BY <1>2, <2>2 DEF ReaderPoll
  <2>3. QED
    BY <2>1, <2>2
<1>3. CASE ReadPacket
  <2>1. pos' \in 1..(Len(File) + 1)
    BY <1>3 DEF ReadPacket
  <2>2. hand = 0
    BY <1>3 DEF ReadPacket
  <2>3. CASE Wanted(pos)
    BY <1>3, <2>1, <2>3 DEF ReadPacket, Wanted
  <2>4. CASE ~Wanted(pos)
    BY <1>3, <2>1, <2>2, <2>4 DEF ReadPacket, Wanted
  <2>5. QED
    BY <2>3, <2>4
<1>4. CASE ReadEnd
  BY <1>4 DEF ReadEnd
<1>5. CASE SetFileFinish
  BY <1>5 DEF SetFileFinish
<1>6. CASE PushPacket
  <2>1. hand \in Packets
    BY <1>6 DEF PushPacket
  <2>2. File[hand] \in Streams
    BY <1>6 DEF PushPacket, Wanted, Streams
  <2>3. Append(queue[File[hand]], hand) \in Seq(Packets)
    BY <2>1, <2>2, AppendProperties
  <2>4. queue' \in [Streams -> Seq(Packets)]
    BY <1>6, <2>3 DEF PushPacket, Push
  <2>5. QED
    BY <1>6, <2>4 DEF PushPacket
<1>7. QED
  BY <1>1, <1>2, <1>3, <1>4, <1>5, <1>6 DEF Reader

LEMMA TypeInvSync == ASSUME NEW s \in Streams PROVE TypeInv /\ Sync(s) => TypeInv'
<1> SUFFICES ASSUME TypeInv, Sync(s) PROVE TypeInv'
  OBVIOUS
<1> USE FileProperties DEF TypeInv, TypeOK, Custody, Packets, SyncPc, flow, flags, report, Goto
<1>1. CASE SyncTop(s)
  BY <1>1 DEF SyncTop
<1>2. CASE SyncDrained(s)
  BY <1>2 DEF SyncDrained
<1>3. CASE SyncFinish(s)
  BY <1>3 DEF SyncFinish
<1>4. CASE SyncPop(s)
  <2>1. /\ Head(queue[s]) \in Packets
        /\ Tail(queue[s]) \in Seq(Packets)
    BY <1>4, HeadTailProperties DEF SyncPop
  <2>2. queue' \in [Streams -> Seq(Packets)] /\ busy' \in [Streams -> 0..Len(File)]
    BY <1>4, <2>1 DEF SyncPop
  <2>3. QED
    BY SMTT(30), <1>4, <2>1, <2>2 DEF SyncPop
<1>5. CASE SyncWait(s)
  BY <1>5 DEF SyncWait
<1>6. CASE SyncWake(s)
  BY <1>6 DEF SyncWake
<1>7. CASE SyncFilter(s)
  <2>1. /\ spc[s] = "filter"
        /\ UNCHANGED <<pos, hand, queue, missed, delivered, flags, report, rpc, opc, resets>>
        /\ \/ busy' = [busy EXCEPT ![s] = 0] /\ Goto(s, "top")
           \/ busy' = busy /\ Goto(s, "emit")
    BY <1>7, Zenon DEF SyncFilter
  <2>2. CASE busy' = [busy EXCEPT ![s] = 0] /\ Goto(s, "top")
    BY <2>1, <2>2
  <2>3. CASE busy' = busy /\ Goto(s, "emit")
    BY <2>1, <2>3
  <2>4. QED
    BY <2>1, <2>2, <2>3, Zenon
<1>8. CASE SyncEmit(s)
  <2>1. busy[s] \in Packets
    BY <1>8 DEF SyncEmit
  <2>2. /\ Append(missed[s], busy[s]) \in Seq(Packets)
        /\ Append(delivered[s], busy[s]) \in Seq(Packets)
    BY <2>1, AppendProperties
  <2>3. /\ missed' \in [Streams -> Seq(Packets)]
        /\ delivered' \in [Streams -> Seq(Packets)]
    BY <1>8, <2>2 DEF SyncEmit
  <2>4. /\ busy' \in [Streams -> 0..Len(File)]
        /\ spc' \in [Streams -> SyncPc]
        /\ \A t \in Streams \ {s} : busy'[t] = busy[t] /\ spc'[t] = spc[t]
        /\ spc[s] # "unborn" /\ spc'[s] = "top" /\ busy'[s] = 0
    BY <1>8 DEF SyncEmit
  <2>5. /\ spc[s] = "emit"
        /\ UNCHANGED <<pos, hand, queue, flags, report, rpc, opc, resets>>
    BY <1>8 DEF SyncEmit
  <2>6. TypeOK'
    BY <2>3, <2>4, <2>5
  <2>7. Custody'
    BY <2>4, <2>5 DEF Wanted, Streams
  <2>8. QED
    BY <2>6, <2>7
<1>9. QED
  BY <1>1, <1>2, <1>3, <1>4, <1>5, <1>6, <1>7, <1>8 DEF Sync

LEMMA TypeInvOwner == TypeInv /\ Owner => TypeInv'
<1> SUFFICES ASSUME TypeInv, Owner PROVE TypeInv'
  OBVIOUS
<1> USE FileProperties, ReaderAssumption
    DEF TypeInv, TypeOK, Custody, OwnerPc, flow, flags, report
<1>0. <<>> \in Seq(Packets)
  OBVIOUS
<1>1. CASE StartAudio
  <2>1. CASE AudioThread
    BY <1>1, <2>1 DEF StartAudio, SyncPc, Streams
  <2>2. CASE ~AudioThread
    BY <1>1, <2>2 DEF StartAudio, Streams
  <2>3. QED
    BY <2>1, <2>2
<1>2. CASE SetListner
  BY <1>2 DEF SetListner
<1>3. CASE SetCloseCb
  BY <1>3 DEF SetCloseCb
<1>4. CASE ResetStart
  <2>1. resets' \in 0..MaxResets
    BY <1>4 DEF ResetStart
  <2>2. queue' \in [Streams -> Seq(Packets)]
    BY <1>0, <1>4 DEF ResetStart, ResetList
  <2>3. QED
    BY <1>4, <2>1, <2>2 DEF ResetStart, ResetList
<1>5. CASE ResetAudio
  BY <1>0, <1>5 DEF ResetAudio, ResetList
<1>6. CASE ResetSeek
  BY <1>6 DEF ResetSeek
<1>7. CASE ResetFileFlag
  BY <1>7 DEF ResetFileFlag
<1>8. CASE ResetVideoFlag
  BY <1>8 DEF ResetVideoFlag
<1>9. CASE ResetAudioFlag
  BY <1>9 DEF ResetAudioFlag
<1>10. CASE Destroy
  BY <1>10 DEF Destroy
<1>11. CASE JoinFile
  BY <1>11 DEF JoinFile
<1>12. CASE JoinVideo
  BY <1>0, <1>12 DEF JoinVideo
<1>13. CASE JoinAudio
  BY <1>13 DEF JoinAudio
<1>14. QED
  BY <1>1, <1>2, <1>3, <1>4, <1>5, <1>6, <1>7, <1>8, <1>9, <1>10, <1>11, <1>12, <1>13
     DEF Owner, Setup, Reset, Teardown

LEMMA TypeInvStep == TypeInv /\ [Next]_vars => TypeInv'
<1>1. TypeInv /\ UNCHANGED vars => TypeInv'
  BY DEF TypeInv, TypeOK, Custody, vars
<1>2. QED
  BY <1>1, TypeInvReader, TypeInvSync, TypeInvOwner DEF Next

LEMMA TypeInvariant == SafeSpec => []TypeInv
BY TypeInvInit, TypeInvStep, PTL DEF SafeSpec

(* Every variable keeps its type: in particular the file position never    *)
(* runs past the end of the file, and the lists hold packets of the file.  *)
THEOREM TypeCorrect == SafeSpec => []TypeOK
<1>1. TypeInv => TypeOK
  BY DEF TypeInv
<1>2. QED
  BY <1>1, TypeInvariant, PTL

-----------------------------------------------------------------------------
(***************************************************************************)
(* The reader without Reset, and not with the audio stream at position 0.  *)
(* Why the call back comes last: file_finish_ is set by the thread that    *)
(* pushes, after its last push; a stream thread sets its own flag only at  *)
(* the head of its loop, with the list's mutex held, when it has nothing   *)
(* in hand.  So what the flags say is stable.                              *)
(***************************************************************************)
ResetPc == {"resetAudio", "seek", "fileFlag", "videoFlag", "audioFlag"}
FileDone == pos > Len(File) /\ rpc \in {"top", "poll", "done"}
Threaded(s) == s = "video" \/ AudioThread

PlayInv ==
  /\ opc \notin ResetPc
  /\ rpc = "eof" => pos > Len(File)
  /\ fileFinish => FileDone
  /\ \A s \in Streams :
        /\ spc[s] = "finish" => fileFinish /\ queue[s] = <<>>
        /\ finish[s] => queue[s] = <<>> /\ busy[s] = 0
        /\ finish[s] /\ Threaded(s) => fileFinish
        /\ ~Threaded(s) => queue[s] = <<>> /\ spc[s] = "unborn"

LEMMA PlayInvInit == Init => PlayInv
BY DEF Init, PlayInv, ResetPc, Streams, Threaded

LEMMA PlayInvReader ==
  ASSUME AudioIndex # 0, TypeInv, PlayInv, Reader
  PROVE  PlayInv'
<1> USE DEF PlayInv, FileDone, Threaded, flow, flags, report
<1>1. CASE ReaderTop
  BY <1>1 DEF ReaderTop
<1>2. CASE ReaderPoll
  BY <1>2 DEF ReaderPoll
<1>3. CASE ReadPacket
  <2>1. ~fileFinish
    BY <1>3 DEF ReadPacket
  <2>2. QED
    BY <1>3, <2>1 DEF ReadPacket, TypeInv, TypeOK
<1>4. CASE ReadEnd
  BY <1>4 DEF ReadEnd
<1>5. CASE SetFileFinish
  BY <1>5 DEF SetFileFinish
<1>6. CASE PushPacket
  <2>1. /\ ~fileFinish
        /\ hand # 0 /\ Wanted(hand) /\ File[hand] \in Streams
    BY <1>6 DEF PushPacket, TypeInv, Custody, Wanted, Streams
  <2>2. Threaded(File[hand])
    BY <2>1, ReaderAssumption DEF Wanted, HaveAudio, AudioThread
  <2>3. \A s \in Streams \ {File[hand]} : queue'[s] = queue[s]
    BY <1>6 DEF PushPacket, TypeInv, TypeOK
  <2>4. ~finish[File[hand]] /\ spc[File[hand]] # "finish"
    BY <2>1, <2>2
  <2>5. UNCHANGED <<pos, busy, flags, spc, opc>> /\ rpc' = "top"
    BY <1>6 DEF PushPacket
  <2>6. QED
    BY <2>1, <2>2, <2>3, <2>4, <2>5
<1>7. QED
  BY <1>1, <1>2, <1>3, <1>4, <1>5, <1>6 DEF Reader

LEMMA PlayInvSync ==
  ASSUME TypeInv, PlayInv, NEW s \in Streams, Sync(s)
  PROVE  PlayInv'
<1> USE DEF PlayInv, FileDone, Threaded, flow, flags, report, Goto, TypeInv, TypeOK, SyncPc
<1>1. CASE SyncTop(s)
  BY <1>1 DEF SyncTop
<1>2. CASE SyncDrained(s)
  BY <1>2 DEF SyncDrained, Drained
<1>3. CASE SyncFinish(s)
  BY <1>3 DEF SyncFinish, Custody
<1>4. CASE SyncPop(s)
  BY <1>4 DEF SyncPop
<1>5. CASE SyncWait(s)
  BY <1>5 DEF SyncWait
<1>6. CASE SyncWake(s)
  BY <1>6 DEF SyncWake
<1>7. CASE SyncFilter(s)
  BY <1>7 DEF SyncFilter, Custody
<1>8. CASE SyncEmit(s)
  BY <1>8 DEF SyncEmit, Custody
<1>9. QED
  BY <1>1, <1>2, <1>3, <1>4, <1>5, <1>6, <1>7, <1>8 DEF Sync

LEMMA PlayInvOwner ==
  ASSUME MaxResets = 0, TypeInv, PlayInv, Owner
  PROVE  PlayInv'
<1> USE DEF PlayInv, FileDone, Threaded, flow, flags, report, ResetPc
<1>1. CASE StartAudio
  BY <1>1 DEF StartAudio, Streams, TypeInv, TypeOK, Custody, SyncPc
<1>2. CASE SetListner
  BY <1>2 DEF SetListner
<1>3. CASE SetCloseCb
  BY <1>3 DEF SetCloseCb
<1>4. CASE Reset
  BY <1>4, ReaderAssumption
     DEF Reset, ResetStart, ResetAudio, ResetList, ResetSeek, ResetFileFlag,
         ResetVideoFlag, ResetAudioFlag, TypeInv, TypeOK
<1>5. CASE Destroy
  BY <1>5 DEF Destroy
<1>6. CASE JoinFile
  BY <1>6 DEF JoinFile
<1>7. CASE JoinVideo
  BY <1>7 DEF JoinVideo, TypeInv, TypeOK
<1>8. CASE JoinAudio
  BY <1>8 DEF JoinAudio
<1>9. QED
  BY <1>1, <1>2, <1>3, <1>4, <1>5, <1>6, <1>7, <1>8 DEF Owner, Setup, Teardown

LEMMA PlayInvariant ==
  ASSUME MaxResets = 0, AudioIndex # 0
  PROVE  SafeSpec => []PlayInv
<1>1. TypeInv /\ PlayInv /\ [Next]_vars => PlayInv'
  <2>1. PlayInv /\ UNCHANGED vars => PlayInv'
    BY DEF PlayInv, FileDone, vars
  <2>2. QED
    BY <2>1, PlayInvReader, PlayInvSync, PlayInvOwner DEF Next
<1>2. QED
  BY <1>1, PlayInvInit, TypeInvariant, PTL DEF SafeSpec

LEMMA PlayedAtReport ==
  ASSUME AudioIndex # 0, TypeInv, PlayInv, ReaderPoll, MustReport
  PROVE  AllPlayed
<1>1. finish["video"] /\ finish["audio"] /\ rpc = "poll"
  BY DEF MustReport, ReaderPoll
<1>2. fileFinish /\ \A s \in Streams : queue[s] = <<>> /\ busy[s] = 0
  BY <1>1 DEF PlayInv, Threaded, Streams
<1>3. pos > Len(File) /\ hand = 0
  BY <1>1, <1>2 DEF PlayInv, FileDone, TypeInv, Custody
<1>4. QED
  BY <1>2, <1>3 DEF AllPlayed

(* The owner is called back only when the file is read to its end and      *)
(* every packet of it has left the lists and the threads.                  *)
THEOREM CloseComesLast ==
  ASSUME MaxResets = 0, AudioIndex # 0
  PROVE  SafeSpec => CloseOnlyWhenPlayed
<1>1. TypeInv /\ PlayInv /\ [Next]_vars => [closes' > closes /\ opc = "running" => AllPlayed]_vars
  <2> SUFFICES ASSUME TypeInv, PlayInv, Next, closes' > closes
               PROVE  AllPlayed
    OBVIOUS
  <2>1. ReaderPoll /\ MustReport
    <3>1. closes' # closes
      BY DEF TypeInv, TypeOK
    <3>2. \A s \in Streams : ~Sync(s)
      BY <3>1 DEF Sync, SyncTop, SyncDrained, SyncFinish, SyncPop, SyncWait, SyncWake,
                  SyncFilter, SyncEmit, report
    <3>3. ~Owner
      BY <3>1 DEF Owner, Setup, StartAudio, SetListner, SetCloseCb, Reset, ResetStart,
                  ResetAudio, ResetList, ResetSeek, ResetFileFlag, ResetVideoFlag,
                  ResetAudioFlag, Teardown, Destroy, JoinFile, JoinVideo, JoinAudio, report
    <3>4. ReaderPoll
      BY <3>1, <3>2, <3>3 DEF Next, Reader, ReaderTop, ReadPacket, ReadEnd, SetFileFinish,
                              PushPacket, report
    <3>5. QED
      BY <3>1, <3>4 DEF ReaderPoll, report
  <2>2. QED
    BY <2>1, PlayedAtReport
<1>2. QED
  BY <1>1, TypeInvariant, PlayInvariant, PTL DEF SafeSpec, CloseOnlyWhenPlayed

-----------------------------------------------------------------------------
(***************************************************************************)
(* The reader as main drives it: destroyed only after the call back.       *)
(* Since the call back comes last, the destructor finds nothing to throw   *)
(* away, and every hand-over between two threads only moves a packet from  *)
(* one part of its stream's way, Way(s), to the next.                      *)
(***************************************************************************)
Way(s) == missed[s] \o delivered[s] \o One(busy[s]) \o queue[s] \o Mine(s)

DestroyPc == {"joinFile", "joinVideo", "joinAudio", "dead", "undefined"}

ClosedInv ==
  /\ closes > 0 => finish["video"] /\ finish["audio"]
  /\ abort \/ opc \in DestroyPc => closes > 0
  /\ ~listener => \A s \in Streams : delivered[s] = <<>>
  /\ opc # "undefined"

LEMMA ClosedInvStep ==
  ASSUME MaxResets = 0, ~EarlyDestroy, TypeInv, PlayInv, ClosedInv, [Next]_vars
  PROVE  ClosedInv'
<1> USE DEF ClosedInv, DestroyPc, flow, flags, report, TypeInv, TypeOK
<1>1. CASE ReaderPoll
  <2>1. CASE MustReport
    BY <1>1, <2>1 DEF ReaderPoll, MustReport
  <2>2. CASE ~MustReport
    BY <1>1, <2>2 DEF ReaderPoll
  <2>3. QED
    BY <2>1, <2>2
<1>2. CASE ReaderTop \/ ReadPacket \/ ReadEnd \/ SetFileFinish \/ PushPacket
  <2>1. UNCHANGED <<closes, finish, abort, listener, delivered, opc>>
    BY <1>2 DEF ReaderTop, ReadPacket, ReadEnd, SetFileFinish, PushPacket
  <2>2. QED
    BY <2>1
<1>3. ASSUME NEW s \in Streams, SyncFinish(s) PROVE ClosedInv'
  BY <1>3 DEF SyncFinish, Streams
<1>4. ASSUME NEW s \in Streams, SyncEmit(s) PROVE ClosedInv'
  <2>1. UNCHANGED <<flags, report, opc>>
    BY <1>4 DEF SyncEmit
  <2>2. ~listener => delivered' = delivered
    BY <1>4 DEF SyncEmit
  <2>3. QED
    BY <2>1, <2>2
<1>5. ASSUME NEW s \in Streams, Sync(s), ~SyncFinish(s), ~SyncEmit(s) PROVE ClosedInv'
  BY <1>5 DEF Sync, SyncTop, SyncDrained, SyncPop, SyncWait, SyncWake, SyncFilter
<1>6. CASE Setup
  <2>1. CASE StartAudio
    BY <2>1 DEF StartAudio, Streams
  <2>2. CASE SetListner \/ SetCloseCb
    BY <2>2 DEF SetListner, SetCloseCb
  <2>3. QED
    BY <1>6, <2>1, <2>2 DEF Setup
<1>7. CASE Reset
  BY <1>7, ReaderAssumption
     DEF Reset, ResetStart, ResetAudio, ResetList, ResetSeek, ResetFileFlag,
         ResetVideoFlag, ResetAudioFlag, PlayInv, ResetPc
<1>8. CASE Teardown
  BY <1>8 DEF Teardown, Destroy, JoinFile, JoinVideo, JoinAudio, PlayInv, Streams
<1>9. CASE UNCHANGED vars
  BY <1>9 DEF vars
<1>10. QED
  BY <1>1, <1>2, <1>3, <1>4, <1>5, <1>6, <1>7, <1>8, <1>9 DEF Next, Reader, Owner

LEMMA ClosedInvariant ==
  ASSUME MaxResets = 0, AudioIndex # 0, ~EarlyDestroy
  PROVE  SafeSpec => []ClosedInv
<1>1. Init => ClosedInv
  BY DEF Init, ClosedInv, DestroyPc
<1>2. QED
  BY <1>1, ClosedInvStep, TypeInvariant, PlayInvariant, PTL DEF SafeSpec

(* The destructor never pops the empty video_list_ in place of audio_list_. *)
THEOREM DestructorIsDefined ==
  ASSUME MaxResets = 0, AudioIndex # 0, ~EarlyDestroy
  PROVE  SafeSpec => []DestructorDefined
<1>1. ClosedInv => DestructorDefined
  BY DEF ClosedInv, DestructorDefined
<1>2. QED
  BY <1>1, ClosedInvariant, PTL

(* Sequence facts: moving a packet from a part to the next keeps the whole. *)
LEMMA MoveToList ==
  ASSUME NEW S, NEW a \in Seq(S), NEW q \in Seq(S), NEW p \in S
  PROVE  (a \o q) \o <<p>> = (a \o Append(q, p)) \o <<>>
<1>1. /\ <<p>> \in Seq(S) /\ q \o <<p>> \in Seq(S)
      /\ Append(q, p) = q \o <<p>>
  BY AppendIsConcat
<1>2. (a \o q) \o <<p>> = a \o (q \o <<p>>)
  BY <1>1, ConcatAssociative
<1>3. a \o (q \o <<p>>) \in Seq(S)
  BY <1>1
<1>4. QED
  BY <1>1, <1>2, <1>3, ConcatEmptySeq

LEMMA MoveToThread ==
  ASSUME NEW S, NEW a \in Seq(S), NEW q \in Seq(S), q # <<>>
  PROVE  (a \o <<>>) \o q = (a \o <<Head(q)>>) \o Tail(q)
<1>1. Head(q) \in S /\ Tail(q) \in Seq(S) /\ <<Head(q)>> \in Seq(S)
  BY HeadTailProperties
<1>2. <<Head(q)>> \o Tail(q) = q
  <2>1. Len(<<Head(q)>> \o Tail(q)) = Len(q)
    BY <1>1, ConcatProperties, HeadTailProperties
  <2>2. \A i \in 1..Len(q) : (<<Head(q)>> \o Tail(q))[i] = q[i]
    BY <1>1, ConcatProperties, HeadTailProperties
  <2>3. QED
    BY <1>1, <2>1, <2>2, SeqEqual, ConcatProperties
<1>3. (a \o <<Head(q)>>) \o Tail(q) = a \o (<<Head(q)>> \o Tail(q))
  BY <1>1, ConcatAssociative
<1>4. QED
  BY <1>2, <1>3, ConcatEmptySeq

LEMMA WayType ==
  ASSUME TypeInv, NEW s \in Streams
  PROVE  /\ missed[s] \in Seq(Packets) /\ delivered[s] \in Seq(Packets)
         /\ queue[s] \in Seq(Packets)
         /\ One(busy[s]) \in Seq(Packets) /\ Mine(s) \in Seq(Packets)
         /\ Way(s) \in Seq(Packets)
<1>1. \A p \in 0..Len(File) : One(p) \in Seq(Packets)
  <2>1. \A p \in Packets : <<p>> \in Seq(Packets)
    OBVIOUS
  <2>2. \A p \in 0..Len(File) : p = 0 \/ p \in Packets
    BY FileProperties DEF Packets
  <2>3. QED
    BY <2>1, <2>2 DEF One
<1>2. /\ missed[s] \in Seq(Packets) /\ delivered[s] \in Seq(Packets)
      /\ queue[s] \in Seq(Packets) /\ busy[s] \in 0..Len(File) /\ hand \in 0..Len(File)
  BY DEF TypeInv, TypeOK
<1>3. One(busy[s]) \in Seq(Packets) /\ Mine(s) \in Seq(Packets)
  BY <1>1, <1>2 DEF Mine
<1>4. QED
  BY <1>2, <1>3, ConcatProperties DEF Way

(* Every step but a read leaves the whole of each stream's track as it is. *)
LEMMA TrackKeptByPush ==
  ASSUME TypeInv, PushPacket, NEW s \in Streams
  PROVE  Way(s)' = Way(s)
<1>1. hand \in Packets /\ hand # 0
  BY DEF PushPacket, TypeInv, TypeOK, Custody, Packets
<1>2. UNCHANGED <<missed, delivered, busy>> /\ hand' = 0 /\ Mine(s)' = <<>>
  BY DEF PushPacket, Mine
<1>3. CASE File[hand] = s
  <2>1. Mine(s) = <<hand>> /\ queue'[s] = Append(queue[s], hand)
    BY <1>1, <1>3 DEF Mine, One, PushPacket, Push, TypeInv, TypeOK
  <2>2. (missed[s] \o delivered[s]) \o One(busy[s]) \in Seq(Packets)
    BY WayType, ConcatProperties
  <2> DEFINE before == (missed[s] \o delivered[s]) \o One(busy[s])
  <2>3. (before \o queue[s]) \o <<hand>> = (before \o Append(queue[s], hand)) \o <<>>
    BY ZenonT(40), <1>1, <2>2, WayType, MoveToList
  <2>4. Way(s) = (before \o queue[s]) \o <<hand>>
    BY <2>1 DEF Way
  <2>5. Way(s)' = (before \o Append(queue[s], hand)) \o <<>>
    BY <1>2, <2>1 DEF Way
  <2>6. QED
    BY <2>3, <2>4, <2>5
<1>4. CASE File[hand] # s
  <2>1. Mine(s) = <<>> /\ queue'[s] = queue[s]
    BY <1>4 DEF Mine, PushPacket, TypeInv, TypeOK
  <2>2. QED
    BY <1>2, <2>1 DEF Way
<1>5. QED
  BY <1>3, <1>4

LEMMA TrackKeptByPop ==
  ASSUME TypeInv, NEW t \in Streams, SyncPop(t), NEW s \in Streams
  PROVE  Way(s)' = Way(s)
<1>1. UNCHANGED <<missed, delivered, hand>> /\ Mine(s)' = Mine(s)
  BY DEF SyncPop, Mine
<1>2. CASE s = t
  <2>1. /\ queue[s] # <<>> /\ busy[s] = 0
        /\ queue'[s] = Tail(queue[s]) /\ busy'[s] = Head(queue[s])
    BY <1>2 DEF SyncPop, TypeInv, TypeOK, Custody
  <2>2. Head(queue[s]) \in Packets
    BY <2>1, WayType, HeadTailProperties
  <2>3. One(busy[s]) = <<>> /\ One(busy'[s]) = <<Head(queue[s])>>
    BY <2>1, <2>2 DEF One, Packets
  <2>4. missed[s] \o delivered[s] \in Seq(Packets)
    BY WayType, ConcatProperties
  <2>5. QED
    BY ZenonT(40), <1>1, <2>1, <2>3, <2>4, WayType, MoveToThread DEF Way
<1>3. CASE s # t
  <2>1. queue'[s] = queue[s] /\ busy'[s] = busy[s]
    BY <1>3 DEF SyncPop, TypeInv, TypeOK
  <2>2. QED
    BY <1>1, <2>1 DEF Way
<1>4. QED
  BY <1>2, <1>3

LEMMA TrackKeptByEmit ==
  ASSUME TypeInv, ClosedInv, NEW t \in Streams, SyncEmit(t), NEW s \in Streams
  PROVE  Way(s)' = Way(s)
<1>1. UNCHANGED <<queue, hand>> /\ Mine(s)' = Mine(s)
  BY DEF SyncEmit, Mine
<1>2. CASE s = t
  <2>1. busy[s] \in Packets /\ One(busy[s]) = <<busy[s]>> /\ One(busy'[s]) = <<>>
    BY <1>2 DEF SyncEmit, One, TypeInv, TypeOK, Custody, Packets
  <2>2. CASE listener
    <3>1. missed'[s] = missed[s] /\ delivered'[s] = Append(delivered[s], busy[s])
      BY <1>2, <2>2 DEF SyncEmit, TypeInv, TypeOK
    <3>2. (missed[s] \o delivered[s]) \o <<busy[s]>>
            = (missed[s] \o Append(delivered[s], busy[s])) \o <<>>
      BY ZenonT(40), <2>1, WayType, MoveToList
    <3>3. QED
      BY <1>1, <2>1, <3>1, <3>2 DEF Way
  <2>3. CASE ~listener
    <3>1. /\ missed'[s] = Append(missed[s], busy[s])
          /\ delivered'[s] = <<>> /\ delivered[s] = <<>>
      BY <1>2, <2>3 DEF SyncEmit, TypeInv, TypeOK, ClosedInv
    <3>2. /\ missed[s] \o <<>> = missed[s]
          /\ missed[s] \o <<busy[s]>> = Append(missed[s], busy[s])
          /\ Append(missed[s], busy[s]) \in Seq(Packets)
      BY <2>1, WayType, ConcatEmptySeq, AppendIsConcat, AppendProperties
    <3>3. Append(missed[s], busy[s]) \o <<>> = Append(missed[s], busy[s])
      BY <3>2, ConcatEmptySeq
    <3>4. QED
      BY <1>1, <2>1, <3>1, <3>2, <3>3 DEF Way
  <2>4. QED
    BY <2>2, <2>3
<1>3. CASE s # t
  <2>1. missed'[s] = missed[s] /\ delivered'[s] = delivered[s] /\ busy'[s] = busy[s]
    BY <1>3 DEF SyncEmit, TypeInv, TypeOK
  <2>2. QED
    BY <1>1, <2>1 DEF Way
<1>4. QED
  BY <1>2, <1>3

(* What a track of the packets of s among the first n packets must be.     *)
Complete(t, s, n) ==
  /\ t \in Seq(Packets)
  /\ \A i, j \in DOMAIN t : i < j => t[i] < t[j]
  /\ {t[i] : i \in DOMAIN t} = StreamPackets(s, n)

(* The whole way of a stream: what was missed, then what was kept.         *)
TrackInv == \A s \in Streams : Complete(Way(s), s, pos - 1)

LEMMA CompleteAppend ==
  ASSUME NEW s \in Streams, NEW n \in Packets, File[n] = s, Wanted(n),
         NEW t, Complete(t, s, n - 1)
  PROVE  Complete(Append(t, n), s, n)
<1> DEFINE u == Append(t, n)
<1>1. t \in Seq(Packets) /\ Len(t) \in Nat /\ DOMAIN t = 1..Len(t)
  BY LenProperties DEF Complete
<1>2. /\ u \in Seq(Packets) /\ Len(u) = Len(t) + 1
      /\ DOMAIN u = 1..(Len(t) + 1)
      /\ \A i \in 1..Len(t) : u[i] = t[i]
      /\ u[Len(t) + 1] = n
  BY <1>1, AppendProperties, LenProperties
<1>3. n \in Nat /\ n >= 1
  BY FileProperties DEF Packets
<1>4. \A i \in 1..Len(t) : t[i] \in 1..(n - 1) /\ t[i] \in StreamPackets(s, n - 1)
  BY <1>1, <1>3 DEF Complete, StreamPackets
<1>5. \A i, j \in DOMAIN u : i < j => u[i] < u[j]
  <2> SUFFICES ASSUME NEW i \in 1..(Len(t) + 1), NEW j \in 1..(Len(t) + 1), i < j
               PROVE  u[i] < u[j]
    BY <1>2
  <2>1. CASE j = Len(t) + 1
    <3>1. i \in 1..Len(t)
      BY <1>1, <2>1
    <3>2. QED
      BY <1>2, <1>3, <1>4, <2>1, <3>1
  <2>2. CASE j # Len(t) + 1
    <3>1. i \in 1..Len(t) /\ j \in 1..Len(t)
      BY <1>1, <2>2
    <3>2. t[i] < t[j]
      BY <1>1, <3>1 DEF Complete
    <3>3. QED
      BY <1>2, <3>1, <3>2
  <2>3. QED
    BY <2>1, <2>2
<1>6. StreamPackets(s, n) = StreamPackets(s, n - 1) \cup {n}
  BY <1>3 DEF StreamPackets
<1>7. {u[i] : i \in DOMAIN u} = {t[i] : i \in DOMAIN t} \cup {n}
  <2>1. {u[i] : i \in 1..(Len(t) + 1)} = {u[i] : i \in 1..Len(t)} \cup {u[Len(t) + 1]}
    BY <1>1
  <2>2. {u[i] : i \in 1..Len(t)} = {t[i] : i \in 1..Len(t)}
    BY <1>2
  <2>3. QED
    BY <1>1, <1>2, <2>1, <2>2
<1>8. QED
  BY <1>2, <1>5, <1>6, <1>7 DEF Complete

LEMMA TrackRead ==
  ASSUME TypeInv, TrackInv, ReadPacket, NEW s \in Streams
  PROVE  Complete(Way(s), s, pos - 1)'
<1>1. /\ pos \in Packets /\ pos' - 1 = pos /\ hand = 0
      /\ UNCHANGED <<missed, delivered, busy, queue>>
  BY DEF ReadPacket, TypeInv, TypeOK, Custody, Packets
<1>2. Mine(s) = <<>>
  BY <1>1 DEF Mine
<1>3. Complete(Way(s), s, pos - 1)
  BY DEF TrackInv
<1>4. CASE Wanted(pos) /\ File[pos] = s
  <2>1. Mine(s)' = <<pos>>
    BY <1>1, <1>4 DEF Mine, ReadPacket, One, Packets
  <2> DEFINE whole == missed[s] \o delivered[s] \o One(busy[s]) \o queue[s]
  <2>2. whole \in Seq(Packets)
    BY WayType, ConcatProperties
  <2>3. Way(s) = whole \o <<>> /\ Way(s)' = whole \o <<pos>>
    BY <1>1, <1>2, <2>1 DEF Way
  <2>4. Way(s)' = Append(Way(s), pos)
    BY <1>1, <2>2, <2>3, ConcatEmptySeq, AppendIsConcat
  <2>5. Complete(Append(Way(s), pos), s, pos)
    BY <1>1, <1>3, <1>4, CompleteAppend
  <2>6. QED
    BY <1>1, <2>4, <2>5 DEF Complete, StreamPackets, Packets, Wanted, HaveAudio
<1>5. CASE ~(Wanted(pos) /\ File[pos] = s)
  <2>1. Mine(s)' = <<>>
    BY <1>1, <1>5 DEF Mine, ReadPacket
  <2>2. Way(s)' = Way(s)
    BY <1>1, <1>2, <2>1 DEF Way
  <2>3. StreamPackets(s, pos) = StreamPackets(s, pos - 1)
    BY <1>1, <1>5 DEF StreamPackets, Packets
  <2>4. QED
    BY <1>1, <1>3, <2>2, <2>3 DEF Complete, StreamPackets, Packets, Wanted, HaveAudio
<1>6. QED
  BY <1>4, <1>5

LEMMA TrackStep ==
  ASSUME MaxResets = 0, TypeInv, PlayInv, ClosedInv, TrackInv, [Next]_vars
  PROVE  TrackInv'
<1>1. ASSUME pos' = pos, \A s \in Streams : Way(s)' = Way(s) PROVE TrackInv'
  BY <1>1 DEF TrackInv, Complete, StreamPackets, Packets, Wanted, HaveAudio
<1>2. CASE UNCHANGED <<pos, hand, missed, delivered, busy, queue>>
  BY <1>1, <1>2 DEF Way, Mine
<1>3. CASE ReadPacket
  BY <1>3, TrackRead DEF TrackInv
<1>4. CASE PushPacket
  BY <1>1, <1>4, TrackKeptByPush DEF PushPacket
<1>5. ASSUME NEW t \in Streams, SyncPop(t) PROVE TrackInv'
  BY <1>1, <1>5, TrackKeptByPop DEF SyncPop
<1>6. ASSUME NEW t \in Streams, SyncEmit(t) PROVE TrackInv'
  BY <1>1, <1>6, TrackKeptByEmit DEF SyncEmit
<1>7. ASSUME NEW t \in Streams, SyncFilter(t) PROVE TrackInv'
  <2>1. ~abort
    BY <1>7 DEF SyncFilter, TypeInv, TypeOK, Custody, ClosedInv, PlayInv, Streams
  <2>2. QED
    BY <1>2, <1>7, <2>1 DEF SyncFilter
<1>8. ASSUME JoinVideo PROVE TrackInv'
  <2>1. queue["video"] = <<>>
    BY <1>8 DEF JoinVideo, ClosedInv, DestroyPc, PlayInv, Streams
  <2>2. queue' = queue
    BY <1>8, <2>1 DEF JoinVideo, TypeInv, TypeOK, Streams
  <2>3. QED
    BY <1>2, <1>8, <2>2 DEF JoinVideo
<1>9. CASE Reset
  BY <1>9, ReaderAssumption
     DEF Reset, ResetStart, ResetAudio, ResetList, ResetSeek, ResetFileFlag,
         ResetVideoFlag, ResetAudioFlag, PlayInv, ResetPc, TypeInv, TypeOK
<1>10. CASE ReaderTop \/ ReaderPoll \/ ReadEnd \/ SetFileFinish
  BY <1>2, <1>10 DEF ReaderTop, ReaderPoll, ReadEnd, SetFileFinish, flow
<1>11. ASSUME NEW t \in Streams, Sync(t), ~SyncPop(t), ~SyncEmit(t), ~SyncFilter(t)
       PROVE  TrackInv'
  BY <1>2, <1>11 DEF Sync, SyncTop, SyncDrained, SyncFinish, SyncWait, SyncWake, flow
<1>12. CASE Setup \/ Destroy \/ JoinFile \/ JoinAudio
  BY <1>2, <1>12 DEF Setup, StartAudio, SetListner, SetCloseCb, Destroy, JoinFile, JoinAudio, flow
<1>13. CASE UNCHANGED vars
  BY <1>2, <1>13 DEF vars
<1>14. QED
  BY <1>3, <1>4, <1>5, <1>6, <1>7, <1>8, <1>9, <1>10, <1>11, <1>12, <1>13
     DEF Next, Reader, Owner, Teardown

LEMMA TrackInvariant ==
  ASSUME MaxResets = 0, AudioIndex # 0, ~EarlyDestroy
  PROVE  SafeSpec => []TrackInv
<1>1. Init => TrackInv
  <2> SUFFICES ASSUME Init, NEW s \in Streams PROVE Complete(Way(s), s, pos - 1)
    BY DEF TrackInv
  <2>1. Way(s) = <<>> /\ pos - 1 = 0
    BY ConcatEmptySeq DEF Init, Way, One, Mine
  <2>2. <<>> \in Seq(Packets) /\ DOMAIN <<>> = {} /\ StreamPackets(s, 0) = {}
    BY DEF StreamPackets
  <2>3. QED
    BY <2>1, <2>2 DEF Complete
<1>2. QED
  BY <1>1, TrackStep, TypeInvariant, PlayInvariant, ClosedInvariant, PTL DEF SafeSpec

(* Sequences of packets are joined in any grouping.                        *)
LEMMA Regrouped ==
  /\ \A x, y \in Seq(Packets) : x \o y \in Seq(Packets)
  /\ \A x, y, z \in Seq(Packets) : (x \o y) \o z = x \o (y \o z)
<1>1. ASSUME NEW x \in Seq(Packets), NEW y \in Seq(Packets), NEW z \in Seq(Packets)
      PROVE  x \o y \in Seq(Packets) /\ (x \o y) \o z = x \o (y \o z)
  BY ONLY x \in Seq(Packets), y \in Seq(Packets), z \in Seq(Packets),
          ConcatAssociative, ConcatProperties
<1>2. QED
  BY <1>1

(* What is behind the last missed packet of a complete way.                *)
LEMMA KeptBehindMissed ==
  ASSUME TypeInv, TrackInv, NEW s \in Streams
  PROVE  KeptInOrder(s)
<1> DEFINE m == missed[s]
           t == Track(s)
           w == Way(s)
<1>1. /\ m \in Seq(Packets) /\ t \in Seq(Packets) /\ w \in Seq(Packets)
      /\ w = m \o t
  <2> DEFINE d == delivered[s]
             b == One(busy[s])
             q == queue[s]
             h == Mine(s)
  <2>1. /\ m \in Seq(Packets) /\ d \in Seq(Packets) /\ b \in Seq(Packets)
        /\ q \in Seq(Packets) /\ h \in Seq(Packets)
    BY WayType
  <2>2. w = (((m \o d) \o b) \o q) \o h /\ t = ((d \o b) \o q) \o h
    BY DEF Way, Track
  <2> HIDE DEF m, d, b, q, h, w, t
  <2>3. t \in Seq(Packets) /\ w = m \o t
    <3> DEFINE db == d \o b
               dbq == db \o q
    <3>1. db \in Seq(Packets)
      BY <2>1, Regrouped, Zenon
    <3>2. (m \o d) \o b = m \o db
      BY <2>1, Regrouped, Zenon
    <3> HIDE DEF db
    <3>3. dbq \in Seq(Packets)
      BY <2>1, <3>1, Regrouped, Zenon
    <3>4. (m \o db) \o q = m \o dbq
      BY <2>1, <3>1, Regrouped, Zenon
    <3> HIDE DEF dbq
    <3>5. dbq \o h \in Seq(Packets)
      BY <2>1, <3>3, Regrouped, Zenon
    <3>6. (m \o dbq) \o h = m \o (dbq \o h)
      BY <2>1, <3>3, Regrouped, Zenon
    <3>7. w = ((m \o db) \o q) \o h
      BY <2>2, <3>2, Zenon
    <3>8. w = m \o (dbq \o h)
      BY <3>4, <3>6, <3>7, Zenon
    <3>9. t = dbq \o h
      BY <2>2, Zenon DEF db, dbq
    <3>10. QED
      BY <3>5, <3>8, <3>9, Zenon
  <2>4. w \in Seq(Packets)
    BY <2>1, <2>3, ConcatProperties
  <2>5. QED
    BY <2>1, <2>3, <2>4
<1>2. /\ Len(m) \in Nat /\ DOMAIN m = 1..Len(m)
      /\ Len(t) \in Nat /\ DOMAIN t = 1..Len(t)
      /\ Len(w) = Len(m) + Len(t) /\ DOMAIN w = 1..(Len(m) + Len(t))
      /\ \A i \in 1..Len(m) : w[i] = m[i]
      /\ \A i \in 1..Len(t) : w[Len(m) + i] = t[i]
      /\ \A i \in 1..Len(w) : w[i] \in Packets
  BY <1>1, ConcatProperties, LenProperties
<1>3. /\ \A i, j \in DOMAIN w : i < j => w[i] < w[j]
      /\ {w[i] : i \in DOMAIN w} = StreamPackets(s, pos - 1)
  BY DEF TrackInv, Complete
<1>4. LastMissed(s) = IF Len(m) = 0 THEN 0 ELSE w[Len(m)]
  BY <1>1, <1>2, EmptySeq DEF LastMissed
<1> HIDE DEF m, t, w
<1>5. \A i, j \in 1..Len(t) : i < j => t[i] < t[j]
  <2> SUFFICES ASSUME NEW i \in 1..Len(t), NEW j \in 1..Len(t), i < j PROVE t[i] < t[j]
    OBVIOUS
  <2>1. /\ Len(m) + i \in DOMAIN w /\ Len(m) + j \in DOMAIN w /\ Len(m) + i < Len(m) + j
    BY <1>2
  <2>2. w[Len(m) + i] < w[Len(m) + j]
    BY <1>3, <2>1
  <2>3. QED
    BY <1>2, <2>2
<1>6. Packets \subseteq Nat \ {0}
  BY FileProperties DEF Packets
<1>7. ASSUME NEW i \in 1..Len(t)
      PROVE  t[i] \in StreamPackets(s, pos - 1) /\ t[i] \notin 1..LastMissed(s)
  <2>1. Len(m) + i \in DOMAIN w /\ w[Len(m) + i] = t[i]
    BY <1>2
  <2>2. t[i] \in StreamPackets(s, pos - 1)
    BY <1>3, <2>1
  <2>3. CASE Len(m) = 0
    BY <1>4, <2>2, <2>3
  <2>4. CASE Len(m) > 0
    <3>1. Len(m) \in DOMAIN w /\ Len(m) < Len(m) + i
      BY <1>2, <2>4
    <3>2. w[Len(m)] < t[i]
      BY <1>3, <2>1, <3>1
    <3>3. w[Len(m)] \in Nat /\ t[i] \in Nat
      BY <1>2, <1>6, <2>1, <3>1
    <3>4. QED
      BY <1>4, <2>2, <2>4, <3>2, <3>3
  <2>5. QED
    BY <1>2, <2>3, <2>4
<1>8. ASSUME NEW p \in StreamPackets(s, pos - 1), p \notin 1..LastMissed(s)
      PROVE  \E i \in 1..Len(t) : p = t[i]
  <2>1. PICK k \in DOMAIN w : p = w[k]
    BY <1>3
  <2>2. CASE k <= Len(m)
    <3>1. Len(m) > 0 /\ Len(m) \in DOMAIN w /\ (k < Len(m) \/ k = Len(m))
      BY <1>2, <2>1, <2>2
    <3>2. w[k] < w[Len(m)] \/ w[k] = w[Len(m)]
      BY <1>3, <2>1, <3>1
    <3>3. w[k] \in Nat \ {0} /\ w[Len(m)] \in Nat
      BY <1>2, <1>6, <2>1, <3>1
    <3>4. QED
      BY <1>4, <1>8, <2>1, <3>1, <3>2, <3>3
  <2>3. CASE k > Len(m)
    <3>1. k - Len(m) \in 1..Len(t) /\ Len(m) + (k - Len(m)) = k
      BY <1>2, <2>1, <2>3
    <3>2. w[k] = t[k - Len(m)]
      BY <1>2, <3>1
    <3>3. QED
      BY <2>1, <3>1, <3>2
  <2>4. QED
    BY <1>2, <2>1, <2>2, <2>3
<1>9. {t[i] : i \in 1..Len(t)} = StreamPackets(s, pos - 1) \ 1..LastMissed(s)
  BY <1>7, <1>8
<1>10. DOMAIN Track(s) = 1..Len(t) /\ Track(s) = t
  BY <1>2 DEF t
<1>11. QED
  BY <1>5, <1>9, <1>10 DEF KeptInOrder

(* Whatever the threads do, the only packets of a stream that never reach  *)
(* the listener are its first ones, freed by a stream thread before        *)
(* SetDataListner; the rest is on its way or there, once and in order.     *)
THEOREM OnlyEarlyPacketsLost ==
  ASSUME MaxResets = 0, AudioIndex # 0, ~EarlyDestroy
  PROVE  SafeSpec => OnlyEarlyOnesLost
<1>1. TypeInv /\ TrackInv => \A s \in Streams : KeptInOrder(s)
  BY KeptBehindMissed
<1>2. [Next]_vars => [listener => missed' = missed]_vars
  BY DEF Next, vars, flow, Reader, ReaderTop, ReaderPoll, ReadPacket, ReadEnd, SetFileFinish,
         PushPacket, Sync, SyncTop, SyncDrained, SyncFinish, SyncPop, SyncWait, SyncWake,
         SyncFilter, SyncEmit, Owner, Setup, StartAudio, SetListner, SetCloseCb, Reset,
         ResetStart, ResetAudio, ResetList, ResetSeek, ResetFileFlag, ResetVideoFlag,
         ResetAudioFlag, Teardown, Destroy, JoinFile, JoinVideo, JoinAudio
<1>3. QED
  BY <1>1, <1>2, TypeInvariant, TrackInvariant, PTL DEF SafeSpec, OnlyEarlyOnesLost

-----------------------------------------------------------------------------
(***************************************************************************)
(* The reader as its listener sees it.  A call back needs a listener; what *)
(* a stream thread emits is the first packet of its stream after those     *)
(* passed on; and when the owner is called back none is left.              *)
(***************************************************************************)
Attached ==
  /\ opc \notin {"ctor", "made"} => listener
  /\ closeCb => listener

LEMMA AttachedInvariant == SafeSpec => []Attached
<1>1. Init => Attached
  BY DEF Init, Attached
<1>2. Attached /\ Reader => Attached'
  <2>1. Reader => UNCHANGED <<opc, listener, closeCb>>
    BY DEF Reader, ReaderTop, ReaderPoll, ReadPacket, ReadEnd, SetFileFinish, PushPacket, flags
  <2>2. QED
    BY <2>1 DEF Attached
<1>3. ASSUME NEW s \in Streams PROVE Attached /\ Sync(s) => Attached'
  BY DEF Attached, Sync, SyncTop, SyncDrained, SyncFinish, SyncPop, SyncWait, SyncWake,
         SyncFilter, SyncEmit, flags
<1>4. Attached /\ Owner => Attached'
  BY DEF Attached, Owner, Setup, StartAudio, SetListner, SetCloseCb, Reset, ResetStart,
         ResetAudio, ResetList, ResetSeek, ResetFileFlag, ResetVideoFlag, ResetAudioFlag,
         Teardown, Destroy, JoinFile, JoinVideo, JoinAudio, flags
<1>5. Attached /\ UNCHANGED vars => Attached'
  BY DEF Attached, vars
<1>6. QED
  <2>1. Attached /\ [Next]_vars => Attached'
    BY <1>2, <1>3, <1>4, <1>5 DEF Next
  <2>2. QED
    BY <1>1, <2>1, PTL DEF SafeSpec

(* The packets of s after the last of p, when p and q are together those   *)
(* of the first n: the items of q, and those after the first n.            *)
LastOf(p) == IF p = <<>> THEN 0 ELSE p[Len(p)]
Later(p, s) == {i \in 1..Len(File) : File[i] = s /\ i > LastOf(p)}
AllWanted == AudioIndex > 0 \/ \A i \in 1..Len(File) : File[i] # "audio"

LEMMA FirstAfter ==
  ASSUME NEW s \in Streams, NEW n \in 0..Len(File), AllWanted,
         NEW p \in Seq(Packets), NEW q \in Seq(Packets), Complete(p \o q, s, n)
  PROVE  /\ q # <<>> => q[1] \in Later(p, s) /\ \A j \in Later(p, s) : q[1] <= j
         /\ q = <<>> /\ n = Len(File) => Later(p, s) = {}
<1> DEFINE t == p \o q
<1>1. /\ Len(p) \in Nat /\ Len(q) \in Nat /\ Len(t) = Len(p) + Len(q)
      /\ DOMAIN t = 1..Len(t) /\ t \in Seq(Packets)
      /\ \A i \in 1..Len(p) : t[i] = p[i]
      /\ \A i \in (Len(p) + 1)..(Len(p) + Len(q)) : t[i] = q[i - Len(p)]
      /\ p = <<>> <=> Len(p) = 0
      /\ q = <<>> <=> Len(q) = 0
  BY ConcatProperties, LenProperties, EmptySeq
<1>2. /\ \A i, j \in 1..Len(t) : i < j => t[i] < t[j]
      /\ {t[i] : i \in 1..Len(t)} = StreamPackets(s, n)
      /\ \A i \in 1..Len(t) : t[i] \in Packets
  BY <1>1, ElementOfSeq DEF Complete
<1> HIDE DEF t
<1>3. Len(File) \in Nat /\ Packets = 1..Len(File)
  BY FileProperties DEF Packets
<1>4. LastOf(p) = (IF Len(p) = 0 THEN 0 ELSE t[Len(p)])
  BY <1>1 DEF LastOf
<1>5. ASSUME NEW j \in Later(p, s), j <= n
      PROVE  \E k \in (Len(p) + 1)..Len(t) : j = t[k]
  <2>1. j \in 1..Len(File) /\ File[j] = s /\ j > LastOf(p)
    BY DEF Later
  <2>2. j \in StreamPackets(s, n)
    <3>1. j \in 1..n
      BY <1>3, <1>5, <2>1
    <3>2. Wanted(j)
      BY <2>1, ReaderAssumption DEF Wanted, HaveAudio, AllWanted, Streams
    <3>3. QED
      BY <2>1, <3>1, <3>2 DEF StreamPackets
  <2>3. PICK k \in 1..Len(t) : j = t[k]
    BY <1>2, <2>2
  <2>4. CASE k > Len(p)
    BY <1>1, <2>3, <2>4
  <2>5. CASE k <= Len(p)
    <3>1. Len(p) # 0 /\ Len(p) \in 1..Len(t)
      BY <1>1, <2>5
    <3>2. k = Len(p) \/ t[k] < t[Len(p)]
      BY <1>1, <1>2, <2>5, <3>1
    <3>3. t[k] \in Nat /\ t[Len(p)] \in Nat
      BY <1>2, <1>3, <3>1
    <3>4. QED
      BY <1>4, <2>1, <2>3, <3>1, <3>2, <3>3
  <2>6. QED
    BY <1>1, <2>4, <2>5
<1>6. ASSUME q # <<>>
      PROVE  q[1] \in Later(p, s) /\ \A j \in Later(p, s) : q[1] <= j
  <2> DEFINE m == Len(p) + 1
  <2>1. m \in 1..Len(t) /\ q[1] = t[m] /\ t[m] \in StreamPackets(s, n)
    <3>1. m \in 1..Len(t) /\ m \in (Len(p) + 1)..(Len(p) + Len(q)) /\ m - Len(p) = 1
      BY <1>1, <1>6
    <3>2. QED
      BY <1>1, <1>2, <3>1
  <2>2. t[m] \in 1..n /\ File[t[m]] = s
    BY <2>1 DEF StreamPackets
  <2>3. t[m] > LastOf(p)
    <3>1. CASE Len(p) = 0
      BY <1>4, <2>2, <3>1
    <3>2. CASE Len(p) # 0
      <4>1. Len(p) \in 1..Len(t) /\ Len(p) < m
        BY <1>1, <3>2
      <4>2. t[Len(p)] < t[m] /\ t[Len(p)] \in Nat
        BY <1>2, <1>3, <2>1, <4>1
      <4>3. QED
        BY <1>4, <2>2, <3>2, <4>2
    <3>3. QED
      BY <3>1, <3>2
  <2>4. t[m] \in Later(p, s)
    BY <1>3, <2>2, <2>3 DEF Later
  <2>5. ASSUME NEW j \in Later(p, s) PROVE t[m] <= j
    <3>1. j \in 1..Len(File)
      BY DEF Later
    <3>2. CASE j <= n
      <4>1. PICK k \in m..Len(t) : j = t[k]
        BY <1>5, <3>2
      <4>2. k = m \/ t[m] < t[k]
        BY SMTT(30), <1>1, <1>2, <2>1, <4>1
      <4>3. QED
        BY <2>2, <3>1, <4>1, <4>2
    <3>3. CASE ~(j <= n)
      BY <1>3, <2>2, <3>1, <3>3
    <3>4. QED
      BY <3>2, <3>3
  <2>6. QED
    BY <2>1, <2>4, <2>5
<1>7. ASSUME q = <<>>, n = Len(File) PROVE Later(p, s) = {}
  <2> SUFFICES ASSUME NEW j \in Later(p, s) PROVE FALSE
    OBVIOUS
  <2>1. j <= n
    BY <1>3, <1>7 DEF Later
  <2>2. QED
    BY <1>1, <1>5, <1>7, <2>1
<1>8. QED
  BY <1>6, <1>7

LEMMA PassedOn ==
  ASSUME TypeInv, NEW s \in Streams
  PROVE  /\ Passed(s) \in Seq(Packets) /\ LastPassed(s) = LastOf(Passed(s))
         /\ One(busy[s]) \o (queue[s] \o Mine(s)) \in Seq(Packets)
         /\ Way(s) = Passed(s) \o (One(busy[s]) \o (queue[s] \o Mine(s)))
<1>1. Passed(s) \in Seq(Packets) /\ queue[s] \o Mine(s) \in Seq(Packets)
  BY WayType, ConcatProperties DEF Passed
<1>2. One(busy[s]) \o (queue[s] \o Mine(s)) \in Seq(Packets)
  BY <1>1, WayType, ConcatProperties
<1> DEFINE p == Passed(s)
           b == One(busy[s])
           q == queue[s]
           h == Mine(s)
<1>3. /\ p \in Seq(Packets) /\ b \in Seq(Packets) /\ q \in Seq(Packets) /\ h \in Seq(Packets)
      /\ q \o h \in Seq(Packets) /\ p \o b \in Seq(Packets)
      /\ Way(s) = ((p \o b) \o q) \o h
  BY <1>1, WayType, ConcatProperties DEF Way, Passed
<1> HIDE DEF p, b, q, h
<1>4. Way(s) = (p \o b) \o (q \o h)
  <2> DEFINE pb == p \o b
  <2>1. pb \in Seq(Packets) /\ Way(s) = (pb \o q) \o h
    BY <1>3
  <2> HIDE DEF pb
  <2>2. Way(s) = pb \o (q \o h)
    BY SMTT(30), <1>3, <2>1, ConcatAssociative
  <2>3. QED
    BY <2>2 DEF pb
<1>5. (p \o b) \o (q \o h) = p \o (b \o (q \o h))
  BY SMTT(30), <1>3, ConcatAssociative
<1>6. LastPassed(s) = LastOf(Passed(s))
  BY DEF LastPassed, LastOf
<1>7. QED
  BY <1>1, <1>2, <1>4, <1>5, <1>6 DEF p, b, q, h

LEMMA LastOfAppend ==
  ASSUME NEW p \in Seq(Packets), NEW b \in Packets, NEW m \in Seq(Packets)
  PROVE  /\ m \o Append(p, b) # <<>> /\ (m \o Append(p, b))[Len(m \o Append(p, b))] = b
         /\ Append(p, b) # <<>> /\ Append(p, b)[Len(Append(p, b))] = b
         /\ Append(p, b) \in Seq(Packets)
<1> DEFINE u == Append(p, b)
           t == m \o u
<1>1. /\ u \in Seq(Packets) /\ Len(u) = Len(p) + 1 /\ u[Len(p) + 1] = b
      /\ Len(p) \in Nat /\ Len(m) \in Nat
  BY AppendProperties, LenProperties
<1> HIDE DEF u
<1>2. u # <<>> /\ u[Len(u)] = b
  BY <1>1, EmptySeq
<1>3. /\ t \in Seq(Packets) /\ Len(t) = Len(m) + Len(u)
      /\ \A i \in 1..(Len(m) + Len(u)) :
            t[i] = IF i <= Len(m) THEN m[i] ELSE u[i - Len(m)]
  BY <1>1, ConcatProperties
<1> HIDE DEF t
<1>4. /\ Len(t) \in 1..(Len(m) + Len(u)) /\ ~(Len(t) <= Len(m))
      /\ Len(t) - Len(m) = Len(u) /\ Len(t) # 0
  BY <1>1, <1>3
<1>5. t # <<>> /\ t[Len(t)] = b
  BY <1>2, <1>3, <1>4, EmptySeq
<1>6. QED
  BY <1>1, <1>2, <1>5 DEF t, u

(* A step that emits is a step of Playback. *)
LEMMA EmitPasses ==
  ASSUME AllWanted, TypeInv, ClosedInv, TrackInv, NEW s \in Streams, SyncEmit(s)
  PROVE  PB!Pass(s)
<1> DEFINE b == busy[s]
           rest == queue[s] \o Mine(s)
<1>1. b \in Packets /\ One(b) = <<b>>
  BY DEF SyncEmit, One, TypeInv, TypeOK, Custody, Packets
<1>2. rest \in Seq(Packets)
  BY WayType, ConcatProperties
<1>3. /\ One(b) \o rest \in Seq(Packets) /\ One(b) \o rest # <<>>
      /\ (One(b) \o rest)[1] = b
  BY <1>1, <1>2, ConcatProperties, EmptySeq
<1>4. Complete(Passed(s) \o (One(b) \o rest), s, pos - 1)
  BY PassedOn DEF TrackInv
<1>5. pos - 1 \in 0..Len(File)
  BY FileProperties DEF TypeInv, TypeOK
<1>6. b \in Later(Passed(s), s) /\ \A j \in Later(Passed(s), s) : b <= j
  <2>1. Passed(s) \in Seq(Packets)
    BY PassedOn
  <2>2. QED
    BY <1>3, <1>4, <1>5, <2>1, FirstAfter
<1>7. PB!Left(s) = Later(Passed(s), s)
  BY PassedOn DEF PB!Left, Later
<1>8. LastPassed(s)' = b
  <2>1. CASE listener
    <3>1. missed' = missed /\ delivered'[s] = Append(delivered[s], b)
      BY <2>1 DEF SyncEmit, TypeInv, TypeOK
    <3>2. Passed(s)' = missed[s] \o Append(delivered[s], b)
      BY <3>1 DEF Passed
    <3> DEFINE p == missed[s] \o Append(delivered[s], b)
    <3>3. p # <<>> /\ p[Len(p)] = b
      BY <1>1, WayType, LastOfAppend
    <3> HIDE DEF p
    <3>4. Passed(s)' = p
      BY <3>2 DEF p
    <3>5. QED
      BY <3>3, <3>4 DEF LastPassed
  <2>2. CASE ~listener
    <3>1. missed'[s] = Append(missed[s], b) /\ delivered'[s] = <<>>
      BY <2>2 DEF SyncEmit, TypeInv, TypeOK, ClosedInv
    <3>2. Append(missed[s], b) \in Seq(Packets)
      BY <1>1, WayType, LastOfAppend
    <3>3. Passed(s)' = Append(missed[s], b)
      BY <3>1, <3>2, ConcatEmptySeq DEF Passed
    <3>4. QED
      BY <1>1, <3>3, WayType, LastOfAppend DEF LastPassed
  <2>3. QED
    BY <2>1, <2>2
<1>9. ASSUME NEW r \in Streams, r # s PROVE LastPassed(r)' = LastPassed(r)
  <2>1. missed'[r] = missed[r] /\ delivered'[r] = delivered[r]
    BY <1>9 DEF SyncEmit, TypeInv, TypeOK
  <2>2. QED
    BY <2>1 DEF LastPassed, Passed
<1>10. [r \in Streams |-> LastPassed(r)]' =
         [[r \in Streams |-> LastPassed(r)] EXCEPT ![s] = b]
  BY <1>8, <1>9
<1>11. /\ delivered' = (IF listener THEN [delivered EXCEPT ![s] = Append(@, b)] ELSE delivered)
       /\ listener' = listener /\ (closes > 0)' = (closes > 0)
  BY DEF SyncEmit, flags, report
<1>12. b \in PB!Left(s) /\ PB!IsNext(b, s)
  BY <1>6, <1>7 DEF PB!IsNext
<1> HIDE DEF b
<1>13. QED
  BY <1>10, <1>11, <1>12 DEF PB!Pass

(* And a step that calls back ends the play, once. *)
LEMMA ReportEnds ==
  ASSUME AllWanted, AudioIndex # 0, TypeInv, PlayInv, TrackInv, Attached,
         ReaderPoll, MustReport, closes = 0
  PROVE  PB!End
<1>1. AllPlayed
  BY PlayedAtReport
<1>2. pos - 1 = Len(File) /\ Len(File) \in 0..Len(File)
  BY <1>1, FileProperties DEF AllPlayed, TypeInv, TypeOK
<1>3. ASSUME NEW s \in Streams PROVE PB!Left(s) = {}
  <2>1. One(busy[s]) = <<>> /\ queue[s] = <<>> /\ Mine(s) = <<>>
    BY <1>1 DEF AllPlayed, One, Mine
  <2>2. One(busy[s]) \o (queue[s] \o Mine(s)) = <<>>
    BY <2>1, ConcatEmptySeq
  <2>3. Passed(s) \in Seq(Packets) /\ Complete(Passed(s) \o <<>>, s, Len(File))
    BY <1>2, <2>2, PassedOn DEF TrackInv
  <2>4. Later(Passed(s), s) = {}
    <3>1. <<>> \in Seq(Packets)
      OBVIOUS
    <3>2. QED
      BY <1>2, <2>3, <3>1, FirstAfter
  <2>5. QED
    BY <2>4, PassedOn DEF PB!Left, Later
<1>4. /\ UNCHANGED <<missed, delivered, listener>> /\ closes' = 1 /\ listener
  BY DEF ReaderPoll, MustReport, flow, flags, Attached
<1>5. \A s \in Streams : LastPassed(s)' = LastPassed(s)
  BY <1>4 DEF LastPassed, Passed
<1>6. QED
  BY <1>3, <1>4, <1>5 DEF PB!End

(* All other steps are the listener's arrival or change nothing it sees.   *)
LEMMA StepPlayback ==
  ASSUME AllWanted, AudioIndex # 0, TypeInv, PlayInv, ClosedInv, TrackInv, Attached, [Next]_vars
  PROVE  [PB!Next]_(PB!vars)
<1>1. ASSUME UNCHANGED <<missed, delivered, listener>>, (closes > 0)' = (closes > 0)
      PROVE  UNCHANGED PB!vars
  BY <1>1 DEF PB!vars, LastPassed, Passed
<1>2. CASE ReaderPoll /\ MustReport
  <2>1. CASE closes = 0
    BY <1>2, <2>1, ReportEnds DEF PB!Next
  <2>2. CASE closes # 0
    BY <1>1, <1>2, <2>2 DEF ReaderPoll, flow, flags, TypeInv, TypeOK
  <2>3. QED
    BY <2>1, <2>2
<1>3. CASE Reader /\ ~(ReaderPoll /\ MustReport)
  BY <1>1, <1>3 DEF Reader, ReaderTop, ReaderPoll, ReadPacket, ReadEnd, SetFileFinish, PushPacket,
                    flow, flags, report
<1>4. ASSUME NEW s \in Streams, SyncEmit(s) PROVE PB!Next
  BY <1>4, EmitPasses DEF PB!Next
<1>5. ASSUME NEW s \in Streams, Sync(s), ~SyncEmit(s) PROVE UNCHANGED PB!vars
  BY <1>1, <1>5 DEF Sync, SyncTop, SyncDrained, SyncFinish, SyncPop, SyncWait, SyncWake,
                    SyncFilter, flow, flags, report
<1>6. CASE SetListner
  <2>1. /\ UNCHANGED <<missed, delivered>> /\ listener' = TRUE
        /\ (closes > 0)' = (closes > 0)
    BY <1>6 DEF SetListner, flow, report
  <2>2. CASE listener
    BY <1>1, <2>1, <2>2 DEF TypeInv, TypeOK
  <2>3. CASE ~listener
    <3>1. \A s \in Streams : LastPassed(s)' = LastPassed(s)
      BY <2>1 DEF LastPassed, Passed
    <3>2. PB!Attach
      BY <2>1, <2>3, <3>1 DEF PB!Attach
    <3>3. QED
      BY <3>2 DEF PB!Next
  <2>4. QED
    BY <2>2, <2>3
<1>7. CASE Owner /\ ~SetListner
  BY <1>1, <1>7 DEF Owner, Setup, StartAudio, SetCloseCb, Reset, ResetStart, ResetAudio,
                    ResetList, ResetSeek, ResetFileFlag, ResetVideoFlag, ResetAudioFlag,
                    Teardown, Destroy, JoinFile, JoinVideo, JoinAudio, flow, flags, report
<1>8. CASE UNCHANGED vars
  BY <1>1, <1>8 DEF vars
<1>9. QED
  BY <1>2, <1>3, <1>4, <1>5, <1>6, <1>7, <1>8 DEF Next

(* The three threads, their lists and flags are together Playback: its     *)
(* listener gets each stream in order and without gaps, and the call back  *)
(* comes after the last packet of every stream.                            *)
THEOREM ReaderImplementsPlayback ==
  ASSUME MaxResets = 0, AudioIndex # 0, AllWanted, ~EarlyDestroy
  PROVE  SafeSpec => PB!SafeSpec
<1>1. Init => PB!Init
  <2>1. Init => \A s \in Streams : LastPassed(s) = 0
    BY ConcatEmptySeq DEF Init, LastPassed, Passed
  <2>2. QED
    BY <2>1 DEF Init, PB!Init
<1>2. TypeInv /\ PlayInv /\ ClosedInv /\ TrackInv /\ Attached /\ [Next]_vars
        => [PB!Next]_(PB!vars)
  BY StepPlayback
<1>3. QED
  BY <1>1, <1>2, TypeInvariant, PlayInvariant, ClosedInvariant, TrackInvariant,
     AttachedInvariant, PTL DEF SafeSpec, PB!SafeSpec

-----------------------------------------------------------------------------
(***************************************************************************)
(* One call back a play, for any number of Resets at any time.  A report   *)
(* is due once while the file is at its end and none was made, or while it *)
(* is being read; twice when the file flag is taken back from a thread     *)
(* that is just about to report.  A Reset that has not come to the file    *)
(* flag will make one more report due, and no other step does.             *)
(***************************************************************************)
Owed ==
  IF fileFinish THEN (IF haveReport THEN 0 ELSE 1)
  ELSE IF rpc = "poll" /\ ~haveReport THEN 2 ELSE 1

Pending == IF opc \in {"resetAudio", "seek", "fileFlag"} THEN 1 ELSE 0

OwedInv == closes + Owed + Pending <= resets + 1

LEMMA OwedOfReader == ASSUME TypeInv, OwedInv, Reader PROVE OwedInv'
<1> USE DEF OwedInv, Owed, Pending, TypeInv, TypeOK, flow, flags, report
<1>1. CASE ReaderTop
  BY <1>1 DEF ReaderTop
<1>2. CASE ReaderPoll
  <2>1. CASE MustReport
    BY <1>2, <2>1 DEF ReaderPoll, MustReport
  <2>2. CASE ~MustReport
    BY <1>2, <2>2 DEF ReaderPoll
  <2>3. QED
    BY <2>1, <2>2
<1>3. CASE ReadPacket
  BY <1>3 DEF ReadPacket
<1>4. CASE ReadEnd
  BY <1>4 DEF ReadEnd
<1>5. CASE SetFileFinish
  BY <1>5 DEF SetFileFinish
<1>6. CASE PushPacket
  BY <1>6 DEF PushPacket
<1>7. QED
  BY <1>1, <1>2, <1>3, <1>4, <1>5, <1>6 DEF Reader

LEMMA OwedOfSync == ASSUME TypeInv, OwedInv, NEW s \in Streams, Sync(s) PROVE OwedInv'
<1>1. UNCHANGED <<fileFinish, report, rpc, opc, resets>>
  BY DEF Sync, SyncTop, SyncDrained, SyncFinish, SyncPop, SyncWait, SyncWake, SyncFilter,
         SyncEmit, flags
<1>2. QED
  BY <1>1 DEF OwedInv, Owed, Pending, report

LEMMA OwedOfOwner == ASSUME TypeInv, OwedInv, Owner PROVE OwedInv'
<1> USE DEF OwedInv, Owed, Pending, TypeInv, TypeOK, flow, flags, report
<1>1. CASE Setup
  BY <1>1 DEF Setup, StartAudio, SetListner, SetCloseCb
<1>2. CASE ResetStart
  BY <1>2, ReaderAssumption DEF ResetStart, ResetList
<1>3. CASE ResetAudio \/ ResetSeek
  BY <1>3 DEF ResetAudio, ResetList, ResetSeek
<1>4. CASE ResetFileFlag
  BY <1>4 DEF ResetFileFlag
<1>5. CASE ResetVideoFlag \/ ResetAudioFlag
  BY <1>5 DEF ResetVideoFlag, ResetAudioFlag
<1>6. CASE Teardown
  BY SMTT(30), <1>6 DEF Teardown, Destroy, JoinFile, JoinVideo, JoinAudio
<1>7. QED
  BY <1>1, <1>2, <1>3, <1>4, <1>5, <1>6 DEF Owner, Reset

(* The owner is called back at most once per play of the file, although    *)
(* Reset takes the flags back while the threads set and read them.         *)
THEOREM OneCloseAPlay == SafeSpec => []CloseOncePerPlay
<1>1. Init => OwedInv
  BY DEF Init, OwedInv, Owed, Pending
<1>2. TypeInv /\ OwedInv /\ [Next]_vars => OwedInv'
  <2>1. OwedInv /\ UNCHANGED vars => OwedInv'
    BY DEF OwedInv, Owed, Pending, vars, flow, flags, report
  <2>2. QED
    BY <2>1, OwedOfReader, OwedOfSync, OwedOfOwner DEF Next
<1>3. TypeInv /\ OwedInv => CloseOncePerPlay
  BY DEF OwedInv, Owed, Pending, TypeInv, TypeOK, CloseOncePerPlay
<1>4. QED
  BY <1>1, <1>2, <1>3, TypeInvariant, PTL DEF SafeSpec

(***************************************************************************)
(* The RTSP proxy.                                                         *)
(*                                                                         *)
(* The invariant, in parts; first the types, the flags by themselves.      *)
(***************************************************************************)
Flags ==
  /\ link \in BOOLEAN /\ spanned \in BOOLEAN /\ fps \in BOOLEAN
  /\ ready \in BOOLEAN /\ listening \in BOOLEAN /\ run \in BOOLEAN
Plain ==
  /\ conn \in 1..MaxConnects
  /\ thread \in [1..MaxConnects -> {"none", "spawned", "loop", "leave", "ended", "read",
                                   "rate", "gate", "give", "clear"}]
  /\ unit \in Units /\ first \in Units
  /\ count \in 0..Probe /\ summed \in Nat
  /\ last \in 0..MaxConnects
  /\ tpc \in Connects \cup Deletes \cup {"none", "check", "stat", "probing", "clearCount",
                                     "clearFps", "sleep", "done"}
  /\ wpc \in Connects \cup Deletes \cup {"start", "probe", "listen", "run", "joinThread"}
  /\ fault \in {"none", "terminate", "client"}

(* Only one thread connects or deletes clients at a time. *)
Callers ==
  /\ wpc \in Connects \cup {"start"} => tpc = "none"
  /\ wpc \in Deletes => tpc = "done"
  /\ wpc \in {"probe", "listen", "run"} => tpc # "none"

(* Clients that are gone left no thread at work; the client says that its  *)
(* thread runs as long as it does.                                         *)
AtWork(n) == thread[n] \notin {"none", "ended"}
Threads ==
  /\ \A n \in 1..MaxConnects : n # conn => ~AtWork(n)
  /\ \A n \in 1..MaxConnects : n > conn => thread[n] = "none"
  /\ client.exists \/ ~AtWork(conn)
  /\ client.tid <=> thread[conn] \notin {"none", "spawned", "ended"}
  /\ At("connect") => client.exists /\ thread[conn] = "none"
  /\ At("deleted") => ~client.exists

(* A client is deleted by the reconnect thread only after its connection   *)
(* has failed, which that of the last client does not.                     *)
LastClient ==
  /\ tpc \in Deletes \cup {"probing", "clearCount", "clearFps"} => conn < MaxConnects
  /\ conn = MaxConnects =>
       /\ ~At("connect") => link
       /\ ~At("connect") /\ ~At("connected") => client.connected

ProxyInv == Flags /\ client \in Clients /\ Plain /\ Callers /\ Threads /\ LastClient

LEMMA InvTypes ==
  ProxyInv => ProxyTypeOK
<1> SUFFICES ASSUME ProxyInv PROVE ProxyTypeOK OBVIOUS
<1>1. Flags /\ client \in Clients BY DEF ProxyInv
<1>2. Plain BY DEF ProxyInv
<1> QED BY <1>1, <1>2, Zenon DEF ProxyTypeOK, Flags, Plain

LEMMA InitProxy ==
  ProxyInit => ProxyInv
<1> SUFFICES ASSUME ProxyInit PROVE ProxyInv OBVIOUS
<1> USE ProxyAssumption DEF ProxyInit
<1>1. Flags BY Zenon DEF Flags
<1>2. client \in Clients BY DEF NewClient, Clients
<1>3. Plain BY DEF Plain, Connects, Deletes, Units
<1>4. Callers BY DEF Callers, Connects, Deletes
<1>5. Threads
  <2>1. client.exists /\ ~client.tid BY DEF NewClient
  <2>2. \A n \in 1..MaxConnects : thread[n] = "none" OBVIOUS
  <2> QED BY <2>1, <2>2 DEF Threads, AtWork, At
<1>6. LastClient BY DEF LastClient, Deletes, At
<1> QED BY <1>1, <1>2, <1>3, <1>4, <1>5, <1>6 DEF ProxyInv

LEMMA StepConnecting ==
  ASSUME ProxyInv, Connecting
  PROVE  ProxyInv'
<1> USE ProxyAssumption DEF ProxyInv, Connecting, ConnectFails, ConnectPlays,
            Connected, SetCallBack, MayFail, Connects,
        Deletes, Units, At, Move, Moves, receiver, probing, giving
<1>1. Flags' BY Zenon DEF Flags
<1>2. client' \in Clients BY DEF Clients
<1>3. Plain' BY DEF Plain, LastClient
<1>4. Callers' BY DEF Callers
<1>5. Threads' BY DEF Threads, AtWork, Clients, Plain, Callers, LastClient
<1>6. LastClient' BY DEF LastClient, Plain, Clients, Callers
<1> QED BY <1>1, <1>2, <1>3, <1>4, <1>5, <1>6 DEF ProxyInv

LEMMA StepDeleting ==
  ASSUME ProxyInv, Deleting
  PROVE  ProxyInv'
<1> USE ProxyAssumption DEF ProxyInv, Deleting, StopReceiving, JoinTest, JoinReceiver,
            Deleted, Connects, Deletes,
        Units, At, Move, Moves, receiver, probing, giving
<1>1. Flags' BY Zenon DEF Flags
<1>2. client' \in Clients BY DEF Clients
<1>3. Plain' BY DEF Plain, LastClient
<1>4. Callers' BY DEF Callers
<1>5. Threads' BY DEF Threads, AtWork, Clients, Plain, Callers, LastClient
<1>6. LastClient' BY DEF LastClient, Plain, Clients, Callers
<1> QED BY <1>1, <1>2, <1>3, <1>4, <1>5, <1>6 DEF ProxyInv

LEMMA StepLooking ==
  ASSUME ProxyInv, CheckRun \/ CheckStat \/ CheckProbing \/ ClearCount \/ ClearFps \/ Sleep
  PROVE  ProxyInv'
<1> USE ProxyAssumption DEF ProxyInv, CheckRun, CheckStat, CheckProbing, ClearCount,
            ClearFps, Sleep, Connects, Deletes, Units, At, Move, Moves,
        receiver, probing, giving
<1>1. Flags' BY Zenon DEF Flags
<1>2. client' \in Clients BY DEF Clients
<1>3. Plain' BY DEF Plain, LastClient
<1>4. Callers' BY DEF Callers
<1>5. Threads' BY DEF Threads, AtWork, Clients, Plain, Callers, LastClient
<1>6. LastClient' BY DEF LastClient, Plain, Clients, Callers
<1> QED BY <1>1, <1>2, <1>3, <1>4, <1>5, <1>6 DEF ProxyInv

LEMMA StepMaking ==
  ASSUME ProxyInv, MakeClient
  PROVE  ProxyInv'
<1> USE ProxyAssumption DEF ProxyInv, MakeClient, NewClient, Connects, Deletes,
            Units, At, Move, Moves, receiver,
        probing, giving
<1>1. Flags' BY Zenon DEF Flags
<1>2. client' \in Clients BY DEF Clients
<1>3. Plain' BY DEF Plain, LastClient
<1>4. Callers' BY DEF Callers
<1>5. Threads' BY DEF Threads, AtWork, Clients, Plain, Callers, LastClient
<1>6. LastClient' BY DEF LastClient, Plain, Clients, Callers
<1> QED BY <1>1, <1>2, <1>3, <1>4, <1>5, <1>6 DEF ProxyInv

LEMMA StepReceiver ==
  ASSUME NEW n \in 1..MaxConnects, ProxyInv, RunReceiver(n)
  PROVE  ProxyInv'
<1> USE ProxyAssumption DEF ProxyInv, RunReceiver, Begin, Loop, Leave, ReadError,
            ReadUnit, Rate, Gate, GiveUnit, Clear, Count,
        Counting, Connects, Deletes, Units, At, Move, Moves, receiver, probing,
        giving
<1>1. Flags' BY Zenon DEF Flags
<1>2. client' \in Clients BY DEF Clients
<1>3. Plain' BY SMTT(30) DEF Plain, LastClient
<1>4. Callers' BY DEF Callers
<1>5. Threads' BY SMTT(30) DEF Threads, AtWork, Clients, Plain, Callers, LastClient
<1>6. LastClient' BY DEF LastClient, Plain, Clients, Callers
<1> QED BY <1>1, <1>2, <1>3, <1>4, <1>5, <1>6 DEF ProxyInv

LEMMA StepOwner ==
  ASSUME ProxyInv, LinkFails \/ LinkReturns \/ Wrapper \/ GetAudioType \/ DestroyProxy
  PROVE  ProxyInv'
<1> USE ProxyAssumption DEF ProxyInv, LinkFails, LinkReturns, MayFail, Wrapper, StartThread,
            ProbeVideoFps, SetDataListner, JoinThread,
        GetAudioType, DestroyProxy, Connects, Deletes, Units, At, Move, Moves,
        receiver,
        probing, giving
<1>1. Flags' BY Zenon DEF Flags
<1>2. client' \in Clients BY DEF Clients
<1>3. Plain' BY DEF Plain, LastClient
<1>4. Callers' BY DEF Callers
<1>5. Threads' BY DEF Threads, AtWork, Clients, Plain, Callers, LastClient
<1>6. LastClient' BY DEF LastClient, Plain, Clients, Callers
<1> QED BY <1>1, <1>2, <1>3, <1>4, <1>5, <1>6 DEF ProxyInv

LEMMA StepProxy ==
  ProxyInv /\ [ProxyNext]_(proxyVars) => ProxyInv'
<1> SUFFICES ASSUME ProxyInv, [ProxyNext]_(proxyVars) PROVE ProxyInv' OBVIOUS
<1>1. CASE UNCHANGED proxyVars
  <2> USE <1>1 DEF ProxyInv, proxyVars, receiver, probing, giving
  <2>1. Flags' /\ client' = client BY Zenon DEF Flags
  <2>2. Plain' BY DEF Plain
  <2>3. Callers' /\ Threads' /\ LastClient'
        BY DEF Callers, Threads, LastClient, AtWork, At
  <2> QED BY <2>1, <2>2, <2>3
<1>2. CASE Receivers BY <1>2, StepReceiver DEF Receivers
<1> QED BY <1>1, <1>2, StepConnecting, StepDeleting, StepLooking, StepMaking, StepOwner
        DEF ProxyNext, Reconnect

(***************************************************************************)
(* Every variable keeps its type.                                          *)
(***************************************************************************)
THEOREM ProxyTypeCorrect ==
  ProxySafeSpec => []ProxyTypeOK
<1> QED BY InvTypes, InitProxy, StepProxy, PTL DEF ProxySafeSpec

(***************************************************************************)
(* However often the proxy reconnects and whenever it is destroyed: only   *)
(* the receive thread of the client that exists is at work.                *)
(***************************************************************************)
THEOREM NoThreadLeft ==
  ProxySafeSpec => []OneReceiver
<1>1. ProxyInv => OneReceiver
      BY InvTypes DEF ProxyInv, Plain, Threads, AtWork, OneReceiver
<1> QED BY <1>1, InitProxy, StepProxy, PTL DEF ProxySafeSpec

(***************************************************************************)
(* Before the listener has been given anything, the proxy is ready only    *)
(* while the receive thread has an SPS in hand.                            *)
(***************************************************************************)
Handing == thread[conn] \in {"rate", "gate", "give", "clear"} /\ unit = "sps"
FirstUnit ==
  /\ first # "slice"
  /\ first # "none" => listening
  /\ first = "none" =>
       /\ ready => Handing
       /\ thread[conn] = "give" => unit = "sps"

LEMMA StepFirst ==
  ProxyInv /\ FirstUnit /\ [ProxyNext]_(proxyVars) => FirstUnit'
<1> SUFFICES ASSUME ProxyInv, FirstUnit, [ProxyNext]_(proxyVars) PROVE FirstUnit' OBVIOUS
<1> USE DEF FirstUnit, Handing, ProxyInv, Plain, Threads, AtWork, At, Move, Moves,
            receiver, probing, giving, Units
<1>1. CASE UNCHANGED proxyVars BY <1>1 DEF proxyVars
<1>2. ASSUME UNCHANGED <<ready, listening, first, unit>>,
             \/ thread'[conn'] = thread[conn]
             \/ /\ thread[conn] \notin {"rate", "gate", "give", "clear"}
                /\ thread'[conn'] # "give"
      PROVE  FirstUnit'
      BY <1>2
<1>3. CASE Connecting
  <2>1. UNCHANGED <<ready, listening, first, unit, conn>>
        BY <1>3 DEF Connecting, ConnectFails, ConnectPlays, Connected, SetCallBack
  <2>2. \/ thread' = thread
        \/ thread[conn] = "none" /\ thread' = [thread EXCEPT ![conn] = "spawned"]
        BY <1>3 DEF Connecting, ConnectFails, ConnectPlays, Connected, SetCallBack
  <2> QED BY <1>2, <2>1, <2>2
<1>4. CASE Deleting \/ CheckRun \/ CheckStat \/ CheckProbing \/ ClearCount \/ ClearFps \/ Sleep
  <2>1. UNCHANGED <<ready, listening, first, unit, thread, conn>>
        BY <1>4 DEF Deleting, StopReceiving, JoinTest, JoinReceiver, CheckRun,
                    CheckStat, CheckProbing, ClearCount, ClearFps, Sleep
  <2> QED BY <1>2, <2>1
<1>5. CASE MakeClient
  <2>1. conn + 1 \in 1..MaxConnects /\ thread[conn + 1] = "none"
        BY <1>5, ProxyAssumption DEF MakeClient, LastClient, Deletes
  <2>2. thread[conn] \in {"none", "ended"} BY <1>5 DEF MakeClient
  <2>3. ~ready \/ first # "none" BY <2>2
  <2>4. UNCHANGED <<ready, listening, first, unit>> /\ thread'[conn'] = "none"
        BY <1>5, <2>1 DEF MakeClient
  <2> QED BY <2>3, <2>4
<1>6. CASE Receivers
  <2> SUFFICES ASSUME NEW n \in 1..MaxConnects, RunReceiver(n) PROVE FirstUnit'
      BY <1>6 DEF Receivers
  <2>1. n = conn
        BY DEF RunReceiver, Begin, Loop, Leave, ReadError, ReadUnit, Rate,
                   Gate, GiveUnit, Clear
  <2>2. CASE Begin(n) \/ Loop(n) \/ Leave(n) \/ ReadError(n)
    <3>1. UNCHANGED <<ready, listening, first, unit, conn>>
          BY <2>2 DEF Begin, Loop, Leave, ReadError
    <3>2. /\ thread[conn] \notin {"rate", "gate", "give", "clear"}
          /\ thread'[conn] # "give"
          BY <2>1, <2>2 DEF Begin, Loop, Leave, ReadError
    <3> QED BY <1>2, <3>1, <3>2
  <2>3. ASSUME NEW kind \in {"sps", "slice"}, ReadUnit(n, kind) PROVE FirstUnit'
        BY <2>1, <2>3 DEF ReadUnit
  <2>4. CASE Gate(n) BY <2>1, <2>4 DEF Gate
  <2>5. CASE GiveUnit(n) BY <2>1, <2>5 DEF GiveUnit
  <2>6. CASE Clear(n) BY <2>1, <2>6 DEF Clear
  <2>7. CASE Rate(n) BY <2>1, <2>7 DEF Rate
  <2> QED BY <2>2, <2>3, <2>4, <2>5, <2>6, <2>7 DEF RunReceiver
<1>7. CASE LinkFails \/ LinkReturns \/ Wrapper \/ GetAudioType \/ DestroyProxy
  <2>1. CASE LinkFails \/ LinkReturns \/ StartThread \/ JoinThread \/ GetAudioType \/ DestroyProxy
    <3>1. UNCHANGED <<ready, listening, first, unit, thread, conn>>
          BY <2>1 DEF LinkFails, LinkReturns, StartThread, JoinThread, GetAudioType, DestroyProxy
    <3> QED BY <1>2, <3>1
  <2>2. CASE ProbeVideoFps BY <2>2 DEF ProbeVideoFps
  <2>3. CASE SetDataListner BY <2>3 DEF SetDataListner
  <2> QED BY <1>7, <2>1, <2>2, <2>3 DEF Wrapper
<1> QED BY <1>1, <1>2, <1>3, <1>4, <1>5, <1>6, <1>7 DEF ProxyNext, Reconnect

(***************************************************************************)
(* Whatever the receive thread has in hand when the owner sets the         *)
(* listener: the first unit the listener is given is an SPS.               *)
(***************************************************************************)
THEOREM ListenerStartsWithSps ==
  ProxySafeSpec => []FirstUnitIsSps
<1>1. ProxyInit => FirstUnit BY ProxyAssumption DEF ProxyInit, FirstUnit
<1>2. FirstUnit => FirstUnitIsSps BY DEF FirstUnit, FirstUnitIsSps
<1> QED BY <1>1, <1>2, InitProxy, StepProxy, StepFirst, PTL DEF ProxySafeSpec

(***************************************************************************)
(* The sum over the intervals: it is one of count intervals, and one of    *)
(* Probe intervals when the rate is known or about to be, unless it holds  *)
(* what it should not.                                                     *)
(***************************************************************************)
Sums ==
  \/ spanned
  \/ /\ summed = count
     /\ fps \/ (\E n \in 1..MaxConnects : thread[n] = "rate") => summed = Probe

LEMMA StepSums ==
  ProxyInv /\ Sums /\ [ProxyNext]_(proxyVars) => Sums'
<1> SUFFICES ASSUME ProxyInv, Sums, [ProxyNext]_(proxyVars), ~spanned' PROVE Sums'
  BY DEF Sums
<1> USE ProxyAssumption DEF Sums, ProxyInv, Flags, Plain, Move, Moves, receiver, probing,
            giving
<1>1. ASSUME UNCHANGED <<count, summed, spanned>>, fps' => fps,
             \A n \in 1..MaxConnects : thread'[n] = "rate" => thread[n] = "rate"
      PROVE  Sums'
      BY <1>1
<1>2. CASE UNCHANGED proxyVars BY <1>1, <1>2 DEF proxyVars
<1>3. CASE Connecting \/ Deleting \/ CheckRun \/ CheckStat \/ CheckProbing \/ ClearFps \/ Sleep
  <2>1. UNCHANGED <<count, summed, spanned>> /\ (fps' => fps)
        BY <1>3 DEF Connecting, ConnectFails, ConnectPlays, Connected, SetCallBack, Deleting,
                    StopReceiving, JoinTest, JoinReceiver, CheckRun, CheckStat, CheckProbing,
                    ClearFps, Sleep
  <2>2. thread' = thread \/ thread' = [thread EXCEPT ![conn] = "spawned"]
        BY <1>3 DEF Connecting, ConnectFails, ConnectPlays, Connected, SetCallBack, Deleting,
                    StopReceiving, JoinTest, JoinReceiver, CheckRun, CheckStat, CheckProbing,
                    ClearFps, Sleep
  <2> QED BY <1>1, <2>1, <2>2
<1>4. CASE ClearCount
  <2>1. ~spanned /\ summed = 0 BY <1>4 DEF ClearCount
  <2>2. count = 0 /\ count' = 0 BY <1>4, <2>1 DEF ClearCount
  <2> QED BY <1>1, <1>4, <2>1, <2>2 DEF ClearCount
<1>5. CASE MakeClient \/ LinkFails \/ LinkReturns \/ Wrapper \/ GetAudioType \/ DestroyProxy
  <2>1. UNCHANGED <<thread, count, summed, spanned, fps>>
        BY <1>5 DEF MakeClient, LinkFails, LinkReturns, Wrapper, GetAudioType, DestroyProxy,
                    StartThread, ProbeVideoFps, SetDataListner, JoinThread
  <2> QED BY <1>1, <2>1
<1>6. CASE Receivers
  <2> SUFFICES ASSUME NEW n \in 1..MaxConnects, RunReceiver(n) PROVE Sums'
      BY <1>6 DEF Receivers
  <2>1. /\ n = conn
        /\ \A m \in 1..MaxConnects : m # n => thread[m] # "rate" /\ thread'[m] = thread[m]
        BY DEF RunReceiver, Begin, Loop, Leave, ReadError, ReadUnit, Rate, Gate, GiveUnit,
               Clear, Threads, AtWork
  <2>2. CASE Begin(n) \/ Loop(n) \/ Leave(n) \/ ReadError(n) \/ Gate(n) \/ GiveUnit(n) \/ Clear(n)
    <3>1. UNCHANGED <<count, summed, spanned, fps>> /\ thread'[n] # "rate"
          BY <2>2 DEF Begin, Loop, Leave, ReadError, Gate, GiveUnit, Clear
    <3> QED BY <1>1, <2>1, <3>1
  <2>3. CASE Rate(n)
    <3>1. UNCHANGED <<count, summed, spanned>> /\ thread[n] = "rate" BY <2>3 DEF Rate
    <3> QED BY <3>1
  <2>4. ASSUME NEW kind \in {"sps", "slice"}, ReadUnit(n, kind) PROVE Sums'
    <3>1. CASE UNCHANGED <<count, summed, spanned, fps>>
      <4>1. thread'[n] # "rate" BY <2>4, <3>1 DEF ReadUnit
      <4> QED BY <1>1, <2>1, <3>1, <4>1
    <3>2. CASE ~UNCHANGED <<count, summed, spanned, fps>>
      <4>1. Count(kind) /\ thread'[n] \in {"rate", "gate"}
            /\ (thread'[n] = "rate" => count' = Probe)
            BY <2>4, <3>2 DEF ReadUnit
      <4>2. ~fps /\ ~fps' /\ ~spanned /\ count' = count + 1 /\ summed' = summed + 1
            BY <3>2, <4>1 DEF Count, Counting
      <4> QED BY <2>1, <4>1, <4>2
    <3> QED BY <3>1, <3>2
  <2> QED BY <2>2, <2>3, <2>4 DEF RunReceiver
<1> QED BY <1>2, <1>3, <1>4, <1>5, <1>6 DEF ProxyNext, Reconnect

(***************************************************************************)
(* However often the connection is lost while the rate is probed, and      *)
(* whenever the count is taken back: the rate is computed from PROBEFRAME  *)
(* intervals, unless one of them is from one connection to the next or the *)
(* count was taken back with intervals in the sum.                         *)
(***************************************************************************)
THEOREM RateOfProbe ==
  ProxySafeSpec => FpsFromProbe
<1>1. ProxyInit => Sums BY ProxyAssumption DEF ProxyInit, Sums
<1>2. Sums => (fps => spanned \/ summed = Probe) BY DEF Sums
<1> QED BY <1>1, <1>2, InitProxy, StepProxy, StepSums, PTL DEF ProxySafeSpec, FpsFromProbe

(***************************************************************************)
(* Whatever the threads do: the count stands at its end without a rate     *)
(* only after the reconnect thread has taken back a known one.             *)
(***************************************************************************)
THEOREM OnlyResetStrands ==
  ProxySafeSpec => StrandedByReset
<1>1. ProxyInv /\ [ProxyNext]_(proxyVars)
        => [~Stranded /\ Stranded' => tpc = "clearFps" /\ fps]_proxyVars
  <2> SUFFICES ASSUME ProxyInv, [ProxyNext]_(proxyVars), ~Stranded, Stranded'
               PROVE  tpc = "clearFps" /\ fps
      OBVIOUS
  <2> USE ProxyAssumption DEF Stranded, ProxyInv, Flags, Plain, Move, Moves, receiver, probing,
              giving
  <2>1. CASE UNCHANGED <<count, fps>>
    <3>1. PICK n \in 1..MaxConnects : thread[n] = "rate" /\ thread'[n] # "rate"
          BY <2>1
    <3>2. UNCHANGED thread \/ ConnectPlays \/ Receivers
          BY DEF ProxyNext, proxyVars, Reconnect, Connecting, ConnectFails, Connected,
                 SetCallBack, Deleting, StopReceiving, JoinTest, JoinReceiver, CheckRun,
                 CheckStat, CheckProbing, ClearCount, ClearFps, MakeClient, Sleep, LinkFails,
                 LinkReturns, Wrapper, GetAudioType, DestroyProxy, StartThread,
                 ProbeVideoFps, SetDataListner, JoinThread
    <3>3. Receivers
      <4>1. CASE ConnectPlays
        <5>1. thread[conn] = "none" /\ thread' = [thread EXCEPT ![conn] = "spawned"]
              BY <4>1 DEF ConnectPlays, Threads
        <5> QED BY <3>1, <5>1
      <4> QED BY <3>1, <3>2, <4>1
    <3>4. PICK m \in 1..MaxConnects : RunReceiver(m) BY <3>3 DEF Receivers
    <3>5. \/ m # n /\ thread'[n] = thread[n]
          \/ Rate(m)
          BY <3>1, <3>4 DEF RunReceiver, Begin, Loop, Leave, ReadError, ReadUnit, Rate, Gate,
                            GiveUnit, Clear
    <3> QED BY <2>1, <3>1, <3>5 DEF Rate
  <2>2. CASE ClearCount
    <3>1. UNCHANGED <<fps, thread>> /\ (count' = 0 \/ count' = count)
          BY <2>2 DEF ClearCount
    <3> QED BY <3>1
  <2>3. CASE ClearFps BY <2>3 DEF ClearFps
  <2>4. CASE Receivers /\ ~UNCHANGED <<count, fps>>
    <3>1. PICK n \in 1..MaxConnects : RunReceiver(n) BY <2>4 DEF Receivers
    <3>2. CASE Rate(n) BY <3>2 DEF Rate
    <3>3. ASSUME NEW kind \in {"sps", "slice"}, ReadUnit(n, kind), ~UNCHANGED <<count, fps>>
          PROVE  FALSE
      <4>1. Count(kind) /\ (count' # count /\ count' = Probe => thread'[n] = "rate")
            BY <3>3 DEF ReadUnit
      <4>2. count' = count + 1 /\ fps' = fps BY <3>3, <4>1 DEF Count
      <4> QED BY <4>1, <4>2
    <3> QED BY <2>4, <3>1, <3>2, <3>3
            DEF RunReceiver, Begin, Loop, Leave, ReadError, Gate, GiveUnit, Clear
  <2>5. UNCHANGED <<count, fps>> \/ ClearCount \/ ClearFps \/ Receivers
        BY DEF ProxyNext, proxyVars, Reconnect, Connecting, ConnectFails, ConnectPlays,
               Connected, SetCallBack, Deleting, StopReceiving, JoinTest, JoinReceiver,
               CheckRun, CheckStat, CheckProbing, MakeClient, Sleep, LinkFails, LinkReturns,
               Wrapper, GetAudioType, DestroyProxy, StartThread, ProbeVideoFps,
               SetDataListner, JoinThread
  <2> QED BY <2>1, <2>2, <2>3, <2>4, <2>5
<1> QED BY <1>1, InitProxy, StepProxy, PTL DEF ProxySafeSpec, StrandedByReset

-----------------------------------------------------------------------------
(***************************************************************************)
(* Induction over numbers for sets of them, which needs no operator.       *)
(***************************************************************************)
LEMMA Least ==
  ASSUME NEW T, T \subseteq Nat, T # {}
  PROVE  \E x \in T : \A y \in T : x <= y
<1>1. PICK x \in T : \A y \in T : ~ (<<y, x>> \in OpToRel(<, Nat))
  BY NatLessThanWellFounded, WFMin, Zenon
<1>2. \A y \in T : ~(y < x)
  BY <1>1 DEF OpToRel
<1>3. QED
  BY <1>2

LEMMA SetInduction ==
  ASSUME NEW T, T \subseteq Nat, 0 \in T, \A k \in Nat : k \in T => k + 1 \in T
  PROVE  Nat \subseteq T
<1> DEFINE U == Nat \ T
<1>1. SUFFICES ASSUME U # {} PROVE FALSE
  OBVIOUS
<1>2. PICK x \in U : \A y \in U : x <= y
  BY <1>1, Least
<1>3. x \in Nat \ {0}
  BY <1>2
<1>4. x - 1 \in Nat /\ x - 1 \notin U /\ (x - 1) + 1 = x
  BY <1>2, <1>3
<1>5. QED
  BY <1>2, <1>4

(* A chain of values: the next from the one before and from its number.    *)
Chain(f, a, n, G) ==
  f = [i \in 0..n |-> IF i = 0 THEN a ELSE G[<<f[i - 1], i>>]]

LEMMA ChainExists ==
  ASSUME NEW X, NEW a \in X, NEW n \in Nat, NEW G \in [X \X (1..n) -> X]
  PROVE  \E f \in [0..n -> X] : Chain(f, a, n, G)
<1> DEFINE T == {k \in Nat : k <= n => \E f \in [0..k -> X] : Chain(f, a, k, G)}
<1>1. 0 \in T
  <2> DEFINE f == [i \in 0..0 |-> a]
  <2>1. f \in [0..0 -> X] /\ Chain(f, a, 0, G)
    BY DEF Chain
  <2>2. QED
    BY <2>1
<1>2. ASSUME NEW k \in Nat, k \in T PROVE k + 1 \in T
  <2> SUFFICES ASSUME k + 1 <= n PROVE \E f \in [0..(k + 1) -> X] : Chain(f, a, k + 1, G)
    OBVIOUS
  <2>1. PICK f \in [0..k -> X] : Chain(f, a, k, G)
    BY <1>2
  <2> DEFINE v == G[<<f[k], k + 1>>]
             g == [i \in 0..(k + 1) |-> IF i = k + 1 THEN v ELSE f[i]]
  <2>2. v \in X
    <3>1. <<f[k], k + 1>> \in X \X (1..n)
      OBVIOUS
    <3>2. QED
      BY <3>1
  <2>3. g \in [0..(k + 1) -> X]
    BY <2>2
  <2>4. \A i \in 0..(k + 1) : g[i] = IF i = 0 THEN a ELSE G[<<g[i - 1], i>>]
    <3>1. \A i \in 0..k : g[i] = f[i] /\ f[i] = IF i = 0 THEN a ELSE G[<<f[i - 1], i>>]
      BY <2>1 DEF Chain
    <3>2. g[k + 1] = G[<<g[k], k + 1>>]
      <4>1. k \in 0..(k + 1) /\ k # k + 1 /\ k + 1 \in 0..(k + 1)
        OBVIOUS
      <4>2. g[k] = f[k] /\ g[k + 1] = v
        BY <4>1
      <4>3. QED
        BY <4>2
    <3> HIDE DEF g
    <3> SUFFICES ASSUME NEW i \in 0..(k + 1)
                 PROVE  g[i] = IF i = 0 THEN a ELSE G[<<g[i - 1], i>>]
      OBVIOUS
    <3>3. CASE i = k + 1
      <4>1. i # 0 /\ i - 1 = k
        BY <3>3
      <4>2. QED
        BY <3>2, <3>3, <4>1
    <3>4. CASE i # k + 1
      <4>1. i \in 0..k /\ (i # 0 => i - 1 \in 0..k)
        BY <3>4
      <4>2. g[i] = f[i] /\ (i # 0 => g[i - 1] = f[i - 1])
        BY <3>1, <4>1
      <4>3. f[i] = IF i = 0 THEN a ELSE G[<<f[i - 1], i>>]
        BY <3>1, <4>1
      <4>4. QED
        BY <4>2, <4>3
    <3>5. QED
      BY <3>3, <3>4
  <2>5. Chain(g, a, k + 1, G)
    BY <2>4 DEF Chain
  <2>6. QED
    BY <2>3, <2>5
<1>3. Nat \subseteq T
  <2> HIDE DEF T
  <2>1. T \subseteq Nat
    BY DEF T
  <2>2. QED
    BY <1>1, <1>2, <2>1, SetInduction
<1>4. QED
  BY <1>3

-----------------------------------------------------------------------------
(***************************************************************************)
(* The RTSP client.                                                        *)
(***************************************************************************)
(* FlattenSeq joins the sequences one after the other.                     *)
LEMMA FlattenChain ==
  ASSUME NEW S, NEW q \in Seq(Seq(S))
  PROVE  \E f \in [0..Len(q) -> Seq(S)] :
           /\ f[0] = <<>> /\ FlattenSeq(q) = f[Len(q)]
           /\ \A i \in 1..Len(q) : f[i] = f[i - 1] \o q[i]
<1> DEFINE n == Len(q)
           X == Seq(S)
           Flat(g) == g = [i \in 1..n |-> IF i = 1 THEN q[i] ELSE g[i - 1] \o q[i]]
           flatten == CHOOSE g : Flat(g)
<1>1. n \in Nat /\ \A i \in 1..n : q[i] \in X
  BY LenProperties, ElementOfSeq
<1>2. CASE n = 0
  <2> DEFINE f == [i \in 0..n |-> <<>>]
  <2>1. q = <<>> /\ FlattenSeq(q) = <<>>
    BY <1>2, EmptySeq DEF FlattenSeq
  <2>2. f \in [0..n -> X] /\ f[0] = <<>> /\ f[n] = <<>>
    BY <1>1, EmptySeq
  <2>3. \A i \in 1..n : f[i] = f[i - 1] \o q[i]
    BY <1>2
  <2>4. QED
    BY <2>1, <2>2, <2>3
<1>3. CASE n # 0
  <2>1. \E g : Flat(g)
    <3> DEFINE G == [p \in X \X (1..n) |-> p[1] \o q[p[2]]]
    <3>1. G \in [X \X (1..n) -> X]
      <4> SUFFICES ASSUME NEW p \in X \X (1..n) PROVE p[1] \o q[p[2]] \in X
        OBVIOUS
      <4>1. p[1] \in X /\ q[p[2]] \in X
        BY <1>1
      <4>2. QED
        BY <4>1, ConcatProperties
    <3>2. <<>> \in X /\ \A t \in X : <<>> \o t = t
      BY ConcatEmptySeq
    <3> HIDE DEF n, X
    <3>3. \A x \in X, i \in 1..n : G[<<x, i>>] = x \o q[i]
      OBVIOUS
    <3> HIDE DEF G
    <3>4. PICK f \in [0..n -> X] : Chain(f, <<>>, n, G)
      BY <1>1, <3>1, <3>2, ChainExists
    <3> DEFINE h == [i \in 1..n |-> f[i]]
    <3>5. \A i \in 1..n : f[i - 1] \in X /\ f[i] = f[i - 1] \o q[i]
      <4> SUFFICES ASSUME NEW i \in 1..n PROVE f[i - 1] \in X /\ f[i] = f[i - 1] \o q[i]
        OBVIOUS
      <4>1. i \in 0..n /\ i - 1 \in 0..n /\ i # 0
        BY <1>1
      <4>2. f[i - 1] \in X /\ f[i] = G[<<f[i - 1], i>>]
        BY <3>4, <4>1 DEF Chain
      <4>3. QED
        BY <3>3, <4>2
    <3>6. f[0] = <<>>
      BY <1>1, <3>4 DEF Chain
    <3>7. \A i \in 1..n : f[i] = IF i = 1 THEN q[i] ELSE h[i - 1] \o q[i]
      <4> SUFFICES ASSUME NEW i \in 1..n PROVE f[i] = IF i = 1 THEN q[i] ELSE h[i - 1] \o q[i]
        OBVIOUS
      <4>1. CASE i = 1
        <5>1. f[i] = f[0] \o q[i]
          <6>1. i - 1 = 0
            BY <4>1
          <6>2. QED
            BY <3>5, <6>1
        <5>2. QED
          BY <1>1, <3>2, <3>6, <4>1, <5>1 DEF X
      <4>2. CASE i # 1
        <5>1. i - 1 \in 1..n
          BY <1>1, <4>2
        <5>2. h[i - 1] = f[i - 1]
          BY <5>1
        <5>3. QED
          BY <3>5, <4>2, <5>2
      <4>3. QED
        BY <4>1, <4>2
    <3>8. Flat(h)
      BY <3>7
    <3>9. QED
      BY <3>8
  <2>2. Flat(flatten)
    BY <2>1
  <2>3. \A i \in 1..n : flatten[i] = IF i = 1 THEN q[i] ELSE flatten[i - 1] \o q[i]
    BY <2>2
  <2>4. FlattenSeq(q) = flatten[n]
    BY <1>3 DEF FlattenSeq
  <2> HIDE DEF flatten, n, X
  <2> DEFINE T == {k \in Nat : k + 1 <= n => flatten[k + 1] \in X}
  <2>5. 0 \in T
    BY <1>1, <2>3
  <2>6. ASSUME NEW k \in Nat, k \in T PROVE k + 1 \in T
    <3> SUFFICES ASSUME (k + 1) + 1 <= n PROVE flatten[(k + 1) + 1] \in X
      OBVIOUS
    <3>1. k + 1 <= n /\ (k + 1) + 1 \in 1..n /\ (k + 1) + 1 # 1 /\ ((k + 1) + 1) - 1 = k + 1
      BY <1>1
    <3>2. flatten[k + 1] \in X
      BY <2>6, <3>1
    <3>3. flatten[(k + 1) + 1] = flatten[k + 1] \o q[(k + 1) + 1]
      BY <2>3, <3>1
    <3>4. QED
      BY <1>1, <3>1, <3>2, <3>3, ConcatProperties DEF X
  <2>7. Nat \subseteq T
    <3>1. T \subseteq Nat
      OBVIOUS
    <3> HIDE DEF T
    <3>2. QED
      BY <2>5, <2>6, <3>1, SetInduction
  <2> DEFINE f == [i \in 0..n |-> IF i = 0 THEN <<>> ELSE flatten[i]]
  <2>8. \A i \in 1..n : f[i] = flatten[i] /\ f[i] \in X
    <3> SUFFICES ASSUME NEW i \in 1..n PROVE f[i] = flatten[i] /\ f[i] \in X
      OBVIOUS
    <3>1. i - 1 \in Nat /\ (i - 1) + 1 = i /\ i <= n /\ i \in 0..n /\ i # 0
      BY <1>1
    <3>2. i - 1 \in T
      BY <2>7, <3>1
    <3>3. flatten[(i - 1) + 1] \in X
      BY <3>1, <3>2
    <3> HIDE DEF T
    <3>4. QED
      BY <3>1, <3>3
  <2>9. f[0] = <<>> /\ <<>> \in X
    BY <1>1 DEF X
  <2>10. f \in [0..n -> X]
    <3>1. \A i \in 0..n : i = 0 \/ i \in 1..n
      BY <1>1
    <3> HIDE DEF X, T
    <3>2. \A i \in 0..n : f[i] \in X
      <4> HIDE DEF f
      <4>1. QED
        BY <2>8, <2>9, <3>1
    <3>3. QED
      BY <3>2
  <2>11. \A i \in 1..n : f[i] = f[i - 1] \o q[i]
    <3> SUFFICES ASSUME NEW i \in 1..n PROVE f[i] = f[i - 1] \o q[i]
      OBVIOUS
    <3> HIDE DEF f, T
    <3>1. CASE i = 1
      <4>1. f[i] = q[i] /\ i - 1 = 0
        BY <2>3, <2>8, <3>1
      <4>2. <<>> \o q[i] = q[i]
        BY <1>1, ConcatEmptySeq DEF X
      <4>3. QED
        BY <2>9, <4>1, <4>2
    <3>2. CASE i # 1
      <4>1. i - 1 \in 1..n
        BY <1>1, <3>2
      <4>2. QED
        BY <2>3, <2>8, <3>2, <4>1
    <3>3. QED
      BY <3>1, <3>2
  <2>12. FlattenSeq(q) = f[n]
    BY <1>1, <1>3, <2>4
  <2> HIDE DEF f
  <2>13. QED
    BY <2>9, <2>10, <2>11, <2>12 DEF X, n
<1>4. QED
  BY <1>2, <1>3

(* What it makes of sequences over a set is a sequence over it.            *)
LEMMA FlattenType ==
  ASSUME NEW S, NEW q \in Seq(Seq(S))
  PROVE  FlattenSeq(q) \in Seq(S)
<1>1. Len(q) \in Nat /\ Len(q) \in 0..Len(q)
  <2>1. Len(q) \in Nat
    BY LenProperties
  <2>2. QED
    BY <2>1
<1>2. PICK f \in [0..Len(q) -> Seq(S)] : FlattenSeq(q) = f[Len(q)]
  BY FlattenChain
<1>3. QED
  BY <1>1, <1>2

(* And with one more sequence behind them, that one is joined at the end.  *)
LEMMA FlattenAppend ==
  ASSUME NEW S, NEW q \in Seq(Seq(S)), NEW x \in Seq(S)
  PROVE  FlattenSeq(Append(q, x)) = FlattenSeq(q) \o x
<1> DEFINE n == Len(q)
           u == Append(q, x)
<1>1. n \in Nat /\ u \in Seq(Seq(S)) /\ Len(u) = n + 1 /\ u[n + 1] = x
      /\ \A i \in 1..n : u[i] = q[i]
  BY LenProperties, AppendProperties
<1>2. PICK f \in [0..n -> Seq(S)] :
        f[0] = <<>> /\ FlattenSeq(q) = f[n] /\ \A i \in 1..n : f[i] = f[i - 1] \o q[i]
  BY FlattenChain
<1>3. PICK g \in [0..Len(u) -> Seq(S)] :
        /\ g[0] = <<>> /\ FlattenSeq(u) = g[Len(u)]
        /\ \A i \in 1..Len(u) : g[i] = g[i - 1] \o u[i]
  <2> HIDE DEF u
  <2>1. QED
    BY <1>1, FlattenChain
<1> HIDE DEF n, u
<1> DEFINE T == {k \in Nat : k <= n => g[k] = f[k]}
<1>4. 0 \in T
  BY <1>2, <1>3
<1>5. ASSUME NEW k \in Nat, k \in T PROVE k + 1 \in T
  <2> SUFFICES ASSUME k + 1 <= n PROVE g[k + 1] = f[k + 1]
    OBVIOUS
  <2>1. k + 1 \in 1..n /\ k + 1 \in 1..Len(u) /\ (k + 1) - 1 = k /\ k <= n
    BY <1>1
  <2>2. g[k] = f[k]
    BY <1>5, <2>1
  <2> HIDE DEF T
  <2>3. g[k + 1] = g[k] \o u[k + 1] /\ f[k + 1] = f[k] \o q[k + 1] /\ u[k + 1] = q[k + 1]
    BY <1>1, <1>2, <1>3, <2>1
  <2>4. QED
    BY <2>2, <2>3
<1>6. g[n] = f[n]
  <2>1. T \subseteq Nat
    OBVIOUS
  <2> HIDE DEF T
  <2>2. n \in T
    BY <1>1, <1>4, <1>5, <2>1, SetInduction
  <2>3. QED
    BY <1>1, <2>2 DEF T
<1>7. g[n + 1] = g[n] \o x
  <2>1. n + 1 \in 1..Len(u) /\ (n + 1) - 1 = n
    BY <1>1
  <2>2. QED
    BY <1>1, <1>3, <2>1
<1>8. QED
  BY <1>1, <1>2, <1>3, <1>6, <1>7 DEF u

(* Lines as the server writes them: a status is 200, 454, or 401 from a    *)
(* server that asks for credentials, and a session is its own.             *)
Kinds == {"status", "authenticate", "length", "session", "blank", "body", "text", "byte"}
GoodLine(l) ==
  /\ l.line = "status" => l.v \in {200, 454} \/ (Auth /\ l.v = 401)
  /\ l.line = "session" => l.v = Id
Good == {l \in Lines : GoodLine(l)}

LEMMA LineGood ==
  ASSUME NEW kind \in Kinds, NEW v \in Nat,
         kind = "status" => v \in {200, 454} \/ (Auth /\ v = 401), kind = "session" => v = Id
  PROVE  Line(kind, v) \in Good
<1> DEFINE l == Line(kind, v)
<1>1. l \in Lines /\ l.line = kind /\ l.v = v
  BY DEF Line, Lines, Kinds
<1> HIDE DEF l
<1>2. QED
  BY <1>1 DEF Good, GoodLine, l

LEMMA GoodByte == \A v \in Nat : Byte(v) \in Good /\ Line("text", v) \in Good
<1> SUFFICES ASSUME NEW v \in Nat PROVE Byte(v) \in Good /\ Line("text", v) \in Good
  OBVIOUS
<1>1. Line("byte", v) \in Good
  BY LineGood DEF Kinds
<1>2. Line("text", v) \in Good
  BY LineGood DEF Kinds
<1>3. QED
  BY <1>1, <1>2 DEF Byte

(* The bytes of an item: a header of four, and the body; or two of a text. *)
Items == [text : BOOLEAN, channel : Nat, body : Seq(Nat)]

LEMMA TwoBytes ==
  \A n \in Nat : n \div 256 \in Nat /\ n % 256 \in Nat /\ (n \div 256) * 256 + (n % 256) = n
<1> SUFFICES ASSUME NEW n \in Nat
             PROVE  n \div 256 \in Nat /\ n % 256 \in Nat /\ (n \div 256) * 256 + (n % 256) = n
  OBVIOUS
<1>1. n \div 256 \in Nat
  OBVIOUS
<1>2. n % 256 \in Nat
  OBVIOUS
<1>3. (n \div 256) * 256 + (n % 256) = n
  BY SMTT(30)
<1>4. QED
  BY <1>1, <1>2, <1>3

(* The elements of two sequences joined.                                   *)
LEMMA Joined ==
  ASSUME NEW S, NEW s \in Seq(S), NEW t \in Seq(S)
  PROVE  /\ s \o t \in Seq(S) /\ Len(s) \in Nat /\ Len(t) \in Nat
         /\ Len(s \o t) = Len(s) + Len(t)
         /\ \A i \in 1..Len(s) : (s \o t)[i] = s[i]
         /\ \A i \in 1..Len(t) : (s \o t)[Len(s) + i] = t[i]
<1>1. Len(s) \in Nat /\ Len(t) \in Nat
  BY LenProperties
<1>2. /\ s \o t \in Seq(S) /\ Len(s \o t) = Len(s) + Len(t)
      /\ \A i \in 1..(Len(s) + Len(t)) :
           (s \o t)[i] = IF i <= Len(s) THEN s[i] ELSE t[i - Len(s)]
  BY ConcatProperties
<1>3. \A i \in 1..Len(s) : i \in 1..(Len(s) + Len(t)) /\ i <= Len(s)
  BY <1>1
<1>4. \A i \in 1..Len(t) : /\ Len(s) + i \in 1..(Len(s) + Len(t))
                           /\ ~(Len(s) + i <= Len(s)) /\ (Len(s) + i) - Len(s) = i
  BY <1>1
<1>5. \A i \in 1..Len(s) : (s \o t)[i] = s[i]
  BY <1>2, <1>3
<1>6. ASSUME NEW i \in 1..Len(t) PROVE (s \o t)[Len(s) + i] = t[i]
  <2>1. (s \o t)[Len(s) + i] = t[(Len(s) + i) - Len(s)]
    BY <1>2, <1>4
  <2>2. QED
    BY <1>4, <2>1
<1>7. QED
  BY <1>1, <1>2, <1>5, <1>6

LEMMA FourOf == ASSUME NEW S, NEW a \in S, NEW b \in S, NEW c \in S, NEW d \in S
                PROVE  <<a, b, c, d>> \in Seq(S) /\ Len(<<a, b, c, d>>) = 4
OBVIOUS

LEMMA BytesOver ==
  ASSUME NEW S, \A v \in Nat : Byte(v) \in S /\ Line("text", v) \in S, NEW item \in Items
  PROVE  /\ Bytes(item) \in Seq(S) /\ Len(item.body) \in Nat
         /\ item.text => Bytes(item) = <<Line("text", 0), Line("text", 0)>>
         /\ ~item.text =>
              /\ Len(Bytes(item)) = 4 + Len(item.body)
              /\ Bytes(item)[1] = Byte(Dollar) /\ Bytes(item)[2] = Byte(item.channel)
              /\ Bytes(item)[3] = Byte(Len(item.body) \div 256)
              /\ Bytes(item)[4] = Byte(Len(item.body) % 256)
              /\ \A i \in 1..Len(item.body) : Bytes(item)[4 + i] = Byte(item.body[i])
<1>1. Line("text", 0) \in S /\ Byte(Dollar) \in S /\ Byte(item.channel) \in S
  BY DEF Dollar, Items
<1>2. /\ Len(item.body) \in Nat /\ Len(item.body) \div 256 \in Nat /\ Len(item.body) % 256 \in Nat
      /\ DOMAIN item.body = 1..Len(item.body)
      /\ \A i \in DOMAIN item.body : item.body[i] \in Nat
  <2>1. item.body \in Seq(Nat)
    BY DEF Items
  <2>2. Len(item.body) \in Nat /\ DOMAIN item.body = 1..Len(item.body)
    BY <2>1, LenProperties
  <2>3. \A i \in DOMAIN item.body : item.body[i] \in Nat
    BY <2>1, <2>2, ElementOfSeq
  <2>4. Len(item.body) \div 256 \in Nat /\ Len(item.body) % 256 \in Nat
    BY <2>2, TwoBytes
  <2>5. QED
    BY <2>2, <2>3, <2>4
<1>3. Byte(Len(item.body) \div 256) \in S /\ Byte(Len(item.body) % 256) \in S
  BY <1>2
<1> DEFINE head == <<Byte(Dollar), Byte(item.channel), Byte(Len(item.body) \div 256),
                     Byte(Len(item.body) % 256)>>
           tail == [i \in DOMAIN item.body |-> Byte(item.body[i])]
<1>4. head \in Seq(S) /\ Len(head) = 4
  BY <1>1, <1>3, FourOf
<1>5. tail \in Seq(S) /\ Len(tail) = Len(item.body)
  <2>1. tail \in [1..Len(item.body) -> S]
    BY <1>2
  <2>2. tail \in Seq(S)
    BY <1>2, <2>1, SeqDef
  <2>3. DOMAIN tail = 1..Len(item.body) /\ DOMAIN tail = 1..Len(tail) /\ Len(tail) \in Nat
    BY <1>2, <2>2, LenProperties
  <2> HIDE DEF tail
  <2>4. QED
    BY <1>2, <2>2, <2>3
<1>6. CASE item.text
  <2>1. Bytes(item) = <<Line("text", 0), Line("text", 0)>>
    BY <1>6 DEF Bytes
  <2>2. QED
    BY <1>1, <1>2, <1>6, <2>1
<1>7. CASE ~item.text
  <2>1. Bytes(item) = head \o tail
    BY <1>7 DEF Bytes
  <2>2. /\ head[1] = Byte(Dollar) /\ head[2] = Byte(item.channel)
        /\ head[3] = Byte(Len(item.body) \div 256) /\ head[4] = Byte(Len(item.body) % 256)
        /\ \A i \in 1..Len(item.body) : tail[i] = Byte(item.body[i])
    BY <1>2
  <2> HIDE DEF head, tail
  <2>3. /\ head \o tail \in Seq(S) /\ Len(head \o tail) = Len(head) + Len(tail)
        /\ \A i \in 1..Len(head) : (head \o tail)[i] = head[i]
        /\ \A i \in 1..Len(tail) : (head \o tail)[Len(head) + i] = tail[i]
    <3>1. head \in Seq(S) /\ tail \in Seq(S)
      BY <1>4, <1>5
    <3>2. QED
      BY ONLY <3>1, Joined
  <2>4. Len(head) = 4 /\ Len(tail) = Len(item.body)
    BY <1>4, <1>5
  <2>5. /\ Bytes(item) \in Seq(S) /\ Len(Bytes(item)) = 4 + Len(item.body)
        /\ \A i \in 1..4 : Bytes(item)[i] = head[i]
        /\ \A i \in 1..Len(item.body) : Bytes(item)[4 + i] = tail[i]
    BY <2>1, <2>3, <2>4
  <2>6. 1 \in 1..4 /\ 2 \in 1..4 /\ 3 \in 1..4 /\ 4 \in 1..4
    OBVIOUS
  <2>7. /\ Bytes(item)[1] = Byte(Dollar) /\ Bytes(item)[2] = Byte(item.channel)
        /\ Bytes(item)[3] = Byte(Len(item.body) \div 256)
        /\ Bytes(item)[4] = Byte(Len(item.body) % 256)
    BY ZenonT(60), <2>2, <2>5, <2>6
  <2>8. \A i \in 1..Len(item.body) : Bytes(item)[4 + i] = Byte(item.body[i])
    BY <2>2, <2>5
  <2>9. QED
    BY <1>2, <1>7, <2>5, <2>7, <2>8
<1>8. QED
  BY <1>6, <1>7

(* The bytes of the first n items, and of all of them.                     *)
FirstItems(n) == [j \in 1..n |-> Bytes(Stream[j])]
Flat(n) == FlattenSeq(FirstItems(n))

LEMMA StreamItems ==
  /\ Len(Stream) \in Nat /\ DOMAIN Stream = 1..Len(Stream)
  /\ \A i \in 1..Len(Stream) : Stream[i] \in Items
  /\ StreamBytes = Flat(Len(Stream))
<1>1. Stream \in Seq(Items)
  BY ClientAssumption DEF Items
<1>2. /\ Len(Stream) \in Nat /\ DOMAIN Stream = 1..Len(Stream)
      /\ \A i \in 1..Len(Stream) : Stream[i] \in Items
  BY <1>1, LenProperties, ElementOfSeq
<1>3. QED
  BY <1>2 DEF StreamBytes, Flat, FirstItems

LEMMA FirstItemsOver ==
  ASSUME NEW S, \A v \in Nat : Byte(v) \in S /\ Line("text", v) \in S,
         NEW n \in 0..Len(Stream)
  PROVE  FirstItems(n) \in Seq(Seq(S)) /\ Len(FirstItems(n)) = n
<1>1. n \in Nat /\ \A i \in 1..n : Stream[i] \in Items
  BY StreamItems
<1>2. FirstItems(n) \in [1..n -> Seq(S)]
  BY <1>1, BytesOver DEF FirstItems
<1>3. FirstItems(n) \in Seq(Seq(S))
  BY <1>1, <1>2, SeqDef
<1>4. Len(FirstItems(n)) \in Nat /\ 1..n = 1..Len(FirstItems(n))
  BY <1>2, <1>3, LenProperties
<1>5. QED
  BY <1>1, <1>3, <1>4

LEMMA StreamOver ==
  ASSUME NEW S, \A v \in Nat : Byte(v) \in S /\ Line("text", v) \in S
  PROVE  StreamBytes \in Seq(S)
<1>1. Len(Stream) \in 0..Len(Stream)
  BY StreamItems
<1>2. FirstItems(Len(Stream)) \in Seq(Seq(S))
  BY <1>1, FirstItemsOver
<1>3. QED
  BY <1>2, StreamItems, FlattenType DEF Flat

LEMMA StreamGood == StreamBytes \in Seq(Good)
BY GoodByte, StreamOver

Welcome == <<Line("status", 200), Line("blank", 0)>>

LEMMA AnswerGood ==
  ASSUME NEW r \in Requests
  PROVE  /\ Answer(r) \in Seq(Good)
         /\ r.what = "OPTIONS" => Answer(r) = Welcome
         /\ r.what = "DESCRIBE" /\ Auth /\ ~r.auth => Answer(r) = Unauthorized
<1>1. /\ Line("status", 200) \in Good /\ Line("blank", 0) \in Good
      /\ Auth => Line("status", 401) \in Good
      /\ Line("authenticate", Credentials) \in Good /\ Line("session", Id) \in Good
      /\ \A n \in Nat : Line("length", n) \in Good
      /\ Line("body", 0) \in Good
  <2>1. Line("status", 200) \in Good
    BY LineGood DEF Kinds
  <2>2. Auth => Line("status", 401) \in Good
    BY LineGood DEF Kinds
  <2>3. Line("session", Id) \in Good
    BY LineGood DEF Kinds, Id
  <2>4. Line("blank", 0) \in Good
    BY LineGood DEF Kinds
  <2>5. Line("authenticate", Credentials) \in Good
    BY LineGood DEF Kinds, Credentials
  <2>6. Line("body", 0) \in Good
    BY LineGood DEF Kinds
  <2>7. ASSUME NEW n \in Nat PROVE Line("length", n) \in Good
    BY LineGood DEF Kinds
  <2>8. QED
    BY <2>1, <2>2, <2>3, <2>4, <2>5, <2>6, <2>7
<1>2. r.what \in {"OPTIONS", "DESCRIBE", "SETUP", "PLAY"} /\ r.auth \in BOOLEAN
  BY DEF Requests
<1>3. Body \in Seq(Good) /\ Len(Body) \in Nat
  BY <1>1 DEF Body
<1>4. CASE r.what = "OPTIONS"
  BY <1>1, <1>4 DEF Answer, Welcome
<1>5. CASE r.what = "DESCRIBE" /\ Auth /\ ~r.auth
  BY <1>1, <1>5 DEF Answer, Unauthorized
<1>6. CASE r.what = "DESCRIBE" /\ ~(Auth /\ ~r.auth)
  <2> DEFINE head == <<Line("status", 200), Line("length", Len(Body)), Line("blank", 0)>>
  <2>1. head \in Seq(Good)
    BY <1>1, <1>3
  <2>2. Answer(r) = head \o Body
    BY <1>6 DEF Answer
  <2> HIDE DEF head
  <2>3. Answer(r) \in Seq(Good)
    BY <1>3, <2>1, <2>2, ConcatProperties
  <2>4. QED
    BY <1>6, <2>3
<1>7. CASE r.what = "SETUP"
  BY <1>1, <1>7 DEF Answer
<1>8. CASE r.what = "PLAY"
  <2> DEFINE head == <<Line("status", 200), Line("session", Id), Line("blank", 0)>>
  <2>1. head \in Seq(Good)
    BY <1>1
  <2>2. Answer(r) = head \o StreamBytes
    BY <1>8 DEF Answer
  <2> HIDE DEF head
  <2>3. Answer(r) \in Seq(Good)
    BY StreamGood, <2>1, <2>2, ConcatProperties
  <2>4. QED
    BY <1>8, <2>3
<1>9. QED
  BY <1>2, <1>4, <1>5, <1>6, <1>7, <1>8

(* A refusal has no length and no session.                                 *)
LEMMA RefusalGood ==
  ASSUME NEW r, NEW a \in Refusal(r)
  PROVE  /\ a \in Seq(Good) /\ Len(a) \in {2, 3}
         /\ a[1].line = "status"
         /\ \A i \in 2..Len(a) : a[i].line \in {"authenticate", "blank"}
<1>1. CASE a = <<Line("status", 454), Line("blank", 0)>>
  <2>1. Line("status", 454) \in Good
    BY LineGood DEF Kinds
  <2>2. Line("blank", 0) \in Good
    BY LineGood DEF Kinds
  <2>3. Len(a) = 2 /\ a[1].line = "status" /\ a[2].line = "blank"
    BY <1>1 DEF Line
  <2>4. \A i \in 2..Len(a) : i = 2
    BY <2>3
  <2>5. a \in Seq(Good)
    BY <1>1, <2>1, <2>2
  <2>6. QED
    BY <2>3, <2>4, <2>5
<1>2. CASE a = Unauthorized /\ Auth
  <2>1. Line("status", 401) \in Good
    BY <1>2, LineGood DEF Kinds
  <2>2. Line("authenticate", Credentials) \in Good
    BY LineGood DEF Kinds, Credentials
  <2>3. Line("blank", 0) \in Good
    BY LineGood DEF Kinds
  <2>4. /\ Len(a) = 3 /\ a[1].line = "status" /\ a[2].line = "authenticate"
        /\ a[3].line = "blank"
    BY <1>2 DEF Line, Unauthorized
  <2>5. \A i \in 2..Len(a) : i = 2 \/ i = 3
    BY <2>4
  <2>6. a \in Seq(Good)
    BY <1>2, <2>1, <2>2, <2>3 DEF Unauthorized
  <2>7. QED
    BY <2>4, <2>5, <2>6
<1>3. QED
  BY <1>1, <1>2 DEF Refusal

(* What ParseRTSPMessage finds in good lines.                              *)
LEMMA FirstOf ==
  ASSUME NEW I, I \subseteq Nat, I # {}
  PROVE  Min(I) \in I /\ \A i \in I : Min(I) <= i
BY Least DEF Min

LEMMA GoodSlice ==
  ASSUME NEW S, NEW q \in Seq(S), NEW m \in Nat \ {0}, NEW n \in Nat, n <= Len(q)
  PROVE  /\ SubSeq(q, m, n) \in Seq(S)
         /\ \A i \in DOMAIN SubSeq(q, m, n) :
              m + i - 1 \in 1..Len(q) /\ SubSeq(q, m, n)[i] = q[m + i - 1]
<1>1. Len(q) \in Nat /\ \A i \in 1..Len(q) : q[i] \in S
  BY LenProperties, ElementOfSeq
<1>2. m \in Int /\ n \in Int /\ \A i \in m..n : q[i] \in S
  BY <1>1
<1> DEFINE r == SubSeq(q, m, n)
<1>3. /\ r \in Seq(S) /\ Len(r) = (IF m <= n THEN n - m + 1 ELSE 0)
      /\ \A i \in 1..(n - m + 1) : r[i] = q[m + i - 1]
  BY <1>2, SubSeqProperties
<1>4. DOMAIN r = 1..Len(r)
  BY <1>3, LenProperties
<1> HIDE DEF r
<1>5. \A i \in DOMAIN r : i \in 1..(n - m + 1) /\ m + i - 1 \in 1..Len(q)
  BY <1>1, <1>3, <1>4
<1>6. QED
  BY <1>3, <1>5 DEF r

(* A part of a line reads as text, or as a line of its kind.               *)
LEMMA PieceGood ==
  ASSUME NEW l \in Good, NEW p \in Pieces(l)
  PROVE  /\ p \in Lines /\ p.line \in {"text", l.line}
         /\ p.line = "status" /\ p.v = 401 => Auth
         /\ p.line = "session" => p.v \in 0..Id
<1>1. /\ l.v \in Nat /\ l \in Lines
      /\ l.line = "status" => l.v \in {200, 454} \/ (Auth /\ l.v = 401)
      /\ l.line = "session" => l.v = Id
  BY DEF Good, GoodLine, Lines
<1>2. CASE p = Line("text", 0)
  BY <1>2 DEF Line, Lines
<1>3. CASE l.line = "status" /\ p = Line("status", l.v \div 10)
  <2>1. l.v \div 10 \in Nat /\ l.v \div 10 # 401
    BY <1>1, <1>3
  <2>2. p.line = "status" /\ p.v = l.v \div 10 /\ p \in Lines
    BY <1>3, <2>1 DEF Line, Lines
  <2>3. QED
    BY <1>3, <2>1, <2>2
<1>4. CASE l.line = "status" /\ p = l
  BY <1>1, <1>4
<1>5. CASE l.line # "status" /\ \E v \in 0..l.v : p = Line(l.line, v)
  <2>1. PICK v \in 0..l.v : p = Line(l.line, v)
    BY <1>5
  <2>2. v \in Nat /\ p.line = l.line /\ p.v = v /\ p \in Lines
    BY <1>1, <2>1 DEF Line, Lines
  <2>3. QED
    BY <1>1, <1>5, <2>1, <2>2
<1>6. QED
  BY <1>2, <1>3, <1>4, <1>5 DEF Pieces

(* The last line may have come in part.                                    *)
PartOf(p, q, c) ==
  \/ p = <<>>
  \/ /\ q # <<>> /\ \E l \in Pieces(q[Len(q)]) : p = <<l>>
     /\ q[Len(q)].line = "session" => c
PartFits == PartOf(part, buf, cut)

LEMMA GoodSeen ==
  ASSUME buf \in Seq(Good), PartFits
  PROVE  /\ Seen \in Seq(Lines) /\ Len(Seen) = Len(buf) /\ Len(buf) \in Nat
         /\ DOMAIN buf = 1..Len(buf)
         /\ \A i \in 1..Len(buf) :
              /\ Seen[i] \in Lines /\ Seen[i].line \in {"text", buf[i].line}
              /\ Seen[i].line = "status" /\ Seen[i].v = 401 => Auth
              /\ Seen[i].line = "session" => Seen[i].v \in 0..Id /\ (~cut => Seen[i].v = Id)
         /\ \A i \in 1..Len(buf) : i < Len(buf) \/ part = <<>> => Seen[i] = buf[i]
<1>1. Len(buf) \in Nat /\ DOMAIN buf = 1..Len(buf) /\ \A i \in 1..Len(buf) : buf[i] \in Good
  BY LenProperties, ElementOfSeq
<1>2. \A i \in 1..Len(buf) :
        /\ buf[i] \in Lines /\ (buf[i].line = "status" /\ buf[i].v = 401 => Auth)
        /\ buf[i].line = "session" => buf[i].v \in 0..Id /\ buf[i].v = Id
  BY <1>1 DEF Good, GoodLine, Id
<1>3. CASE part = <<>>
  <2>1. Seen = buf
    BY <1>3 DEF Seen
  <2>2. buf \in Seq(Lines)
    <3>1. Good \subseteq Lines
      BY DEF Good
    <3>2. QED
      BY <3>1, SeqMonotonic
  <2>3. QED
    BY <1>1, <1>2, <2>1, <2>2
<1>4. CASE part # <<>>
  <2>1. PICK l \in Pieces(buf[Len(buf)]) : part = <<l>>
    BY <1>4 DEF PartFits, PartOf
  <2>2. buf # <<>> /\ (buf[Len(buf)].line = "session" => cut)
    BY <1>4 DEF PartFits, PartOf
  <2>3. Len(buf) \in 1..Len(buf)
    BY <1>1, <2>2, EmptySeq
  <2>4. Seen = [buf EXCEPT ![Len(buf)] = l]
    BY <1>4, <2>1 DEF Seen
  <2>5. /\ l \in Lines /\ l.line \in {"text", buf[Len(buf)].line}
        /\ l.line = "status" /\ l.v = 401 => Auth
        /\ l.line = "session" => l.v \in 0..Id
    BY <1>1, <2>3, PieceGood
  <2>6. \A i \in 1..Len(buf) : Seen[i] = IF i = Len(buf) THEN l ELSE buf[i]
    BY <1>1, <2>4
  <2>7. Seen \in [1..Len(buf) -> Lines]
    BY <1>1, <1>2, <2>4, <2>5
  <2>8. Seen \in Seq(Lines)
    BY <1>1, <2>7, SeqDef
  <2>9. Len(Seen) = Len(buf)
    <3>1. Len(Seen) \in Nat /\ 1..Len(buf) = 1..Len(Seen)
      BY <2>7, <2>8, LenProperties
    <3>2. QED
      BY <1>1, <3>1
  <2>10. ASSUME NEW i \in 1..Len(buf)
         PROVE  /\ Seen[i] \in Lines /\ Seen[i].line \in {"text", buf[i].line}
                /\ Seen[i].line = "status" /\ Seen[i].v = 401 => Auth
                /\ Seen[i].line = "session" => Seen[i].v \in 0..Id /\ (~cut => Seen[i].v = Id)
    <3>1. CASE i = Len(buf)
      <4>1. Seen[i] = l
        BY <2>6, <3>1
      <4>2. l.line = "session" => cut
        BY <2>2, <2>5
      <4>3. QED
        BY <2>5, <3>1, <4>1, <4>2
    <3>2. CASE i # Len(buf)
      BY <1>2, <2>6, <3>2
    <3>3. QED
      BY <3>1, <3>2
  <2>11. ASSUME NEW i \in 1..Len(buf), i < Len(buf) PROVE Seen[i] = buf[i]
    <3>1. i # Len(buf)
      <4>1. Len(buf) \in Nat
        BY <1>1
      <4>2. QED
        BY ONLY <2>11, <4>1
    <3>2. QED
      BY <2>6, <3>1
  <2>12. QED
    BY <1>1, <1>4, <2>8, <2>9, <2>10, <2>11
<1>5. QED
  BY <1>3, <1>4

IsFirst(at, kind, from, to) ==
  /\ at \in Nat
  /\ at = 0 => \A i \in from..to : Seen[i].line # kind
  /\ at # 0 => /\ at \in from..to /\ Seen[at].line = kind
               /\ \A i \in from..(at - 1) : Seen[i].line # kind

LEMMA FirstFound ==
  ASSUME NEW kind, NEW from \in Nat \ {0}, NEW to \in Nat
  PROVE  IsFirst(FirstLine(kind, from, to), kind, from, to)
<1> DEFINE I == {i \in from..to : Seen[i].line = kind}
           at == FirstLine(kind, from, to)
<1>1. at = IF I = {} THEN 0 ELSE Min(I)
  BY DEF FirstLine
<1>2. I # {} => Min(I) \in I /\ \A i \in I : Min(I) <= i
  <2>1. I \subseteq Nat
    OBVIOUS
  <2> HIDE DEF I
  <2>2. QED
    BY <2>1, FirstOf
<1> HIDE DEF at
<1>3. CASE I = {}
  <2>1. at = 0
    BY <1>1, <1>3
  <2>2. \A i \in from..to : Seen[i].line # kind
    BY <1>3
  <2>3. QED
    BY <2>1, <2>2 DEF at, IsFirst
<1>4. CASE I # {}
  <2>1. at \in I /\ \A i \in I : at <= i
    BY <1>1, <1>2, <1>4
  <2>2. at \in from..to /\ Seen[at].line = kind /\ at \in Nat /\ at # 0
    BY <2>1
  <2>3. ASSUME NEW i \in from..(at - 1) PROVE Seen[i].line # kind
    <3>1. i \in from..to /\ ~(at <= i)
      BY <2>2
    <3>2. QED
      BY <2>1, <3>1
  <2>4. QED
    BY <2>2, <2>3 DEF at, IsFirst
<1>5. QED
  BY <1>3, <1>4

LEMMA GoodStatus ==
  ASSUME buf \in Seq(Good), PartFits
  PROVE  /\ Status \in 0..Len(buf)
         /\ Status # 0 => /\ Status \in DOMAIN buf
                          /\ Seen[Status].line = "status" /\ buf[Status].line = "status"
                          /\ Seen[Status].v = 401 => Auth
         /\ \A i \in 1..Len(buf) : i < Status \/ Status = 0 => Seen[i].line # "status"
<1>1. Len(buf) \in Nat /\ 1 \in Nat \ {0} /\ DOMAIN buf = 1..Len(buf)
  BY GoodSeen
<1>2. /\ Status \in Nat
      /\ Status = 0 => \A i \in 1..Len(buf) : Seen[i].line # "status"
      /\ Status # 0 => /\ Status \in 1..Len(buf) /\ Seen[Status].line = "status"
                       /\ \A i \in 1..(Status - 1) : Seen[i].line # "status"
  <2>1. Len(buf) \in Nat /\ 1 \in Nat \ {0}
    BY <1>1
  <2>2. IsFirst(Status, "status", 1, Len(buf))
    BY ONLY <2>1, FirstFound DEF Status
  <2>3. QED
    BY ONLY <2>2 DEF IsFirst
<1>3. Status # 0 => buf[Status].line = "status" /\ (Seen[Status].v = 401 => Auth)
  BY <1>2, GoodSeen
<1>4. ASSUME NEW i \in 1..Len(buf), i < Status \/ Status = 0 PROVE Seen[i].line # "status"
  <2>1. CASE Status = 0
    BY <1>2, <2>1
  <2>2. CASE Status # 0
    <3>1. i \in 1..(Status - 1)
      BY <1>1, <1>2, <1>4, <2>2
    <3>2. QED
      BY <1>2, <2>2, <3>1
  <2>3. QED
    BY <2>1, <2>2
<1>5. QED
  BY <1>1, <1>2, <1>3, <1>4

LEMMA GoodMessage ==
  ASSUME buf \in Seq(Good), PartFits
  PROVE  /\ Used \in Status..Len(buf) /\ Used \in Nat /\ Len(buf) \in Nat
         /\ Blank \in Nat /\ (Blank # 0 => Blank = Used /\ Used > Status)
<1>1. Len(buf) \in Nat /\ Status \in 0..Len(buf) /\ Status + 1 \in Nat \ {0}
  <2>1. Len(buf) \in Nat /\ Status \in 0..Len(buf)
    BY GoodStatus, LenProperties
  <2>2. QED
    BY <2>1
<1>2. Blank \in Nat /\ (Blank # 0 => Blank \in (Status + 1)..Len(buf))
  BY <1>1, FirstFound DEF Blank, IsFirst
<1>3. QED
  BY <1>1, <1>2 DEF Used

LEMMA GoodValue ==
  ASSUME buf \in Seq(Good), PartFits, NEW key
  PROVE  /\ Value(key) \in Nat
         /\ Value(key) # 0 =>
              \E i \in DOMAIN buf : buf[i].line = key \/ key = "text"
         /\ key = "session" =>
              Value(key) \in 0..Id /\ (~cut => Value(key) \in {0, Id})
<1> DEFINE at == FirstLine(key, Status + 1, Used)
<1>1. Value(key) = IF at = 0 THEN 0 ELSE Seen[at].v
  BY DEF Value
<1>2. /\ Status \in Nat /\ Status + 1 \in Nat \ {0} /\ Used \in Nat /\ Used <= Len(buf)
      /\ Len(buf) \in Nat
  <2>1. Status \in 0..Len(buf) /\ Len(buf) \in Nat /\ Used \in Status..Len(buf) /\ Used \in Nat
    BY GoodStatus, GoodMessage
  <2>2. QED
    BY <2>1
<1>3. at \in Nat /\ (at # 0 => at \in (Status + 1)..Used /\ Seen[at].line = key)
  BY <1>2, FirstFound DEF IsFirst
<1> HIDE DEF at
<1>4. at # 0 => at \in 1..Len(buf) /\ Seen[at].line = key
  BY <1>2, <1>3
<1>5. CASE at = 0
  BY <1>1, <1>5 DEF Id
<1>6. CASE at # 0
  <2>1. /\ Seen[at] \in Lines /\ Seen[at].line \in {"text", buf[at].line}
        /\ Seen[at].line = "session" => Seen[at].v \in 0..Id /\ (~cut => Seen[at].v = Id)
        /\ at \in DOMAIN buf /\ Seen[at].line = key
    BY <1>4, <1>6, GoodSeen
  <2>2. Seen[at].v \in Nat /\ Value(key) = Seen[at].v
    BY <1>1, <1>6, <2>1 DEF Lines
  <2>3. QED
    BY <2>1, <2>2
<1>7. QED
  BY <1>5, <1>6

LEMMA GoodAfter ==
  ASSUME buf \in Seq(Good), NEW n \in Nat
  PROVE  /\ After(n) \in Seq(Good)
         /\ \A i \in DOMAIN After(n) : n + i \in 1..Len(buf) /\ After(n)[i] = buf[n + i]
         /\ Len(After(n)) = IF n <= Len(buf) THEN Len(buf) - n ELSE 0
<1>1. Len(buf) \in Nat /\ n + 1 \in Nat \ {0} /\ \A i \in 1..Len(buf) : buf[i] \in Good
  BY LenProperties, ElementOfSeq
<1> DEFINE r == SubSeq(buf, n + 1, Len(buf))
<1>2. /\ r \in Seq(Good)
      /\ \A i \in DOMAIN r : (n + 1) + i - 1 \in 1..Len(buf) /\ r[i] = buf[(n + 1) + i - 1]
  BY <1>1, GoodSlice
<1>3. DOMAIN r \subseteq Nat
  BY <1>2, LenProperties
<1>4. Len(r) = IF n <= Len(buf) THEN Len(buf) - n ELSE 0
  <2>1. \A i \in (n + 1)..Len(buf) : buf[i] \in Good
    BY <1>1
  <2>2. Len(r) = IF n + 1 <= Len(buf) THEN Len(buf) - (n + 1) + 1 ELSE 0
    BY <1>1, <2>1, SubSeqProperties
  <2> HIDE DEF r
  <2>3. QED
    BY <1>1, <2>2
<1> HIDE DEF r
<1>5. \A i \in DOMAIN r : n + i \in 1..Len(buf) /\ r[i] = buf[n + i]
  <2>1. \A i \in DOMAIN r : (n + 1) + i - 1 = n + i
    BY <1>3
  <2>2. QED
    BY <1>2, <2>1
<1>6. QED
  BY <1>2, <1>4, <1>5 DEF After, r

(* What stays in the buffer when an answer was used: what came behind it,  *)
(* or the rest of a line that was used in part.                            *)
Shortened == <<Line("text", 0)>>

LEMMA GoodUse ==
  ASSUME buf \in Seq(Good), PartFits, NEW n \in Nat, Use(n), cut' = cut
  PROVE  /\ buf' \in Seq(Good) /\ PartFits'
         /\ \/ buf' = After(n) /\ part' = part
            \/ part # <<>> /\ n >= Len(buf) /\ buf' = Shortened /\ part' = Shortened
<1>1. Len(buf) \in Nat /\ DOMAIN buf = 1..Len(buf)
  BY LenProperties
<1>2. CASE part # <<>> /\ n >= Len(buf)
  <2>1. buf' = Shortened /\ part' = Shortened
    BY <1>2 DEF Use, Shortened
  <2>2. Line("text", 0) \in Good
    BY GoodByte
  <2>3. Shortened \in Seq(Good) /\ Len(Shortened) = 1 /\ Shortened[1] = Line("text", 0)
        /\ Shortened # <<>>
    BY <2>2 DEF Shortened
  <2>4. Line("text", 0) \in Pieces(Line("text", 0)) /\ Line("text", 0).line = "text"
    BY DEF Pieces, Line
  <2>5. PartOf(Shortened, Shortened, cut')
    BY <2>3, <2>4 DEF PartOf, Shortened
  <2>6. QED
    BY <1>2, <2>1, <2>3, <2>5 DEF PartFits
<1>3. CASE ~(part # <<>> /\ n >= Len(buf))
  <2>0. Len(buf) \in Nat
    BY <1>1
  <2>1. buf' = After(n) /\ part' = part
    BY <1>3 DEF Use
  <2>2. After(n) \in Seq(Good)
    BY GoodAfter
  <2>3. PartOf(part, After(n), cut)
    <3>1. CASE part = <<>>
      BY <3>1 DEF PartOf
    <3>2. CASE part # <<>>
      <4>1. n < Len(buf)
        BY <1>1, <1>3, <3>2
      <4>2. /\ Len(After(n)) = Len(buf) - n /\ Len(After(n)) \in Nat \ {0}
        <5>1. Len(After(n)) = IF n <= Len(buf) THEN Len(buf) - n ELSE 0
          BY GoodAfter
        <5>2. QED
          BY ONLY <2>0, <4>1, <5>1, n \in Nat
      <4>3. Len(After(n)) \in DOMAIN After(n) /\ n + Len(After(n)) = Len(buf)
        <5>1. DOMAIN After(n) = 1..Len(After(n))
          BY <2>2, LenProperties
        <5>2. QED
          BY ONLY <2>0, <4>2, <5>1, n \in Nat
      <4>4. After(n)[Len(After(n))] = buf[Len(buf)]
        BY <4>3, GoodAfter
      <4>5. After(n) # <<>>
        BY <4>2
      <4>6. QED
        BY <3>2, <4>4, <4>5 DEF PartFits, PartOf
    <3>3. QED
      BY <3>1, <3>2
  <2>4. QED
    BY <2>1, <2>2, <2>3 DEF PartFits
<1>4. QED
  BY <1>2, <1>3

-----------------------------------------------------------------------------
(***************************************************************************)
(* The dialogue.  Until the server is known to want credentials or not,    *)
(* nothing that is on its way to the client has a length: neither what     *)
(* answers OPTIONS nor a refusal.  So no description can be taken, and the *)
(* client cannot go on without credentials, whatever it takes for the      *)
(* answer to what.                                                         *)
(***************************************************************************)
ClientTypes ==
  /\ stat \in {"NONE", "OPTIONS", "DESCRIBE", "PLAY", "PLAYING", "failed"}
            \cup {SetupOf(media) : media \in Media}
  /\ todo \in {"step", "recv"}
  /\ buf \in Seq(Good) /\ wire \in Seq(Good) /\ PartFits
  /\ realm \in BOOLEAN /\ trouble \in BOOLEAN /\ cut \in BOOLEAN
  /\ session \in 0..Id /\ (~cut => session \in {0, Id}) /\ setup \subseteq Media
  /\ asked \in Seq(Requests) /\ served \in 0..Len(asked) /\ refused \in Nat
  /\ dropped \in Nat

NoLength(q) == \A i \in DOMAIN q : q[i].line # "length"
Early == stat \in {"NONE", "OPTIONS"} \/ (stat = "DESCRIBE" /\ Auth /\ ~realm)
Bare(r) == r.what = "OPTIONS" \/ (Auth /\ r.what = "DESCRIBE" /\ ~r.auth)

Greeting ==
  Early => NoLength(buf) /\ NoLength(wire) /\ \A i \in DOMAIN asked : Bare(asked[i])

(* How often each medium was set up, and with what PLAY is asked for.      *)
SetupsIn(q, m) == {j \in DOMAIN q : q[j].what = "SETUP" /\ q[j].media = m}

Prepared ==
  /\ realm => Auth
  /\ stat \in {"NONE", "OPTIONS"} => ~realm
  /\ stat \notin {"NONE", "OPTIONS", "DESCRIBE", "failed"} => realm = Auth
  /\ stat \in {"NONE", "OPTIONS", "DESCRIBE"} => setup = {}
  /\ \A m \in Media :
       IF m \in setup THEN \E j \in DOMAIN asked : SetupsIn(asked, m) = {j}
                      ELSE SetupsIn(asked, m) = {}
  /\ stat \notin {"PLAY", "PLAYING", "failed"} => \A i \in DOMAIN asked : asked[i].what # "PLAY"
  /\ \A i \in DOMAIN asked : asked[i].what = "PLAY" =>
       /\ i = Len(asked) /\ asked[i].auth = Auth /\ setup = Media
       /\ asked[i].session # 0 /\ (~cut => asked[i].session = Id)

Dialogue == ClientTypes /\ Greeting /\ Prepared

(* A request more.                                                         *)
LEMMA AskOne ==
  ASSUME ClientTypes, NEW r \in Requests, asked' = Append(asked, r)
  PROVE  /\ asked' \in Seq(Requests) /\ Len(asked') = Len(asked) + 1
         /\ DOMAIN asked = 1..Len(asked) /\ DOMAIN asked' = 1..(Len(asked) + 1)
         /\ Len(asked) \in Nat
         /\ \A i \in DOMAIN asked : asked'[i] = asked[i]
         /\ asked'[Len(asked) + 1] = r
         /\ served \in 0..Len(asked')
         /\ \A m : SetupsIn(asked', m) =
              IF r.what = "SETUP" /\ r.media = m
              THEN SetupsIn(asked, m) \cup {Len(asked) + 1} ELSE SetupsIn(asked, m)
<1>1. /\ asked' \in Seq(Requests) /\ Len(asked') = Len(asked) + 1
      /\ DOMAIN asked = 1..Len(asked) /\ DOMAIN asked' = 1..(Len(asked) + 1)
      /\ Len(asked) \in Nat
      /\ \A i \in DOMAIN asked : asked'[i] = asked[i]
      /\ asked'[Len(asked) + 1] = r
  BY AppendProperties, LenProperties DEF ClientTypes
<1>2. served \in 0..Len(asked')
  BY <1>1 DEF ClientTypes
<1>3. ASSUME NEW m
      PROVE  SetupsIn(asked', m) =
               IF r.what = "SETUP" /\ r.media = m
               THEN SetupsIn(asked, m) \cup {Len(asked) + 1} ELSE SetupsIn(asked, m)
  <2>1. \A j \in 1..Len(asked) : j \in SetupsIn(asked', m) <=> j \in SetupsIn(asked, m)
    BY <1>1 DEF SetupsIn
  <2>2. Len(asked) + 1 \in SetupsIn(asked', m) <=> r.what = "SETUP" /\ r.media = m
    BY <1>1 DEF SetupsIn
  <2>3. SetupsIn(asked', m) \subseteq 1..(Len(asked) + 1) /\ SetupsIn(asked, m) \subseteq 1..Len(asked)
    BY <1>1 DEF SetupsIn
  <2>4. \A j \in 1..(Len(asked) + 1) : j \in 1..Len(asked) \/ j = Len(asked) + 1
    BY <1>1
  <2>5. CASE r.what = "SETUP" /\ r.media = m
    <3>1. \A j : j \in SetupsIn(asked', m) <=> j \in SetupsIn(asked, m) \/ j = Len(asked) + 1
      BY <2>1, <2>2, <2>3, <2>4, <2>5
    <3>2. SetupsIn(asked', m) = SetupsIn(asked, m) \cup {Len(asked) + 1}
      BY <3>1
    <3>3. QED
      BY <2>5, <3>2
  <2>6. CASE ~(r.what = "SETUP" /\ r.media = m)
    <3>1. \A j \in 1..Len(asked) : j \in 1..(Len(asked) + 1)
      BY <1>1
    <3>2. \A j : j \in SetupsIn(asked', m) <=> j \in SetupsIn(asked, m)
      BY <2>1, <2>2, <2>3, <2>4, <2>6
    <3>3. SetupsIn(asked', m) = SetupsIn(asked, m)
      BY <3>2
    <3>4. QED
      BY <2>6, <3>3
  <2>7. QED
    BY <2>5, <2>6
<1>4. QED
  BY <1>1, <1>2, <1>3

LEMMA InitDialogue == ClientInit => Dialogue
<1> SUFFICES ASSUME ClientInit PROVE Dialogue
  OBVIOUS
<1>1. <<>> \in Seq(Good) /\ <<>> \in Seq(Requests) /\ DOMAIN <<>> = {} /\ Len(<<>>) = 0
  OBVIOUS
<1>2. ClientTypes
  <2>1. served \in 0..Len(asked) /\ dropped \in Nat /\ setup \subseteq Media
    BY <1>1 DEF ClientInit
  <2>2. /\ stat \in {"NONE", "OPTIONS", "DESCRIBE", "PLAY", "PLAYING", "failed"}
        /\ todo \in {"step", "recv"}
        /\ realm \in BOOLEAN /\ trouble \in BOOLEAN /\ cut \in BOOLEAN
    BY DEF ClientInit
  <2>3. session \in 0..Id /\ session \in {0, Id} /\ refused \in Nat
    <3>1. session = 0 /\ refused = 0
      BY DEF ClientInit
    <3>2. QED
      BY ONLY <3>1 DEF Id
  <2>4. buf \in Seq(Good) /\ wire \in Seq(Good) /\ asked \in Seq(Requests)
    BY <1>1 DEF ClientInit
  <2>5. PartFits
    BY DEF ClientInit, PartFits, PartOf
  <2>6. QED
    BY <2>1, <2>2, <2>3, <2>4, <2>5 DEF ClientTypes
<1>3. Greeting
  BY <1>1 DEF ClientInit, Greeting, NoLength
<1>4. Prepared
  BY <1>1 DEF ClientInit, Prepared, SetupsIn
<1>5. QED
  BY <1>2, <1>3, <1>4 DEF Dialogue

(* What stays in the buffer has no length if it had none.                  *)
LEMMA UseNoLength ==
  ASSUME ClientTypes, NEW n \in Nat, Use(n), cut' = cut, NoLength(buf)
  PROVE  NoLength(buf')
<1>1. buf \in Seq(Good) /\ PartFits
  BY DEF ClientTypes
<1>2. CASE buf' = After(n)
  <2>1. \A i \in DOMAIN After(n) : n + i \in 1..Len(buf) /\ After(n)[i] = buf[n + i]
    BY <1>1, GoodAfter
  <2>2. DOMAIN buf = 1..Len(buf)
    BY <1>1, LenProperties
  <2>3. QED
    BY <1>2, <2>1, <2>2 DEF NoLength
<1>3. CASE buf' = Shortened
  <2>1. DOMAIN buf' = {1} /\ buf'[1].line = "text"
    BY <1>3 DEF Shortened, Line
  <2>2. QED
    BY <2>1 DEF NoLength
<1>4. QED
  BY <1>1, <1>2, <1>3, GoodUse

(* A request that is neither SETUP nor PLAY disturbs nothing of Prepared.  *)
LEMMA AskFirst ==
  ASSUME Dialogue, NEW r \in Requests, r.what \notin {"SETUP", "PLAY"},
         asked' = Append(asked, r), setup' = setup,
         stat \in {"NONE", "OPTIONS", "DESCRIBE"}, stat' \in {"OPTIONS", "DESCRIBE"},
         realm' => Auth, stat' = "OPTIONS" => ~realm'
  PROVE  Prepared'
<1>1. ClientTypes /\ Prepared
  BY DEF Dialogue
<1>2. \A m : SetupsIn(asked', m) = SetupsIn(asked, m)
  BY <1>1, AskOne
<1>3. \A i \in DOMAIN asked' : asked'[i].what # "PLAY"
  <2>1. \A i \in DOMAIN asked : asked'[i].what # "PLAY"
    BY <1>1, AskOne DEF Prepared
  <2>2. asked'[Len(asked) + 1].what # "PLAY"
    BY <1>1, AskOne
  <2>3. \A i \in DOMAIN asked' : i \in DOMAIN asked \/ i = Len(asked) + 1
    BY <1>1, AskOne
  <2>4. QED
    BY <2>1, <2>2, <2>3
<1>4. \A m \in Media : SetupsIn(asked', m) = {} /\ setup' = {}
  BY <1>1, <1>2 DEF Prepared
<1>5. setup' = {}
  BY <1>1 DEF Prepared
<1>6. QED
  BY <1>3, <1>4, <1>5 DEF Prepared

LEMMA NoLengthBoth ==
  ASSUME NEW p \in Seq(Good), NEW q \in Seq(Good), NoLength(p), NoLength(q)
  PROVE  NoLength(p \o q)
<1> SUFFICES ASSUME NEW i \in DOMAIN (p \o q)
             PROVE  (p \o q)[i].line # "length"
  BY DEF NoLength
<1>1. /\ Len(p) \in Nat /\ Len(q) \in Nat
      /\ DOMAIN p = 1..Len(p) /\ DOMAIN q = 1..Len(q)
      /\ i \in 1..(Len(p) + Len(q))
      /\ (p \o q)[i] = IF i <= Len(p) THEN p[i] ELSE q[i - Len(p)]
  <2>1. /\ Len(p) \in Nat /\ Len(q) \in Nat
        /\ DOMAIN p = 1..Len(p) /\ DOMAIN q = 1..Len(q)
    BY LenProperties
  <2>2. p \o q \in Seq(Good) /\ Len(p \o q) = Len(p) + Len(q)
    BY ConcatProperties
  <2>3. i \in 1..(Len(p) + Len(q))
    BY <2>2, LenProperties
  <2>4. QED
    BY <2>1, <2>3, ConcatProperties
<1>2. CASE i <= Len(p)
  <2>1. i \in DOMAIN p /\ (p \o q)[i] = p[i]
    BY <1>1, <1>2
  <2>2. QED
    BY <2>1 DEF NoLength
<1>3. CASE ~(i <= Len(p))
  <2>1. i - Len(p) \in DOMAIN q /\ (p \o q)[i] = q[i - Len(p)]
    BY <1>1, <1>3
  <2>2. QED
    BY <2>1 DEF NoLength
<1>4. QED
  BY <1>2, <1>3

LEMMA AskBare ==
  ASSUME ClientTypes, NEW r \in Requests, asked' = Append(asked, r), Bare(r),
         \A i \in DOMAIN asked : Bare(asked[i])
  PROVE  \A i \in DOMAIN asked' : Bare(asked'[i])
<1>1. /\ \A i \in DOMAIN asked : asked'[i] = asked[i]
      /\ asked'[Len(asked) + 1] = r
      /\ \A i \in DOMAIN asked' : i \in DOMAIN asked \/ i = Len(asked) + 1
  BY AskOne
<1>2. QED
  BY <1>1

LEMMA StepFail ==
  ASSUME Dialogue, Fail, UNCHANGED <<served, refused, wire, cut, dropped>>,
         trouble' \in BOOLEAN
  PROVE  Dialogue'
<1>1. ClientTypes'
  BY DEF Fail, Dialogue, ClientTypes, PartFits
<1>2. Greeting'
  BY DEF Fail, Greeting, Early
<1>3. Prepared'
  BY DEF Fail, Dialogue, Prepared, SetupsIn
<1>4. QED
  BY <1>1, <1>2, <1>3 DEF Dialogue

LEMMA StepWaiting ==
  ASSUME Dialogue, Incomplete, UNCHANGED <<served, refused, wire, trouble, cut>>,
         dropped' \in Nat
  PROVE  Dialogue'
<1>1. ClientTypes'
  BY DEF Incomplete, Dialogue, ClientTypes, PartFits
<1>2. Greeting'
  BY DEF Incomplete, Dialogue, Greeting, Early
<1>3. Prepared'
  BY DEF Incomplete, Dialogue, Prepared, SetupsIn
<1>4. QED
  BY <1>1, <1>2, <1>3 DEF Dialogue

LEMMA DecodeFrame ==
  ASSUME Dialogue, Decode
  PROVE  /\ UNCHANGED <<served, refused, wire, trouble, cut, rx>>
         /\ dropped' \in Nat /\ Len(After(Used)) \in Nat
<1>1. buf \in Seq(Good) /\ PartFits /\ dropped \in Nat
  BY DEF Dialogue, ClientTypes
<1>2. Len(After(Used)) \in Nat
  BY <1>1, GoodMessage, GoodAfter, LenProperties
<1>3. QED
  BY <1>1, <1>2 DEF Decode, server

LEMMA StepSendOptions ==
  ASSUME Dialogue, Decode, SendOptions PROVE Dialogue'
<1> DEFINE r == [what |-> "OPTIONS", media |-> "none", auth |-> FALSE, session |-> session']
<1>1. /\ stat = "NONE" /\ stat' = "OPTIONS" /\ todo' = "recv" /\ asked' = Append(asked, r)
      /\ UNCHANGED <<buf, part, realm, session, setup>>
  BY DEF SendOptions, Await, Ask
<1>2. r \in Requests
  BY <1>1 DEF Requests, Dialogue, ClientTypes
<1>3. r.what = "OPTIONS"
  OBVIOUS
<1> HIDE DEF r
<1>4. /\ ClientTypes /\ UNCHANGED <<served, refused, wire, trouble, cut>>
      /\ dropped' \in Nat
  BY DecodeFrame DEF Dialogue
<1>5. ClientTypes'
  BY <1>1, <1>2, <1>4, AskOne DEF ClientTypes, PartFits
<1>6. Greeting'
  <2>1. NoLength(buf) /\ NoLength(wire) /\ \A i \in DOMAIN asked : Bare(asked[i])
    BY <1>1 DEF Dialogue, Greeting, Early
  <2>2. \A i \in DOMAIN asked' : Bare(asked'[i])
    BY <1>1, <1>2, <1>3, <1>4, <2>1, AskBare DEF Bare
  <2>3. QED
    BY <1>1, <1>4, <2>1, <2>2 DEF Greeting
<1>7. Prepared'
  BY <1>1, <1>2, <1>3, <1>4, AskFirst DEF Dialogue, Prepared
<1>8. QED
  BY <1>5, <1>6, <1>7 DEF Dialogue

LEMMA StepDecodeOptions ==
  ASSUME Dialogue, Decode, DecodeOptions PROVE Dialogue'
<1> DEFINE r == [what |-> "DESCRIBE", media |-> "none", auth |-> FALSE, session |-> session']
<1>1. /\ stat = "OPTIONS" /\ stat' = "DESCRIBE" /\ todo' = "recv" /\ asked' = Append(asked, r)
      /\ UNCHANGED <<realm, session, setup>> /\ Use(Used)
  BY DEF DecodeOptions, Await, Ask
<1>2. r \in Requests
  BY <1>1 DEF Requests, Dialogue, ClientTypes
<1>3. r.what = "DESCRIBE" /\ ~r.auth
  OBVIOUS
<1> HIDE DEF r
<1>4. /\ ClientTypes /\ UNCHANGED <<served, refused, wire, trouble, cut>>
      /\ dropped' \in Nat /\ Used \in Nat
  BY DecodeFrame, GoodMessage DEF Dialogue, ClientTypes
<1>5. buf' \in Seq(Good) /\ PartFits'
  BY <1>1, <1>4, GoodUse DEF ClientTypes
<1>6. ClientTypes'
  BY <1>1, <1>2, <1>4, <1>5, AskOne DEF ClientTypes
<1>7. Greeting'
  <2>1. NoLength(buf) /\ NoLength(wire) /\ \A i \in DOMAIN asked : Bare(asked[i])
    BY <1>1 DEF Dialogue, Greeting, Early
  <2>2. NoLength(buf')
    BY <1>1, <1>4, <2>1, UseNoLength
  <2>3. CASE Auth
    <3>1. \A i \in DOMAIN asked' : Bare(asked'[i])
      BY <1>1, <1>2, <1>3, <1>4, <2>1, <2>3, AskBare DEF Bare
    <3>2. QED
      BY <1>4, <2>1, <2>2, <3>1 DEF Greeting
  <2>4. CASE ~Auth
    BY <1>1, <2>4 DEF Greeting, Early
  <2>5. QED
    BY <2>3, <2>4
<1>8. Prepared'
  BY <1>1, <1>2, <1>3, <1>4, AskFirst DEF Dialogue, Prepared
<1>9. QED
  BY <1>6, <1>7, <1>8 DEF Dialogue

LEMMA StepUnauthorized ==
  ASSUME Dialogue, Decode, DecodeUnauthorized PROVE Dialogue'
<1>1. CASE Value("authenticate") = 0
  BY <1>1, DecodeFrame, StepWaiting DEF DecodeUnauthorized
<1>2. CASE Value("authenticate") # 0
  <2> DEFINE r == [what |-> "DESCRIBE", media |-> "none", auth |-> realm', session |-> session']
  <2>1. /\ stat = "DESCRIBE" /\ stat' = "DESCRIBE" /\ todo' = "recv" /\ asked' = Append(asked, r)
        /\ UNCHANGED <<session, setup>> /\ Use(Used)
        /\ realm' = (realm \/ Value("authenticate") = Credentials)
        /\ Status # 0 /\ Seen[Status].v = 401
    BY <1>2 DEF DecodeUnauthorized, Await, Ask
  <2>2. realm' \in BOOLEAN /\ r \in Requests
    <3>1. realm' \in BOOLEAN
      BY <2>1 DEF Dialogue, ClientTypes
    <3>2. QED
      BY <2>1, <3>1 DEF Requests, Dialogue, ClientTypes
  <2>3. r.what = "DESCRIBE" /\ r.auth = realm'
    OBVIOUS
  <2> HIDE DEF r
  <2>4. /\ ClientTypes /\ UNCHANGED <<served, refused, wire, trouble, cut>>
        /\ dropped' \in Nat /\ Used \in Nat
    BY DecodeFrame, GoodMessage DEF Dialogue, ClientTypes
  <2>5. buf' \in Seq(Good) /\ PartFits'
    BY <2>1, <2>4, GoodUse DEF ClientTypes
  <2>6. Auth
    BY <2>1, <2>4, GoodStatus DEF ClientTypes
  <2>7. ClientTypes'
    BY <2>1, <2>2, <2>4, <2>5, AskOne DEF ClientTypes
  <2>8. Greeting'
    <3>1. CASE realm'
      BY <2>1, <3>1 DEF Greeting, Early
    <3>2. CASE ~realm'
      <4>1. ~realm
        BY <2>1, <3>2
      <4>2. NoLength(buf) /\ NoLength(wire) /\ \A i \in DOMAIN asked : Bare(asked[i])
        BY <2>1, <2>6, <4>1 DEF Dialogue, Greeting, Early
      <4>3. NoLength(buf')
        BY <2>1, <2>4, <4>2, UseNoLength
      <4>4. Bare(r)
        BY <2>3, <2>6, <3>2 DEF Bare
      <4>5. \A i \in DOMAIN asked' : Bare(asked'[i])
        BY <2>1, <2>2, <2>4, <4>2, <4>4, AskBare
      <4>6. QED
        BY <2>4, <4>2, <4>3, <4>5 DEF Greeting
    <3>3. QED
      BY <3>1, <3>2
  <2>9. Prepared'
    BY <2>1, <2>2, <2>3, <2>6, AskFirst
  <2>10. QED
    BY <2>7, <2>8, <2>9 DEF Dialogue
<1>3. QED
  BY <1>1, <1>2

LEMMA StepDescribe ==
  ASSUME Dialogue, Decode, DecodeDescribe PROVE Dialogue'
<1>1. CASE Incomplete
  BY <1>1, DecodeFrame, StepWaiting
<1>2. CASE Fail
  <2>1. UNCHANGED <<served, refused, wire, trouble, cut, dropped>>
    BY <1>2, DecodeFrame DEF Decode, Fail
  <2>2. trouble' \in BOOLEAN
    BY <2>1 DEF Dialogue, ClientTypes
  <2>3. QED
    BY <1>2, <2>1, <2>2, StepFail
<1>3. CASE ~Incomplete /\ ~Fail
  <2> DEFINE medium == IF "video" \in Media THEN "video" ELSE "audio"
             r == [what |-> "SETUP", media |-> medium, auth |-> realm, session |-> session']
  <2>1. /\ stat = "DESCRIBE" /\ stat' = SetupOf(medium) /\ todo' = "recv"
        /\ asked' = Append(asked, r) /\ UNCHANGED <<realm, session>>
        /\ Use(Used + Value("length")) /\ setup' = {medium}
        /\ BodyThere /\ Media # {}
    BY <1>3 DEF DecodeDescribe, Await, Ask
  <2>2. medium \in Media
    BY <2>1, ClientAssumption
  <2>3. r \in Requests
    BY <2>1, <2>2 DEF Requests, Dialogue, ClientTypes
  <2>4. r.what = "SETUP" /\ r.media = medium
    OBVIOUS
  <2> HIDE DEF medium, r
  <2>5. ClientTypes /\ Prepared /\ UNCHANGED <<served, refused, wire, trouble, cut>> /\ dropped' \in Nat
    BY DecodeFrame DEF Dialogue
  <2>6. buf' \in Seq(Good) /\ PartFits'
    <3>1. Used \in Nat /\ Value("length") \in Nat
      BY <2>5, GoodMessage, GoodValue DEF ClientTypes
    <3>2. Used + Value("length") \in Nat
      BY <3>1
    <3>3. QED
      BY <2>1, <2>5, <3>2, GoodUse DEF ClientTypes
  <2>7. ClientTypes'
    <3>1. setup' \subseteq Media /\ stat' \in {SetupOf(media) : media \in Media}
      BY <2>1, <2>2
    <3>2. QED
      BY <2>1, <2>3, <2>5, <2>6, <3>1, AskOne DEF ClientTypes
  <2>8. stat' \in {"STEUP_VIDEO", "STEUP_ADUIO"}
    BY <2>1 DEF SetupOf
  <2>9. Greeting'
    BY <2>8 DEF Greeting, Early
  <2>10. realm = Auth
    <3>1. ~(Auth /\ ~realm)
      <4> SUFFICES ASSUME Auth, ~realm PROVE FALSE
        OBVIOUS
      <4>1. NoLength(buf)
        BY <2>1 DEF Dialogue, Greeting, Early
      <4>2. \E i \in DOMAIN buf : buf[i].line = "length"
        BY <2>1, <2>5, GoodValue DEF ClientTypes, BodyThere
      <4>3. QED
        BY <4>1, <4>2 DEF NoLength
    <3>2. realm \in BOOLEAN /\ Auth \in BOOLEAN /\ (realm => Auth)
      BY <2>5, ClientAssumption DEF ClientTypes, Prepared
    <3>3. QED
      BY <3>1, <3>2
  <2>11. Prepared'
    <3>1. ASSUME NEW m \in Media
          PROVE  IF m \in setup' THEN \E j \in DOMAIN asked' : SetupsIn(asked', m) = {j}
                                 ELSE SetupsIn(asked', m) = {}
      <4>1. SetupsIn(asked, m) = {}
        BY <2>1, <2>5 DEF Prepared
      <4>2. CASE m = medium
        <5>1. SetupsIn(asked', m) = SetupsIn(asked, m) \cup {Len(asked) + 1}
          BY <2>1, <2>3, <2>4, <2>5, <4>2, AskOne
        <5>2. Len(asked) + 1 \in DOMAIN asked'
          BY <2>1, <2>3, <2>5, AskOne
        <5>3. SetupsIn(asked', m) = {Len(asked) + 1}
          BY <4>1, <5>1
        <5>4. QED
          BY <2>1, <4>2, <5>2, <5>3
      <4>3. CASE m # medium
        <5>1. SetupsIn(asked', m) = SetupsIn(asked, m)
          BY <2>1, <2>3, <2>4, <2>5, <4>3, AskOne
        <5>2. QED
          BY <2>1, <4>1, <4>3, <5>1
      <4>4. QED
        BY <4>2, <4>3
    <3>2. \A i \in DOMAIN asked' : asked'[i].what # "PLAY"
      <4>1. \A i \in DOMAIN asked : asked[i].what # "PLAY"
        BY <2>1, <2>5 DEF Prepared
      <4>2. /\ \A i \in DOMAIN asked : asked'[i] = asked[i]
            /\ asked'[Len(asked) + 1] = r
            /\ \A i \in DOMAIN asked' : i \in DOMAIN asked \/ i = Len(asked) + 1
        BY <2>1, <2>3, <2>5, AskOne
      <4>3. QED
        BY <2>4, <4>1, <4>2
    <3>3. realm' = Auth
      BY <2>1, <2>10
    <3>4. realm' => Auth
      BY <3>3
    <3>5. QED
      BY <2>8, <3>1, <3>2, <3>3, <3>4 DEF Prepared
  <2>12. QED
    BY <2>7, <2>9, <2>11 DEF Dialogue
<1>4. QED
  BY <1>1, <1>2, <1>3

(* After a SETUP come the next one, of a medium not set up yet, or PLAY.   *)
LEMMA StepSetup ==
  ASSUME Dialogue, Decode, DecodeSetup PROVE Dialogue'
<1>1. CASE Value("session") = 0
  BY <1>1, DecodeFrame, StepWaiting DEF DecodeSetup
<1>2. CASE Value("session") # 0
  <2>1. /\ stat \in {"STEUP_VIDEO", "STEUP_ADUIO"}
        /\ Use(Used) /\ realm' = realm
        /\ session' = IF session = 0 THEN Value("session") ELSE session
    BY <1>2 DEF DecodeSetup, SetupOf
  <2>2. /\ ClientTypes /\ Prepared /\ UNCHANGED <<served, refused, wire, trouble, cut>>
        /\ dropped' \in Nat /\ Used \in Nat
    BY DecodeFrame, GoodMessage DEF Dialogue, ClientTypes
  <2>3. buf' \in Seq(Good) /\ PartFits'
    BY <2>1, <2>2, GoodUse DEF ClientTypes
  <2>4. session' \in 0..Id /\ session' # 0 /\ (~cut' => session' = Id)
    BY <1>2, <2>1, <2>2, GoodValue DEF ClientTypes
  <2>5. realm = Auth /\ \A i \in DOMAIN asked : asked[i].what # "PLAY"
    BY <2>1, <2>2 DEF Prepared
  <2>6. CASE StillToSetUp = {}
    <3> DEFINE r == [what |-> "PLAY", media |-> "none", auth |-> realm, session |-> session']
    <3>1. stat' = "PLAY" /\ todo' = "recv" /\ asked' = Append(asked, r) /\ setup' = setup
      BY <1>2, <2>6 DEF DecodeSetup, Await, Ask
    <3>2. r \in Requests
      BY <2>2, <2>4 DEF Requests, ClientTypes
    <3>3. r.what = "PLAY" /\ r.auth = Auth /\ r.session = session'
      BY <2>4, <2>5
    <3> HIDE DEF r
    <3>4. setup = Media
      BY <2>2, <2>6 DEF StillToSetUp, ClientTypes
    <3>5. ClientTypes'
      BY <2>1, <2>2, <2>3, <2>4, <3>1, <3>2, AskOne DEF ClientTypes
    <3>6. Greeting'
      BY <3>1 DEF Greeting, Early
    <3>7. \A m \in Media :
            IF m \in setup' THEN \E j \in DOMAIN asked' : SetupsIn(asked', m) = {j}
                            ELSE SetupsIn(asked', m) = {}
      <4>1. \A m : SetupsIn(asked', m) = SetupsIn(asked, m)
        BY <2>2, <3>1, <3>2, <3>3, AskOne
      <4>2. \A j \in DOMAIN asked : j \in DOMAIN asked'
        BY <2>2, <3>1, <3>2, AskOne
      <4>3. QED
        BY <2>2, <3>1, <4>1, <4>2 DEF Prepared
    <3>8. \A i \in DOMAIN asked' : asked'[i].what = "PLAY" =>
            /\ i = Len(asked') /\ asked'[i].auth = Auth /\ setup' = Media
            /\ asked'[i].session # 0 /\ (~cut' => asked'[i].session = Id)
      <4>1. /\ \A i \in DOMAIN asked : asked'[i] = asked[i]
            /\ asked'[Len(asked) + 1] = r /\ Len(asked') = Len(asked) + 1
            /\ \A i \in DOMAIN asked' : i \in DOMAIN asked \/ i = Len(asked) + 1
        BY <2>2, <3>1, <3>2, AskOne
      <4>2. QED
        BY <2>4, <2>5, <3>1, <3>3, <3>4, <4>1
    <3>9. realm' = Auth /\ (realm' => Auth)
      BY <2>1, <2>5
    <3>10. Prepared'
      BY <3>1, <3>7, <3>8, <3>9 DEF Prepared
    <3>11. QED
      BY <3>5, <3>6, <3>10 DEF Dialogue
  <2>7. CASE StillToSetUp # {}
    <3>1. PICK media \in StillToSetUp :
            /\ Await(SetupOf(media)) /\ setup' = setup \cup {media}
            /\ Ask("SETUP", media, realm)
      BY <1>2, <2>7 DEF DecodeSetup
    <3> DEFINE r == [what |-> "SETUP", media |-> media, auth |-> realm, session |-> session']
    <3>2. stat' = SetupOf(media) /\ todo' = "recv" /\ asked' = Append(asked, r)
      BY <3>1 DEF Await, Ask
    <3>3. media \in Media /\ media \notin setup
      BY DEF StillToSetUp
    <3>4. r \in Requests
      BY <2>2, <2>4, <3>3 DEF Requests, ClientTypes
    <3>5. r.what = "SETUP" /\ r.media = media
      OBVIOUS
    <3> HIDE DEF r
    <3>6. ClientTypes'
      <4>1. setup' \subseteq Media /\ stat' \in {SetupOf(m) : m \in Media}
        BY <2>2, <3>1, <3>2, <3>3 DEF ClientTypes
      <4>2. QED
        BY <2>1, <2>2, <2>3, <2>4, <3>2, <3>4, <4>1, AskOne DEF ClientTypes
    <3>7. stat' \in {"STEUP_VIDEO", "STEUP_ADUIO"}
      BY <3>2 DEF SetupOf
    <3>8. Greeting'
      BY <3>7 DEF Greeting, Early
    <3>9. ASSUME NEW m \in Media
          PROVE  IF m \in setup' THEN \E j \in DOMAIN asked' : SetupsIn(asked', m) = {j}
                                 ELSE SetupsIn(asked', m) = {}
      <4>1. CASE m = media
        <5>1. SetupsIn(asked, m) = {}
          BY <2>2, <3>3, <4>1 DEF Prepared
        <5>2. SetupsIn(asked', m) = SetupsIn(asked, m) \cup {Len(asked) + 1}
          BY <2>2, <3>2, <3>4, <3>5, <4>1, AskOne
        <5>3. Len(asked) + 1 \in DOMAIN asked'
          BY <2>2, <3>2, <3>4, AskOne
        <5>4. SetupsIn(asked', m) = {Len(asked) + 1}
          BY <5>1, <5>2
        <5>5. QED
          BY <3>1, <4>1, <5>3, <5>4
      <4>2. CASE m # media
        <5>1. SetupsIn(asked', m) = SetupsIn(asked, m)
          BY <2>2, <3>2, <3>4, <3>5, <4>2, AskOne
        <5>2. \A j \in DOMAIN asked : j \in DOMAIN asked'
          BY <2>2, <3>2, <3>4, AskOne
        <5>3. m \in setup' <=> m \in setup
          BY <3>1, <4>2
        <5>4. QED
          BY <2>2, <5>1, <5>2, <5>3 DEF Prepared
      <4>3. QED
        BY <4>1, <4>2
    <3>10. \A i \in DOMAIN asked' : asked'[i].what # "PLAY"
      <4>1. /\ \A i \in DOMAIN asked : asked'[i] = asked[i]
            /\ asked'[Len(asked) + 1] = r
            /\ \A i \in DOMAIN asked' : i \in DOMAIN asked \/ i = Len(asked) + 1
        BY <2>2, <3>2, <3>4, AskOne
      <4>2. QED
        BY <2>5, <3>5, <4>1
    <3>11. realm' = Auth /\ (realm' => Auth)
      BY <2>1, <2>5
    <3>12. Prepared'
      BY <3>7, <3>9, <3>10, <3>11 DEF Prepared
    <3>13. QED
      BY <3>6, <3>8, <3>12 DEF Dialogue
  <2>8. QED
    BY <2>6, <2>7
<1>3. QED
  BY <1>1, <1>2

LEMMA StepPlay ==
  ASSUME Dialogue, Decode, DecodePlay PROVE Dialogue'
<1>1. CASE Value("session") = 0
  BY <1>1, DecodeFrame, StepWaiting DEF DecodePlay
<1>2. CASE Value("session") # 0
  <2>1. /\ stat = "PLAY" /\ stat' = "PLAYING" /\ buf' = <<>> /\ part' = <<>>
        /\ UNCHANGED <<todo, realm, session, setup, asked>>
    BY <1>2 DEF DecodePlay
  <2>2. ClientTypes /\ Prepared /\ UNCHANGED <<served, refused, wire, trouble, cut>> /\ dropped' \in Nat
    BY DecodeFrame DEF Dialogue
  <2>3. ClientTypes'
    <3>1. PartFits' /\ buf' \in Seq(Good)
      BY <2>1 DEF PartFits, PartOf
    <3>2. QED
      BY <2>1, <2>2, <3>1 DEF ClientTypes
  <2>4. Greeting'
    BY <2>1 DEF Greeting, Early
  <2>5. Prepared'
    BY <2>1, <2>2 DEF Prepared, SetupsIn
  <2>6. QED
    BY <2>3, <2>4, <2>5 DEF Dialogue
<1>3. QED
  BY <1>1, <1>2

LEMMA StepDecode ==
  ASSUME Dialogue, Decode PROVE Dialogue'
<1>1. CASE NoStatus
  <2>1. Fail /\ UNCHANGED <<served, refused, wire, trouble, cut, dropped>>
    BY <1>1, DecodeFrame DEF Decode, Fail, NoStatus
  <2>2. trouble' \in BOOLEAN
    BY <2>1 DEF Dialogue, ClientTypes
  <2>3. QED
    BY <2>1, <2>2, StepFail
<1>2. CASE SendOptions
  BY <1>2, StepSendOptions
<1>3. CASE DecodeOptions
  BY <1>3, StepDecodeOptions
<1>4. CASE DecodeUnauthorized
  BY <1>4, StepUnauthorized
<1>5. CASE DecodeDescribe
  BY <1>5, StepDescribe
<1>6. CASE DecodeSetup
  BY <1>6, StepSetup
<1>7. CASE DecodePlay
  BY <1>7, StepPlay
<1>8. QED
  BY <1>1, <1>2, <1>3, <1>4, <1>5, <1>6, <1>7 DEF Decode

(* The network moves lines and changes none.                               *)
LEMMA LinesCome ==
  ASSUME ClientTypes, NEW n \in 0..Len(wire), Come(n)
  PROVE  /\ buf' \in Seq(Good) /\ wire' \in Seq(Good) /\ buf' \o wire' = buf \o wire
         /\ n > 0 => buf' # <<>> /\ buf'[Len(buf')] = wire[n]
         /\ NoLength(buf) /\ NoLength(wire) => NoLength(buf') /\ NoLength(wire')
<1>1. buf' = buf \o SubSeq(wire, 1, n) /\ wire' = SubSeq(wire, n + 1, Len(wire))
  BY DEF Come
<1>2. /\ buf \in Seq(Good) /\ wire \in Seq(Good) /\ Len(wire) \in Nat /\ n \in Nat
      /\ n <= Len(wire) /\ Len(buf) \in Nat
  <2>1. buf \in Seq(Good) /\ wire \in Seq(Good) /\ Len(wire) \in Nat /\ Len(buf) \in Nat
    BY LenProperties DEF ClientTypes
  <2>2. QED
    BY <2>1
<1> DEFINE got == SubSeq(wire, 1, n)
           left == SubSeq(wire, n + 1, Len(wire))
<1>3. /\ got \in Seq(Good) /\ left \in Seq(Good)
      /\ \A i \in DOMAIN got : i \in 1..Len(wire) /\ got[i] = wire[i]
      /\ \A i \in DOMAIN left : n + i \in 1..Len(wire) /\ left[i] = wire[n + i]
      /\ Len(got) = n /\ Len(left) = Len(wire) - n
  <2>1. /\ got \in Seq(Good)
        /\ \A i \in DOMAIN got : 1 + i - 1 \in 1..Len(wire) /\ got[i] = wire[1 + i - 1]
    <3>1. 1 \in Nat \ {0} /\ n \in Nat
      BY <1>2
    <3>2. QED
      BY <1>2, <3>1, GoodSlice
  <2>2. /\ left \in Seq(Good)
        /\ \A i \in DOMAIN left : (n + 1) + i - 1 \in 1..Len(wire) /\ left[i] = wire[(n + 1) + i - 1]
    <3>1. n + 1 \in Nat \ {0} /\ Len(wire) \in Nat /\ Len(wire) <= Len(wire)
      BY <1>2
    <3>2. QED
      BY <1>2, <3>1, GoodSlice
  <2>3. Len(got) = n
    <3>1. \A i \in 1..n : wire[i] \in Good
      BY <1>2, ElementOfSeq
    <3>2. Len(got) = IF 1 <= n THEN n - 1 + 1 ELSE 0
      BY <1>2, <3>1, SubSeqProperties
    <3>3. QED
      BY <1>2, <3>2
  <2>4. Len(left) = Len(wire) - n
    <3>1. \A i \in (n + 1)..Len(wire) : wire[i] \in Good
      BY <1>2, ElementOfSeq
    <3>2. Len(left) = IF n + 1 <= Len(wire) THEN Len(wire) - (n + 1) + 1 ELSE 0
      BY <1>2, <3>1, SubSeqProperties
    <3>3. QED
      BY <1>2, <3>2
  <2>5. \A i \in DOMAIN got : i \in Nat /\ 1 + i - 1 = i
    BY <2>1, LenProperties
  <2>6. \A i \in DOMAIN left : i \in Nat /\ (n + 1) + i - 1 = n + i
    <3>1. DOMAIN left \subseteq Nat
      BY <2>2, LenProperties
    <3> HIDE DEF left
    <3>2. QED
      BY <1>2, <3>1
  <2>7. \A i \in DOMAIN got : i \in 1..Len(wire) /\ got[i] = wire[i]
    <3> HIDE DEF got
    <3>1. QED
      BY <2>1, <2>5
  <2>8. \A i \in DOMAIN left : n + i \in 1..Len(wire) /\ left[i] = wire[n + i]
    <3> HIDE DEF left
    <3>1. QED
      BY <2>2, <2>6
  <2>9. QED
    BY <2>1, <2>2, <2>3, <2>4, <2>7, <2>8
<1>4. buf' = buf \o got /\ wire' = left
  BY <1>1
<1>5. wire = got \o left
  <2>1. got \o left \in Seq(Good) /\ Len(got \o left) = Len(wire)
    <3> HIDE DEF got, left
    <3>1. got \in Seq(Good) /\ left \in Seq(Good) /\ n + (Len(wire) - n) = Len(wire)
      BY <1>2, <1>3
    <3>2. got \o left \in Seq(Good) /\ Len(got \o left) = Len(got) + Len(left)
      BY ONLY <3>1, ConcatProperties
    <3>3. QED
      BY <1>3, <3>1, <3>2
  <2>2. \A i \in 1..Len(wire) : (got \o left)[i] = wire[i]
    <3> SUFFICES ASSUME NEW i \in 1..Len(wire) PROVE (got \o left)[i] = wire[i]
      OBVIOUS
    <3>1. DOMAIN got = 1..n /\ DOMAIN left = 1..(Len(wire) - n)
      BY <1>3, LenProperties
    <3>2. (got \o left)[i] = IF i <= n THEN got[i] ELSE left[i - n]
      <4>1. i \in 1..(Len(got) + Len(left))
        BY <1>2, <1>3
      <4>2. (got \o left)[i] = IF i <= Len(got) THEN got[i] ELSE left[i - Len(got)]
        BY <1>3, <4>1, ConcatProperties
      <4>3. QED
        BY <1>3, <4>2
    <3> HIDE DEF got, left
    <3>3. CASE i <= n
      <4>1. i \in DOMAIN got
        BY <1>2, <3>1, <3>3
      <4>2. QED
        BY <1>3, <3>2, <3>3, <4>1
    <3>4. CASE ~(i <= n)
      <4>1. i - n \in DOMAIN left /\ n + (i - n) = i
        BY <1>2, <3>1, <3>4
      <4>2. left[i - n] = wire[n + (i - n)]
        BY <1>3, <4>1
      <4>3. QED
        BY <3>2, <3>4, <4>1, <4>2
    <3>5. QED
      BY <3>3, <3>4
  <2>3. QED
    BY <1>2, <2>1, <2>2, SeqEqual
<1> HIDE DEF got, left
<1>6. buf' \in Seq(Good) /\ buf' \o wire' = buf \o wire
  <2>1. buf \o got \in Seq(Good)
    BY <1>2, <1>3, ConcatProperties
  <2>2. (buf \o got) \o left = buf \o (got \o left)
    BY <1>2, <1>3, ConcatAssociative
  <2>3. QED
    BY <1>4, <1>5, <2>1, <2>2
<1>7. ASSUME n > 0 PROVE buf' # <<>> /\ buf'[Len(buf')] = wire[n]
  <2>1. /\ Len(buf \o got) = Len(buf) + Len(got)
        /\ \A i \in 1..Len(got) : (buf \o got)[Len(buf) + i] = got[i]
    <3>1. buf \in Seq(Good) /\ got \in Seq(Good)
      BY <1>2, <1>3
    <3>2. QED
      BY ONLY <3>1, Joined
  <2>2. n \in 1..Len(got) /\ n \in DOMAIN got /\ Len(buf) + n # 0
    <3>1. DOMAIN got = 1..Len(got)
      BY <1>3, LenProperties
    <3>2. QED
      BY <1>2, <1>3, <1>7, <3>1
  <2>3. Len(buf') = Len(buf) + n /\ buf'[Len(buf) + n] = got[n] /\ got[n] = wire[n]
    BY <1>3, <1>4, <2>1, <2>2
  <2>4. QED
    BY <2>2, <2>3
<1>8. ASSUME NoLength(buf), NoLength(wire) PROVE NoLength(buf') /\ NoLength(wire')
  <2>1. DOMAIN wire = 1..Len(wire)
    BY <1>2, LenProperties
  <2>2. NoLength(wire') /\ NoLength(got)
    BY <1>3, <1>4, <1>8, <2>1 DEF NoLength
  <2>3. QED
    BY <1>2, <1>3, <1>4, <1>8, <2>2, NoLengthBoth
<1>9. QED
  BY <1>3, <1>4, <1>6, <1>7, <1>8

LEMMA StepComing ==
  ASSUME Dialogue, NEW n \in 0..Len(wire), Come(n), PartFits', trouble' \in BOOLEAN,
         cut' \in BOOLEAN, cut => cut'
  PROVE  Dialogue'
<1>1. /\ todo' = "step"
      /\ UNCHANGED <<stat, realm, session, setup, asked, served, refused, dropped>>
  BY DEF Come, server
<1>2. ClientTypes
  BY DEF Dialogue
<1>3. buf' \in Seq(Good) /\ wire' \in Seq(Good)
  BY <1>2, LinesCome
<1>4. ClientTypes'
  BY <1>1, <1>2, <1>3 DEF ClientTypes
<1>5. Greeting'
  <2>1. NoLength(buf) /\ NoLength(wire) => NoLength(buf') /\ NoLength(wire')
    BY <1>2, LinesCome
  <2>2. QED
    BY <1>1, <2>1 DEF Dialogue, Greeting, Early
<1>6. Prepared'
  BY <1>1 DEF Dialogue, Prepared, SetupsIn
<1>7. QED
  BY <1>4, <1>5, <1>6 DEF Dialogue

LEMMA StepReceive ==
  ASSUME Dialogue, Receive PROVE Dialogue' /\ buf' \o wire' = buf \o wire
<1>1. PICK n \in 0..Len(wire) :
        /\ Come(n)
        /\ trouble' = (trouble \/ (n < Len(wire) /\ wire[n + 1].line \notin {"byte", "text"}))
  BY DEF Receive
<1>2. ClientTypes /\ part' = <<>> /\ cut' = cut
  BY DEF Receive, Dialogue
<1>3. PartFits' /\ trouble' \in BOOLEAN /\ cut' \in BOOLEAN
  BY <1>1, <1>2 DEF PartFits, PartOf, ClientTypes
<1>4. QED
  BY <1>1, <1>2, <1>3, StepComing, LinesCome

LEMMA StepReceiveCut ==
  ASSUME Dialogue, ReceiveCut PROVE Dialogue' /\ buf' \o wire' = buf \o wire
<1>1. PICK n \in 1..Len(wire) :
        /\ Come(n) /\ \E l \in Pieces(wire[n]) : part' = <<l>>
        /\ cut' = (cut \/ wire[n].line = "session")
  BY DEF ReceiveCut
<1>2. ClientTypes /\ trouble' = TRUE /\ n \in 0..Len(wire) /\ n > 0
  <2>1. Len(wire) \in Nat
    BY LenProperties DEF Dialogue, ClientTypes
  <2>2. QED
    BY <2>1 DEF ReceiveCut, Dialogue
<1>3. buf' # <<>> /\ buf'[Len(buf')] = wire[n]
  BY <1>1, <1>2, LinesCome
<1>4. PartFits'
  BY <1>1, <1>3 DEF PartFits, PartOf
<1>5. cut' \in BOOLEAN /\ (cut => cut')
  BY <1>1, <1>2 DEF ClientTypes
<1>6. QED
  BY <1>1, <1>2, <1>4, <1>5, StepComing, LinesCome

(* An answer or a refusal; before the credentials are known, without a     *)
(* length.                                                                 *)
LEMMA StepServerAnswers ==
  ASSUME Dialogue, ServerAnswers PROVE Dialogue'
<1>1. /\ served < Len(asked) /\ served' = served + 1
      /\ UNCHANGED <<stat, todo, buf, part, realm, session, setup, asked, trouble, cut, dropped>>
  BY DEF ServerAnswers, dialogue
<1>2. ClientTypes /\ Len(asked) \in Nat /\ served \in Nat
  <2>1. ClientTypes /\ Len(asked) \in Nat
    BY LenProperties DEF Dialogue, ClientTypes
  <2>2. QED
    BY <2>1 DEF ClientTypes
<1> DEFINE r == asked[served + 1]
<1>3. r \in Requests /\ served + 1 \in DOMAIN asked
  <2>1. served + 1 \in 1..Len(asked) /\ DOMAIN asked = 1..Len(asked)
    BY <1>1, <1>2, LenProperties DEF ClientTypes
  <2>2. QED
    BY <1>2, <2>1, ElementOfSeq DEF ClientTypes
<1>4. PICK a \in {Answer(r)} \cup Refusal(r) :
        wire' = wire \o a /\ (refused' = refused \/ refused' = refused + 1)
  BY DEF ServerAnswers
<1> HIDE DEF r
<1>5. a \in Seq(Good)
  BY <1>3, AnswerGood, RefusalGood
<1>6. wire' \in Seq(Good)
  BY <1>2, <1>4, <1>5, ConcatProperties DEF ClientTypes
<1>7. ClientTypes'
  <2>1. served' \in 0..Len(asked')
    BY <1>1, <1>2
  <2>2. refused' \in Nat
    BY <1>2, <1>4 DEF ClientTypes
  <2>3. QED
    BY <1>1, <1>2, <1>6, <2>1, <2>2 DEF ClientTypes, PartFits
<1>8. Greeting'
  <2> SUFFICES ASSUME Early' PROVE NoLength(wire')
    BY <1>1 DEF Dialogue, Greeting, Early
  <2>1. NoLength(wire) /\ Bare(r)
    BY <1>1, <1>3 DEF Dialogue, Greeting, Early, r
  <2>2. NoLength(a)
    <3>1. CASE a \in Refusal(r)
      <4>1. /\ Len(a) \in {2, 3} /\ a[1].line = "status"
            /\ \A i \in 2..Len(a) : a[i].line \in {"authenticate", "blank"}
        BY <3>1, RefusalGood
      <4>2. \A i \in DOMAIN a : i = 1 \/ i \in 2..Len(a)
        <5>1. DOMAIN a = 1..Len(a)
          BY <1>5, LenProperties
        <5>2. QED
          BY <4>1, <5>1
      <4>3. QED
        BY <4>1, <4>2 DEF NoLength
    <3>2. CASE a = Answer(r) /\ r.what = "OPTIONS"
      <4>1. a = Welcome
        BY <1>3, <3>2, AnswerGood
      <4>2. QED
        BY <4>1 DEF NoLength, Welcome, Line
    <3>3. CASE a = Answer(r) /\ Auth /\ r.what = "DESCRIBE" /\ ~r.auth
      <4>1. a = Unauthorized
        BY <1>3, <3>3, AnswerGood
      <4>2. QED
        BY <4>1 DEF NoLength, Unauthorized, Line
    <3>4. QED
      BY <1>4, <2>1, <3>1, <3>2, <3>3 DEF Bare
  <2>3. QED
    BY <1>2, <1>4, <1>5, <2>1, <2>2, NoLengthBoth DEF ClientTypes
<1>9. Prepared'
  BY <1>1 DEF Dialogue, Prepared, SetupsIn
<1>10. QED
  BY <1>7, <1>8, <1>9 DEF Dialogue

LEMMA StepRead ==
  ASSUME Dialogue, ReadPacketTcp PROVE Dialogue'
<1>1. PICK n \in 1..Len(wire) : wire' = SubSeq(wire, n + 1, Len(wire))
  BY DEF ReadPacketTcp
<1>2. /\ stat = "PLAYING"
      /\ UNCHANGED <<stat, todo, buf, part, realm, session, setup, asked, served, refused,
                      trouble, cut, dropped>>
  BY DEF ReadPacketTcp, dialogue, server
<1>3. ClientTypes /\ Len(wire) \in Nat
  BY LenProperties DEF Dialogue, ClientTypes
<1>4. wire' \in Seq(Good)
  <2>1. n + 1 \in Nat \ {0} /\ Len(wire) <= Len(wire)
    BY <1>3
  <2>2. QED
    BY <1>1, <1>3, <2>1, GoodSlice DEF ClientTypes
<1>5. ClientTypes'
  BY <1>2, <1>3, <1>4 DEF ClientTypes, PartFits
<1>6. Greeting'
  BY <1>2 DEF Greeting, Early
<1>7. Prepared'
  BY <1>2 DEF Dialogue, Prepared, SetupsIn
<1>8. QED
  BY <1>5, <1>6, <1>7 DEF Dialogue

-----------------------------------------------------------------------------
(***************************************************************************)
(* The parser of packets: the length of the packet bounds its body.        *)
(***************************************************************************)
RxType ==
  [state : {"EMPTY", "HEADER", "CONTENT", "MESSAGE"}, hdr : Seq(Lines), channel : Nat,
   len : Nat, body : Seq(Nat), nal : Seq(Nat), started : BOOLEAN, ready : BOOLEAN,
   packets : Seq(Seq(Nat)), units : Seq(Seq(Nat))]
Parsing ==
  {r \in RxType : /\ Len(r.hdr) < 4 /\ Len(r.body) <= r.len
                  /\ r.state # "CONTENT" => r.body = <<>>}

LEMMA GiveType ==
  ASSUME NEW r \in RxType, NEW nalu \in Seq(Nat)
  PROVE  Give(r, nalu) \in RxType
<1> DEFINE begun == r.ready \/ nalu[1] = Sps
           units == IF begun THEN Append(r.units, nalu) ELSE r.units
<1>1. units \in Seq(Seq(Nat)) /\ begun \in BOOLEAN
  BY AppendProperties DEF RxType
<1>2. Give(r, nalu) = [r EXCEPT !.ready = begun, !.units = units]
  BY DEF Give
<1> HIDE DEF begun, units
<1>3. QED
  BY <1>1, <1>2 DEF RxType

LEMMA DepacketiseType ==
  ASSUME NEW r \in RxType, NEW body \in Seq(Nat)
  PROVE  Depacketise(r, body) \in RxType
<1>1. r.nal \in Seq(Nat) /\ r.nal \o body \in Seq(Nat)
  BY ConcatProperties DEF RxType
<1>2. CASE body[1] = Start
  <2>1. Depacketise(r, body) = [r EXCEPT !.started = TRUE, !.nal = r.nal \o body]
    BY <1>2 DEF Depacketise, Start, End, Middle, Sps, Slice
  <2>2. QED
    BY <1>1, <2>1 DEF RxType
<1>3. CASE body[1] = End /\ r.started
  <2> DEFINE q == [r EXCEPT !.started = FALSE, !.nal = <<>>]
  <2>1. Depacketise(r, body) = Give(q, r.nal \o body)
    BY <1>3 DEF Depacketise, Start, End, Middle, Sps, Slice
  <2>2. q \in RxType
    <3>1. FALSE \in BOOLEAN /\ <<>> \in Seq(Nat)
      OBVIOUS
    <3>2. QED
      BY <3>1 DEF RxType
  <2> HIDE DEF q
  <2>3. QED
    BY <1>1, <2>1, <2>2, GiveType
<1>4. CASE body[1] = Middle /\ r.started
  <2>1. Depacketise(r, body) = [r EXCEPT !.nal = r.nal \o body]
    BY <1>4 DEF Depacketise, Start, End, Middle, Sps, Slice
  <2>2. QED
    BY <1>1, <2>1 DEF RxType
<1>5. CASE body[1] \in {Sps, Slice}
  <2> DEFINE nal == [i \in DOMAIN r.nal |-> IF i <= Len(body) THEN body[i] ELSE r.nal[i]]
             q == [r EXCEPT !.nal = nal]
  <2>1. Depacketise(r, body) = Give(q, body)
    BY <1>5 DEF Depacketise, Start, End, Middle, Sps, Slice
  <2>2. nal \in Seq(Nat)
    <3>1. /\ Len(r.nal) \in Nat /\ DOMAIN r.nal = 1..Len(r.nal) /\ Len(body) \in Nat
          /\ \A i \in 1..Len(r.nal) : r.nal[i] \in Nat
          /\ \A i \in 1..Len(body) : body[i] \in Nat
      BY <1>1, LenProperties, ElementOfSeq
    <3>2. nal \in [1..Len(r.nal) -> Nat]
      BY <3>1
    <3>3. QED
      BY <3>1, <3>2, SeqDef
  <2> HIDE DEF nal
  <2>3. q \in RxType
    BY <2>2 DEF RxType
  <2> HIDE DEF q
  <2>4. QED
    BY <2>1, <2>3, GiveType
<1>6. CASE /\ body[1] # Start /\ ~(body[1] = End /\ r.started)
           /\ ~(body[1] = Middle /\ r.started) /\ body[1] \notin {Sps, Slice}
  BY <1>6 DEF Depacketise
<1>7. QED
  BY <1>2, <1>3, <1>4, <1>5, <1>6

LEMMA DeliveredType == \A r \in RxType : Delivered(r) \in RxType
<1> SUFFICES ASSUME NEW r \in RxType PROVE Delivered(r) \in RxType
  OBVIOUS
<1> DEFINE q == IF r.channel = VideoChannel THEN Depacketise(r, r.body) ELSE r
           packets == IF r.channel \in {VideoChannel, AudioChannel}
                      THEN Append(q.packets, r.body) ELSE q.packets
<1>1. r.body \in Seq(Nat)
  BY DEF RxType
<1>2. q \in RxType
  BY <1>1, DepacketiseType
<1> HIDE DEF q
<1>3. packets \in Seq(Seq(Nat))
  BY <1>1, <1>2, AppendProperties DEF RxType
<1>4. Delivered(r) = [q EXCEPT !.packets = packets]
  BY DEF Delivered, q
<1> HIDE DEF packets
<1>5. QED
  BY <1>2, <1>3, <1>4 DEF RxType

(* The depacketiser leaves the parser and the packets alone, and what a    *)
(* packet changes has nothing to do with its head.                         *)
LEMMA DepacketiserKeeps ==
  \A r \in RxType : \A body : /\ Depacketise(r, body).hdr = r.hdr
                              /\ Depacketise(r, body).packets = r.packets
<1>1. ASSUME NEW r \in RxType, NEW nalu
      PROVE  Give(r, nalu).hdr = r.hdr /\ Give(r, nalu).packets = r.packets
  BY DEF Give, RxType
<1>2. ASSUME NEW r \in RxType, NEW body
      PROVE  Depacketise(r, body).hdr = r.hdr /\ Depacketise(r, body).packets = r.packets
  <2>1. CASE body[1] = Start
    <3>1. Depacketise(r, body) = [r EXCEPT !.started = TRUE, !.nal = r.nal \o body]
      BY <2>1 DEF Depacketise, Start, End, Middle, Sps, Slice
    <3>2. QED
      BY <3>1 DEF RxType
  <2>2. CASE body[1] = End /\ r.started
    <3> DEFINE q == [r EXCEPT !.started = FALSE, !.nal = <<>>]
    <3>1. q.hdr = r.hdr /\ q.packets = r.packets /\ DOMAIN q = DOMAIN r
      BY DEF RxType
    <3>2. Depacketise(r, body) = Give(q, r.nal \o body)
      BY <2>2 DEF Depacketise, Start, End, Middle, Sps, Slice
    <3> HIDE DEF q
    <3>3. QED
      BY <3>1, <3>2 DEF Give, RxType
  <2>3. CASE body[1] = Middle /\ r.started
    <3>1. Depacketise(r, body) = [r EXCEPT !.nal = r.nal \o body]
      BY <2>3 DEF Depacketise, Start, End, Middle, Sps, Slice
    <3>2. QED
      BY <3>1 DEF RxType
  <2>4. CASE body[1] \in {Sps, Slice}
    <3> DEFINE nal == [i \in DOMAIN r.nal |-> IF i <= Len(body) THEN body[i] ELSE r.nal[i]]
               q == [r EXCEPT !.nal = nal]
    <3>1. q.hdr = r.hdr /\ q.packets = r.packets /\ DOMAIN q = DOMAIN r
      BY DEF RxType
    <3>2. Depacketise(r, body) = Give(q, body)
      BY <2>4 DEF Depacketise, Start, End, Middle, Sps, Slice
    <3> HIDE DEF q
    <3>3. QED
      BY <3>1, <3>2 DEF Give, RxType
  <2>5. CASE /\ body[1] # Start /\ ~(body[1] = End /\ r.started)
             /\ ~(body[1] = Middle /\ r.started) /\ body[1] \notin {Sps, Slice}
    BY <2>5 DEF Depacketise
  <2>6. QED
    BY <2>1, <2>2, <2>3, <2>4, <2>5
<1>3. QED
  BY <1>2

LEMMA HdrKept == \A r \in RxType : Delivered(r).hdr = r.hdr
<1> TAKE r \in RxType
<1> DEFINE q == IF r.channel = VideoChannel THEN Depacketise(r, r.body) ELSE r
           packets == IF r.channel \in {VideoChannel, AudioChannel}
                      THEN Append(q.packets, r.body) ELSE q.packets
<1>1. q \in RxType /\ q.hdr = r.hdr
  BY DepacketiserKeeps, DepacketiseType DEF RxType
<1>2. Delivered(r) = [q EXCEPT !.packets = packets]
  BY DEF Delivered
<1> HIDE DEF q, packets
<1>3. QED
  BY <1>1, <1>2 DEF RxType

LEMMA TakeType ==
  ASSUME NEW r \in Parsing, NEW b \in Good, ~(r.state = "CONTENT" /\ Len(r.body) >= r.len)
  PROVE  Take(r, b) \in Parsing
<1>1. r \in RxType /\ Len(r.hdr) < 4 /\ Len(r.body) <= r.len
      /\ (r.state # "CONTENT" => r.body = <<>>)
  BY DEF Parsing
<1>2. b \in Lines /\ b.v \in Nat
  BY DEF Good, Lines
<1>3. /\ r.hdr \in Seq(Lines) /\ Len(r.hdr) \in Nat
      /\ r.body \in Seq(Nat) /\ Len(r.body) \in Nat /\ r.len \in Nat /\ r.channel \in Nat
  <2>1. r.hdr \in Seq(Lines) /\ r.body \in Seq(Nat) /\ r.len \in Nat /\ r.channel \in Nat
    BY <1>1 DEF RxType
  <2>2. QED
    BY <2>1, LenProperties
<1>4. CASE r.state \in {"EMPTY", "MESSAGE"}
  <2>1. CASE b = Byte(Dollar)
    <3>1. Take(r, b) = [r EXCEPT !.state = "HEADER", !.hdr = <<b>>]
      BY <1>4, <2>1 DEF Take
    <3>2. <<b>> \in Seq(Lines) /\ Len(<<b>>) = 1
      BY <1>2
    <3>3. [r EXCEPT !.state = "HEADER", !.hdr = <<b>>] \in RxType
      BY <1>1, <3>2 DEF RxType
    <3> DEFINE q == [r EXCEPT !.state = "HEADER", !.hdr = <<b>>]
    <3>4. q.hdr = <<b>> /\ q.body = <<>> /\ q.len = r.len /\ r.body = <<>>
      BY <1>1, <1>4 DEF RxType
    <3>5. q \in RxType /\ Take(r, b) = q
      BY <3>1, <3>3
    <3> HIDE DEF q
    <3>6. Len(q.hdr) < 4
      BY <3>2, <3>4
    <3>7. Len(q.body) <= q.len
      BY <1>1, <3>4
    <3>8. QED
      BY <3>4, <3>5, <3>6, <3>7 DEF Parsing
  <2>2. CASE b # Byte(Dollar)
    <3>1. Take(r, b) = [r EXCEPT !.state = "MESSAGE"]
      BY <1>4, <2>2 DEF Take
    <3>2. QED
      BY <1>1, <1>4, <3>1 DEF Parsing, RxType
  <2>3. QED
    BY <2>1, <2>2
<1>5. CASE r.state = "HEADER" /\ Len(r.hdr) < 3
  <2>1. Take(r, b) = [r EXCEPT !.hdr = Append(r.hdr, b)]
    BY SMTT(30), <1>5 DEF Take
  <2>2. Append(r.hdr, b) \in Seq(Lines) /\ Len(Append(r.hdr, b)) = Len(r.hdr) + 1
    BY <1>2, <1>3, AppendProperties
  <2>3. [r EXCEPT !.hdr = Append(r.hdr, b)] \in RxType
    BY <1>1, <2>2 DEF RxType
  <2>4. Len(Append(r.hdr, b)) < 4
    BY <1>3, <1>5, <2>2
  <2>5. QED
    BY <1>1, <1>5, <2>1, <2>3, <2>4 DEF Parsing, RxType
<1>6. CASE r.state = "HEADER" /\ Len(r.hdr) = 3
  <2> DEFINE len == 256 * r.hdr[3].v + b.v
             q == [r EXCEPT !.state = "CONTENT", !.channel = r.hdr[2].v, !.len = len, !.hdr = <<>>]
  <2>1. Take(r, b) = q
    BY <1>6 DEF Take
  <2>2. r.hdr[2].v \in Nat /\ r.hdr[3].v \in Nat
    <3>1. \A i \in 1..Len(r.hdr) : r.hdr[i] \in Lines
      BY <1>3, ElementOfSeq
    <3>2. r.hdr[2] \in Lines /\ r.hdr[3] \in Lines
      BY <1>6, <3>1
    <3>3. QED
      BY <3>2 DEF Lines
  <2>3. len \in Nat
    BY <1>2, <2>2
  <2> HIDE DEF len
  <2>4. q \in RxType
    <3>1. <<>> \in Seq(Lines) /\ "CONTENT" \in {"EMPTY", "HEADER", "CONTENT", "MESSAGE"}
      OBVIOUS
    <3>2. QED
      BY <1>1, <2>2, <2>3, <3>1 DEF RxType
  <2>5. q.body = <<>> /\ q.hdr = <<>> /\ q.len = len
    BY <1>1, <1>6 DEF RxType
  <2> HIDE DEF q
  <2>6. Len(q.hdr) < 4 /\ Len(q.body) <= q.len
    BY <2>3, <2>5
  <2>7. QED
    BY <2>1, <2>4, <2>5, <2>6 DEF Parsing
<1>7. CASE r.state = "CONTENT"
  <2>1. Take(r, b) = [r EXCEPT !.body = Append(r.body, b.v)]
    BY <1>7 DEF Take
  <2>2. Append(r.body, b.v) \in Seq(Nat) /\ Len(Append(r.body, b.v)) = Len(r.body) + 1
    BY <1>2, <1>3, AppendProperties
  <2>3. [r EXCEPT !.body = Append(r.body, b.v)] \in RxType
    BY <1>1, <2>2 DEF RxType
  <2>4. Len(Append(r.body, b.v)) <= r.len
    BY <1>3, <1>7, <2>2
  <2>5. QED
    BY <1>1, <1>7, <2>1, <2>3, <2>4 DEF Parsing, RxType
<1>8. r.state \in {"EMPTY", "HEADER", "CONTENT", "MESSAGE"} /\ (Len(r.hdr) < 3 \/ Len(r.hdr) = 3)
  <2>1. r.state \in {"EMPTY", "HEADER", "CONTENT", "MESSAGE"}
    BY <1>1 DEF RxType
  <2>2. Len(r.hdr) < 3 \/ Len(r.hdr) = 3
    <3>1. \A n \in Nat : n < 4 => n < 3 \/ n = 3
      OBVIOUS
    <3>2. Len(r.hdr) \in Nat /\ Len(r.hdr) < 4
      BY <1>1, <1>3
    <3>3. QED
      BY <3>1, <3>2
  <2>3. QED
    BY <2>1, <2>2
<1>9. QED
  BY <1>4, <1>5, <1>6, <1>7, <1>8

LEMMA ParseType ==
  ASSUME NEW r \in Parsing, NEW b \in Good
  PROVE  Parse(r, b) \in Parsing
<1>1. CASE r.state = "CONTENT" /\ Len(r.body) >= r.len
  <2> DEFINE q == Delivered(r)
             e == [q EXCEPT !.state = "EMPTY", !.len = 0, !.body = <<>>]
  <2>1. Parse(r, b) = Take(e, b)
    BY <1>1 DEF Parse, Forget
  <2>2. q \in RxType
    BY DeliveredType DEF Parsing
  <2>3. q.hdr = r.hdr
    BY HdrKept DEF Parsing
  <2> HIDE DEF q
  <2>4. e \in RxType /\ e.state = "EMPTY" /\ e.body = <<>> /\ e.len = 0 /\ e.hdr = r.hdr
    <3>1. <<>> \in Seq(Nat) /\ 0 \in Nat /\ "EMPTY" \in {"EMPTY", "HEADER", "CONTENT", "MESSAGE"}
      OBVIOUS
    <3>2. e \in RxType
      BY <2>2, <3>1 DEF RxType
    <3>3. e.state = "EMPTY" /\ e.body = <<>> /\ e.len = 0 /\ e.hdr = q.hdr
      BY <2>2 DEF RxType
    <3>4. QED
      BY <2>3, <3>2, <3>3
  <2> HIDE DEF e
  <2>5. e \in Parsing
    BY <2>4 DEF Parsing
  <2>6. e.state # "CONTENT"
    BY <2>4
  <2>7. QED
    BY <2>1, <2>5, <2>6, TakeType
<1>2. CASE ~(r.state = "CONTENT" /\ Len(r.body) >= r.len)
  BY <1>2, TakeType DEF Parse
<1>3. QED
  BY <1>1, <1>2

(* The bytes read at once are parsed one after the other.                  *)
LEMMA BytesParsed ==
  ASSUME rx \in Parsing, wire \in Seq(Good), ReadPacketTcp
  PROVE  \E n \in 1..Len(wire) : \E f :
           /\ n \in Nat /\ f[0] = rx /\ rx' = f[n] /\ wire' = SubSeq(wire, n + 1, Len(wire))
           /\ \A i \in 0..n : f[i] \in Parsing
           /\ \A i \in 1..n : f[i] = Parse(f[i - 1], wire[i])
<1> DEFINE Parsed(n, g) == g = [i \in 0..n |-> IF i = 0 THEN rx ELSE Parse(g[i - 1], wire[i])]
<1>1. PICK n \in 1..Len(wire) :
        /\ rx' = (CHOOSE g : g = [i \in 0..n |-> IF i = 0 THEN rx
                                                ELSE Parse(g[i - 1], wire[i])])[n]
        /\ wire' = SubSeq(wire, n + 1, Len(wire))
  BY DEF ReadPacketTcp
<1> DEFINE parsed == CHOOSE g : Parsed(n, g)
<1>2. rx' = parsed[n]
  BY <1>1
<1>3. n \in Nat /\ \A i \in 1..n : wire[i] \in Good
  <2>1. Len(wire) \in Nat /\ \A i \in 1..Len(wire) : wire[i] \in Good
    BY LenProperties, ElementOfSeq
  <2>2. QED
    BY <2>1
<1>4. \E g : Parsed(n, g)
  <2> DEFINE G == [p \in Parsing \X (1..n) |-> Parse(p[1], wire[p[2]])]
  <2>1. G \in [Parsing \X (1..n) -> Parsing]
    <3> SUFFICES ASSUME NEW p \in Parsing \X (1..n)
                 PROVE  Parse(p[1], wire[p[2]]) \in Parsing
      OBVIOUS
    <3>1. p[1] \in Parsing /\ wire[p[2]] \in Good
      BY <1>3
    <3>2. QED
      BY <3>1, ParseType
  <2>2. \A r \in Parsing, i \in 1..n : G[<<r, i>>] = Parse(r, wire[i])
    OBVIOUS
  <2> HIDE DEF G
  <2>3. PICK f \in [0..n -> Parsing] : Chain(f, rx, n, G)
    BY <1>3, <2>1, ChainExists
  <2>4. f = [i \in 0..n |-> IF i = 0 THEN rx ELSE G[<<f[i - 1], i>>]]
    BY <2>3 DEF Chain
  <2>5. \A i \in 0..n : f[i] = IF i = 0 THEN rx ELSE Parse(f[i - 1], wire[i])
    <3> SUFFICES ASSUME NEW i \in 0..n
                 PROVE  f[i] = IF i = 0 THEN rx ELSE Parse(f[i - 1], wire[i])
      OBVIOUS
    <3>1. f[i] = IF i = 0 THEN rx ELSE G[<<f[i - 1], i>>]
      BY <2>4
    <3>2. i # 0 => i \in 1..n /\ i - 1 \in 0..n
      BY <1>3
    <3>3. i # 0 => G[<<f[i - 1], i>>] = Parse(f[i - 1], wire[i])
      BY <2>2, <2>3, <3>2
    <3>4. QED
      BY <3>1, <3>3
  <2>6. Parsed(n, f)
    BY <2>3, <2>5
  <2>7. QED
    BY <2>6
<1>5. Parsed(n, parsed)
  BY <1>4
<1>6. \A i \in 0..n : parsed[i] = IF i = 0 THEN rx ELSE Parse(parsed[i - 1], wire[i])
  BY <1>5
<1> HIDE DEF parsed
<1> DEFINE T == {k \in Nat : k <= n => parsed[k] \in Parsing}
<1>7. 0 \in T
  BY <1>3, <1>6
<1>8. ASSUME NEW k \in Nat, k \in T PROVE k + 1 \in T
  <2> SUFFICES ASSUME k + 1 <= n PROVE parsed[k + 1] \in Parsing
    OBVIOUS
  <2>1. k <= n /\ k + 1 \in 1..n /\ k + 1 \in 0..n /\ k + 1 # 0 /\ (k + 1) - 1 = k
    BY <1>3
  <2>2. parsed[k] \in Parsing /\ wire[k + 1] \in Good
    BY <1>3, <1>8, <2>1
  <2>3. parsed[k + 1] = Parse(parsed[k], wire[k + 1])
    BY <1>6, <2>1
  <2>4. QED
    BY <2>2, <2>3, ParseType
<1>9. Nat \subseteq T
  <2>1. T \subseteq Nat
    OBVIOUS
  <2> HIDE DEF T
  <2>2. QED
    BY <1>7, <1>8, <2>1, SetInduction
<1>10. \A i \in 0..n : parsed[i] \in Parsing
  BY <1>3, <1>9
<1>11. /\ parsed[0] = rx
       /\ \A i \in 1..n : parsed[i] = Parse(parsed[i - 1], wire[i])
  <2>1. 0 \in 0..n /\ \A i \in 1..n : i \in 0..n /\ i # 0
    BY <1>3
  <2>2. QED
    BY <1>6, <2>1
<1> HIDE DEF T
<1>12. QED
  BY <1>1, <1>2, <1>3, <1>10, <1>11

LEMMA ReadType ==
  ASSUME rx \in Parsing, wire \in Seq(Good), ReadPacketTcp
  PROVE  rx' \in Parsing
<1>1. PICK n \in 1..Len(wire) : \E f :
        n \in Nat /\ rx' = f[n] /\ \A i \in 0..n : f[i] \in Parsing
  BY BytesParsed
<1>2. QED
  BY <1>1

LEMMA DialogueStep ==
  Dialogue /\ rx \in Parsing /\ [ClientNext]_clientVars
    => Dialogue' /\ rx' \in Parsing
<1> SUFFICES ASSUME Dialogue, rx \in Parsing, [ClientNext]_clientVars
             PROVE  Dialogue' /\ rx' \in Parsing
  OBVIOUS
<1>1. CASE Decode
  BY <1>1, StepDecode, DecodeFrame
<1>2. CASE Receive
  BY <1>2, StepReceive DEF Receive, Come
<1>3. CASE ReadPacketTcp
  <2>1. wire \in Seq(Good)
    BY DEF Dialogue, ClientTypes
  <2>2. QED
    BY <1>3, <2>1, StepRead, ReadType
<1>4. CASE ServerAnswers
  BY <1>4, StepServerAnswers DEF ServerAnswers
<1>5. CASE Break
  <2>1. Fail /\ UNCHANGED <<served, refused, wire, cut, dropped, rx>> /\ trouble' \in BOOLEAN
    BY <1>5 DEF Break, server
  <2>2. QED
    BY <2>1, StepFail
<1>6. CASE UNCHANGED clientVars
  <2>1. UNCHANGED <<stat, todo, buf, part, realm, session, setup, asked, served, refused,
                    wire, trouble, cut, dropped, rx>>
    BY <1>6 DEF clientVars, dialogue, server
  <2>2. ClientTypes' /\ Greeting' /\ Prepared'
    BY SMTT(30), <2>1 DEF Dialogue, ClientTypes, PartFits, Greeting, Early, Prepared, SetupsIn
  <2>3. QED
    BY <2>1, <2>2 DEF Dialogue
<1>7. CASE ReceiveCut
  BY <1>7, StepReceiveCut DEF ReceiveCut, Come
<1>8. QED
  BY <1>1, <1>2, <1>3, <1>4, <1>5, <1>6, <1>7 DEF ClientNext, Connect

LEMMA ParsingInit == ClientInit => rx \in Parsing
<1> SUFFICES ASSUME ClientInit PROVE rx \in Parsing
  OBVIOUS
<1>1. /\ <<>> \in Seq(Lines) /\ <<>> \in Seq(Nat) /\ <<>> \in Seq(Seq(Nat)) /\ Len(<<>>) = 0
      /\ 0 \in Nat /\ FALSE \in BOOLEAN
      /\ "EMPTY" \in {"EMPTY", "HEADER", "CONTENT", "MESSAGE"}
  OBVIOUS
<1>2. rx = [state |-> "EMPTY", hdr |-> <<>>, channel |-> 0, len |-> 0, body |-> <<>>,
            nal |-> <<>>, started |-> FALSE, ready |-> FALSE, packets |-> <<>>, units |-> <<>>]
  BY DEF ClientInit
<1>3. rx \in RxType
  BY <1>1, <1>2 DEF RxType
<1>4. rx.hdr = <<>> /\ rx.body = <<>> /\ rx.len = 0
  BY <1>2
<1>5. Len(rx.hdr) < 4 /\ Len(rx.body) <= rx.len
  BY <1>1, <1>4
<1>6. QED
  BY <1>3, <1>4, <1>5 DEF Parsing

LEMMA DialogueSuffices ==
  Dialogue /\ rx \in Parsing => PlayIsPrepared
<1> SUFFICES ASSUME Dialogue, rx \in Parsing PROVE PlayIsPrepared
  OBVIOUS
<1>1. ClientTypeOK
  <2>1. buf \in Seq(Lines) /\ wire \in Seq(Lines)
    <3>1. Good \subseteq Lines
      BY DEF Good
    <3>2. QED
      BY <3>1, SeqMonotonic DEF Dialogue, ClientTypes
  <2>2. /\ rx.state \in {"EMPTY", "HEADER", "CONTENT", "MESSAGE"}
        /\ Len(rx.hdr) < 4 /\ Len(rx.body) <= rx.len
    BY DEF Parsing, RxType
  <2>3. part = <<>> \/ (buf # <<>> /\ part \in [{1} -> Lines])
    <3>1. PartFits /\ buf \in Seq(Good)
      BY DEF Dialogue, ClientTypes
    <3>2. CASE part # <<>>
      <4>1. PICK l \in Pieces(buf[Len(buf)]) : part = <<l>> /\ buf # <<>>
        BY <3>1, <3>2 DEF PartFits, PartOf
      <4>2. buf[Len(buf)] \in Good
        <5>1. Len(buf) \in 1..Len(buf)
          BY <3>1, <4>1, LenProperties, EmptySeq
        <5>2. QED
          BY <3>1, <5>1, ElementOfSeq
      <4>3. l \in Lines
        BY <4>2, PieceGood
      <4>4. QED
        BY <4>1, <4>3
    <3>3. QED
      BY <3>2
  <2>4. QED
    BY <2>1, <2>2, <2>3 DEF Dialogue, ClientTypes, ClientTypeOK
<1>2. ASSUME NEW i \in DOMAIN asked, asked[i].what = "PLAY"
      PROVE  /\ i = Len(asked) /\ asked[i].auth = Auth
             /\ asked[i].session # 0 /\ (~cut => asked[i].session = Id)
             /\ \A media \in Media :
                  Cardinality({j \in DOMAIN asked :
                                   asked[j].what = "SETUP" /\ asked[j].media = media}) = 1
  <2>1. /\ i = Len(asked) /\ asked[i].auth = Auth /\ setup = Media
        /\ asked[i].session # 0 /\ (~cut => asked[i].session = Id)
    BY <1>2 DEF Dialogue, Prepared
  <2>2. ASSUME NEW media \in Media
        PROVE  Cardinality(SetupsIn(asked, media)) = 1
    <3>1. PICK j \in DOMAIN asked : SetupsIn(asked, media) = {j}
      BY <2>1 DEF Dialogue, Prepared
    <3>2. Cardinality({j}) = Cardinality({j})
      BY Zenon DEF Cardinality, Cardinality
    <3>3. QED
      BY <3>1, <3>2, FS_Singleton
  <2>3. QED
    BY <2>1, <2>2 DEF SetupsIn
<1>3. QED
  BY <1>1, <1>2 DEF PlayIsPrepared

(* PLAY is asked for once, when every medium of the description has been   *)
(* set up exactly once, and with credentials when the server wants them    *)
(* (PlayIsPrepared: Connect and SendPLAY of rtsp_client.cpp), wherever TCP *)
(* cuts the answers, between lines or inside one, and whatever the server  *)
(* refuses.  It carries the session of the server unless a Session line    *)
(* was cut, and the beginning of it, never nothing, if one was.            *)
THEOREM PlayIsAlwaysPrepared ==
  ClientSafeSpec => []PlayIsPrepared
<1> DEFINE IInv == Dialogue /\ rx \in Parsing
<1>1. ClientInit => IInv
  BY InitDialogue, ParsingInit
<1>2. IInv /\ [ClientNext]_clientVars => IInv'
  BY DialogueStep
<1>3. IInv => PlayIsPrepared
  BY DialogueSuffices
<1>4. QED
  BY <1>1, <1>2, <1>3, PTL DEF ClientSafeSpec

-----------------------------------------------------------------------------
(***************************************************************************)
(* What is on its way to the client.  Every answer, a refusal too, has one *)
(* status, at its beginning, so the client never finds one but that of the *)
(* answer it waits for; when it plays, what it has not parsed is the rest  *)
(* of the stream, perhaps behind the blank line that ends the answer to    *)
(* PLAY.                                                                   *)
(***************************************************************************)
Silent(q) == \A i \in DOMAIN q : q[i].line # "status"
Ahead(q, m, answer) ==
  /\ Len(q) = m + Len(answer)
  /\ \A i \in 1..m : q[i].line # "status"
  /\ \A i \in 1..Len(answer) : q[m + i] = answer[i]

Replies(r) == {Answer(r)} \cup Refusal(r)

Begun ==
  /\ rx.state = "EMPTY" /\ rx.hdr = <<>> /\ rx.body = <<>>
  /\ rx.nal = <<>> /\ ~rx.started /\ ~rx.ready /\ rx.packets = <<>> /\ rx.units = <<>>

Awaiting ==
  /\ asked # <<>> /\ served >= Len(asked) - 1
  /\ served < Len(asked) => Silent(buf \o wire)
  /\ served = Len(asked) =>
       \E m \in Nat, a \in Replies(asked[Len(asked)]) : Ahead(buf \o wire, m, a)

Streaming ==
  /\ todo = "step" /\ served = Len(asked)
  /\ dropped <= Read \/ (Read = -1 /\ dropped = 0 /\ wire[1] = Line("blank", 0))
  /\ \A j \in DOMAIN wire : Read + j >= 1 => wire[j] = StreamBytes[Read + j]

Exchange ==
  /\ stat = "NONE" => todo = "step" /\ asked = <<>> /\ buf = <<>> /\ wire = <<>>
  /\ stat \notin {"NONE", "PLAYING", "failed"} => Awaiting
  /\ stat = "PLAY" => asked[Len(asked)].what = "PLAY"
  /\ stat = "PLAYING" => Streaming
  /\ stat # "PLAYING" => Begun /\ dropped = 0

LEMMA InitExchange == ClientInit => Exchange
BY DEF ClientInit, Exchange, Begun

(* The lines of the stream are none of those of an answer.                 *)
LEMMA StreamLines ==
  /\ StreamBytes \in Seq(Good) /\ Len(StreamBytes) \in Nat
  /\ \A i \in 1..Len(StreamBytes) : StreamBytes[i].line \in {"byte", "text"}
<1> DEFINE Sent == {l \in Lines : l.line \in {"byte", "text"}}
<1>1. \A v \in Nat : Byte(v) \in Sent /\ Line("text", v) \in Sent
  BY DEF Byte, Line, Lines
<1>2. StreamBytes \in Seq(Sent)
  <2> HIDE DEF Sent
  <2>1. QED
    BY <1>1, StreamOver
<1>3. \A i \in 1..Len(StreamBytes) : StreamBytes[i] \in Sent
  <2> HIDE DEF Sent
  <2>1. QED
    BY <1>2, ElementOfSeq
<1>4. StreamBytes \in Seq(Good) /\ Len(StreamBytes) \in Nat
  BY StreamGood, LenProperties
<1>5. QED
  BY <1>3, <1>4

LEMMA AnswerShape ==
  ASSUME NEW r \in Requests
  PROVE  /\ Len(Answer(r)) \in Nat \ {0} /\ Answer(r)[1].line = "status"
         /\ \A i \in 2..Len(Answer(r)) : Answer(r)[i].line # "status"
         /\ r.what = "PLAY" =>
              /\ Len(Answer(r)) = 3 + Len(StreamBytes)
              /\ Answer(r)[2] = Line("session", Id) /\ Answer(r)[3] = Line("blank", 0)
              /\ \A i \in 1..Len(StreamBytes) : Answer(r)[3 + i] = StreamBytes[i]
<1>1. r.what \in {"OPTIONS", "DESCRIBE", "SETUP", "PLAY"}
  BY DEF Requests
<1>2. \A kind, v : Line(kind, v).line = kind
  BY DEF Line
<1>3. CASE r.what = "OPTIONS"
  <2>1. Answer(r) = <<Line("status", 200), Line("blank", 0)>>
    BY <1>3 DEF Answer
  <2>2. QED
    BY <1>2, <1>3, <2>1
<1>4. CASE r.what = "DESCRIBE" /\ Auth /\ ~r.auth
  <2>1. Answer(r) = <<Line("status", 401), Line("authenticate", Credentials), Line("blank", 0)>>
    BY <1>4 DEF Answer, Unauthorized
  <2>2. QED
    BY <1>2, <1>4, <2>1
<1>5. CASE r.what = "DESCRIBE" /\ ~(Auth /\ ~r.auth)
  <2> DEFINE head == <<Line("status", 200), Line("length", Len(Body)), Line("blank", 0)>>
  <2>1. /\ head \in Seq(Good) /\ Body \in Seq(Good) /\ Len(head) = 3 /\ Len(Body) = 2
        /\ head[1].line = "status" /\ head[2].line # "status" /\ head[3].line # "status"
        /\ Body[1].line # "status" /\ Body[2].line # "status"
    <3>1. Len(Body) = 2
      BY DEF Body
    <3>2. /\ Line("status", 200) \in Good /\ Line("length", Len(Body)) \in Good
          /\ Line("blank", 0) \in Good /\ Line("body", 0) \in Good
      BY <3>1, LineGood DEF Kinds
    <3>3. head \in Seq(Good) /\ Body \in Seq(Good) /\ Len(head) = 3
      BY <3>2 DEF Body
    <3>4. QED
      BY <1>2, <3>1, <3>3 DEF Body
  <2>2. Answer(r) = head \o Body
    BY <1>5 DEF Answer
  <2> HIDE DEF head
  <2>3. /\ Len(Answer(r)) = 5
        /\ \A i \in 1..5 : Answer(r)[i] = IF i <= 3 THEN head[i] ELSE Body[i - 3]
    <3>1. head \in Seq(Good) /\ Body \in Seq(Good)
      BY <2>1
    <3>2. /\ Len(head \o Body) = Len(head) + Len(Body)
          /\ \A i \in 1..(Len(head) + Len(Body)) :
               (head \o Body)[i] = IF i <= Len(head) THEN head[i] ELSE Body[i - Len(head)]
      BY ONLY <3>1, ConcatProperties
    <3>3. Len(head) + Len(Body) = 5 /\ Len(head) = 3
      BY <2>1
    <3>4. QED
      BY <2>2, <3>2, <3>3
  <2>4. Answer(r)[1].line = "status"
    BY <2>1, <2>3
  <2>5. ASSUME NEW i \in 2..5 PROVE Answer(r)[i].line # "status"
    <3>1. i \in {2, 3} \/ (i - 3 \in {1, 2} /\ ~(i <= 3))
      OBVIOUS
    <3>2. QED
      BY <2>1, <2>3, <3>1
  <2>6. QED
    BY <1>5, <2>3, <2>4, <2>5
<1>6. CASE r.what = "SETUP"
  <2>1. Answer(r) = <<Line("status", 200), Line("session", Id), Line("blank", 0)>>
    BY <1>6 DEF Answer
  <2>2. QED
    BY <1>2, <1>6, <2>1
<1>7. CASE r.what = "PLAY"
  <2> DEFINE head == <<Line("status", 200), Line("session", Id), Line("blank", 0)>>
  <2>1. /\ head \in Seq(Good) /\ Len(head) = 3
        /\ head[1].line = "status" /\ head[2] = Line("session", Id) /\ head[3] = Line("blank", 0)
        /\ head[2].line # "status" /\ head[3].line # "status"
    <3>1. Line("status", 200) \in Good /\ Line("session", Id) \in Good /\ Line("blank", 0) \in Good
      BY LineGood DEF Kinds, Id
    <3>2. head \in Seq(Good) /\ Len(head) = 3
      BY <3>1
    <3>3. QED
      BY <1>2, <3>2
  <2>2. Answer(r) = head \o StreamBytes
    BY <1>7 DEF Answer
  <2> HIDE DEF head
  <2>3. /\ Len(Answer(r)) = 3 + Len(StreamBytes)
        /\ \A i \in 1..3 : Answer(r)[i] = head[i]
        /\ \A i \in 1..Len(StreamBytes) : Answer(r)[3 + i] = StreamBytes[i]
    <3>1. head \in Seq(Good) /\ StreamBytes \in Seq(Good)
      BY <2>1, StreamLines
    <3>2. /\ Len(head \o StreamBytes) = Len(head) + Len(StreamBytes)
          /\ \A i \in 1..Len(head) : (head \o StreamBytes)[i] = head[i]
          /\ \A i \in 1..Len(StreamBytes) :
               (head \o StreamBytes)[Len(head) + i] = StreamBytes[i]
      BY ONLY <3>1, Joined
    <3>3. QED
      BY <2>1, <2>2, <3>2
  <2>4. ASSUME NEW i \in 2..Len(Answer(r)) PROVE Answer(r)[i].line # "status"
    <3>1. CASE i \in {2, 3}
      BY <2>1, <2>3, <3>1
    <3>2. CASE i \notin {2, 3}
      <4>1. i - 3 \in 1..Len(StreamBytes) /\ 3 + (i - 3) = i
        BY <2>3, <3>2, StreamLines
      <4>2. Answer(r)[i] = StreamBytes[i - 3]
        BY <2>3, <4>1
      <4>3. QED
        BY <4>1, <4>2, StreamLines
    <3>3. QED
      BY <3>1, <3>2
  <2>5. 1 \in 1..3 /\ 2 \in 1..3 /\ 3 \in 1..3
    OBVIOUS
  <2>6. QED
    BY <1>7, <2>1, <2>3, <2>4, <2>5, StreamLines
<1>8. QED
  BY <1>1, <1>3, <1>4, <1>5, <1>6, <1>7

LEMMA ReplyShape ==
  ASSUME NEW r \in Requests, NEW a \in Replies(r)
  PROVE  /\ a \in Seq(Good) /\ Len(a) \in Nat \ {0} /\ a[1].line = "status"
         /\ \A i \in 2..Len(a) : a[i].line # "status"
         /\ (\E i \in 2..Len(a) : a[i].line = "session") => a = Answer(r)
<1>1. CASE a = Answer(r)
  BY <1>1, AnswerShape, AnswerGood
<1>2. CASE a \in Refusal(r)
  <2>1. /\ a \in Seq(Good) /\ Len(a) \in {2, 3} /\ a[1].line = "status"
        /\ \A i \in 2..Len(a) : a[i].line \in {"authenticate", "blank"}
    BY <1>2, RefusalGood
  <2>2. \A i \in 2..Len(a) : a[i].line # "status" /\ a[i].line # "session"
    BY <2>1
  <2>3. Len(a) \in Nat \ {0}
    BY <2>1
  <2>4. QED
    BY <2>1, <2>2, <2>3
<1>3. QED
  BY <1>1, <1>2 DEF Replies

(* What is received and what is on its way, element by element.            *)
LEMMA Arriving ==
  ASSUME ClientTypes
  PROVE  /\ Len(buf) \in Nat /\ Len(wire) \in Nat
         /\ DOMAIN buf = 1..Len(buf) /\ DOMAIN wire = 1..Len(wire)
         /\ buf \o wire \in Seq(Good) /\ Len(buf \o wire) = Len(buf) + Len(wire)
         /\ DOMAIN (buf \o wire) = 1..(Len(buf) + Len(wire))
         /\ \A i \in 1..Len(buf) : (buf \o wire)[i] = buf[i]
         /\ \A i \in 1..Len(wire) : (buf \o wire)[Len(buf) + i] = wire[i]
<1>1. buf \in Seq(Good) /\ wire \in Seq(Good)
  BY DEF ClientTypes
<1>2. /\ Len(buf) \in Nat /\ Len(wire) \in Nat
      /\ DOMAIN buf = 1..Len(buf) /\ DOMAIN wire = 1..Len(wire)
  BY ONLY <1>1, LenProperties
<1>3. /\ buf \o wire \in Seq(Good) /\ Len(buf \o wire) = Len(buf) + Len(wire)
      /\ \A i \in 1..Len(buf) : (buf \o wire)[i] = buf[i]
      /\ \A i \in 1..Len(wire) : (buf \o wire)[Len(buf) + i] = wire[i]
  BY ONLY <1>1, Joined
<1>4. DOMAIN (buf \o wire) = 1..Len(buf \o wire)
  BY ONLY <1>3, LenProperties
<1>5. QED
  BY <1>2, <1>3, <1>4

LEMMA LastAsked ==
  ASSUME ClientTypes, asked # <<>>
  PROVE  Len(asked) \in Nat \ {0} /\ asked[Len(asked)] \in Requests
<1>1. asked \in Seq(Requests)
  BY DEF ClientTypes
<1>2. Len(asked) \in Nat \ {0}
  BY <1>1, EmptySeq
<1>3. Len(asked) \in 1..Len(asked)
  BY <1>2
<1>4. QED
  BY <1>1, <1>2, <1>3, ElementOfSeq

(* The status Connect finds is that of the answer it waits for.            *)
LEMMA StatusBegins ==
  ASSUME ClientTypes, Awaiting, Status # 0
  PROVE  /\ served = Len(asked) /\ Status \in 1..Len(buf)
         /\ \E a \in Replies(asked[Len(asked)]) : Ahead(buf \o wire, Status - 1, a)
<1> DEFINE in == buf \o wire
<1>1. Status \in 1..Len(buf) /\ buf[Status].line = "status"
  BY GoodStatus DEF ClientTypes
<1>2. Status \in DOMAIN in /\ in[Status].line = "status" /\ Len(in) \in Nat /\ DOMAIN in = 1..Len(in)
  <2>1. Status \in 1..(Len(buf) + Len(wire))
    BY <1>1, Arriving
  <2>2. QED
    BY <1>1, <2>1, Arriving
<1>3. served = Len(asked)
  <2>1. ~Silent(in)
    BY <1>2 DEF Silent
  <2>2. ~(served < Len(asked))
    BY <2>1 DEF Awaiting
  <2>3. served \in 0..Len(asked) /\ Len(asked) \in Nat
    BY LastAsked DEF ClientTypes, Awaiting
  <2>4. QED
    BY <2>2, <2>3
<1>4. PICK m \in Nat, answer \in Replies(asked[Len(asked)]) : Ahead(in, m, answer)
  BY <1>3 DEF Awaiting
<1>5. Len(answer) \in Nat \ {0} /\ \A i \in 2..Len(answer) : answer[i].line # "status"
  BY LastAsked, ReplyShape DEF Awaiting
<1> HIDE DEF in
<1>6. Status = m + 1
  <2>1. ~(Status \in 1..m)
    BY <1>2, <1>4 DEF Ahead
  <2>2. ~(Status - m \in 2..Len(answer))
    <3> SUFFICES ASSUME Status - m \in 2..Len(answer) PROVE FALSE
      OBVIOUS
    <3>1. Status - m \in 1..Len(answer) /\ m + (Status - m) = Status
      BY <1>1, <1>5
    <3>2. in[m + (Status - m)] = answer[Status - m]
      BY <1>4, <3>1 DEF Ahead
    <3>3. QED
      BY <1>2, <1>5, <3>1, <3>2
  <2>3. Status \in 1..(m + Len(answer))
    BY <1>2, <1>4 DEF Ahead
  <2>4. QED
    BY <1>1, <1>5, <2>1, <2>2, <2>3
<1>7. m = Status - 1
  BY <1>6
<1>8. QED
  BY <1>1, <1>3, <1>4, <1>7 DEF in

(* Behind it there is none.                                                *)
LEMMA SilentBehind ==
  ASSUME ClientTypes, Awaiting, Status # 0, NEW n \in Nat, n >= Status, Use(n), cut' = cut
  PROVE  Silent(buf' \o wire)
<1> DEFINE in == buf \o wire
<1>1. Status \in 1..Len(buf)
  BY StatusBegins
<1>2. PICK answer \in Replies(asked[Len(asked)]) : Ahead(in, Status - 1, answer)
  BY StatusBegins
<1>3. Len(answer) \in Nat \ {0} /\ \A i \in 2..Len(answer) : answer[i].line # "status"
  BY LastAsked, ReplyShape DEF Awaiting
<1>4. ASSUME NEW i \in (Status + 1)..(Len(buf) + Len(wire)) PROVE in[i].line # "status"
  <2> DEFINE k == i - (Status - 1)
  <2>1. Len(buf) + Len(wire) = (Status - 1) + Len(answer)
    BY <1>2, Arriving DEF Ahead
  <2>2. k \in 2..Len(answer) /\ (Status - 1) + k = i /\ k \in 1..Len(answer)
    BY <1>1, <1>3, <2>1, Arriving
  <2> HIDE DEF k
  <2>3. in[(Status - 1) + k] = answer[k]
    BY <1>2, <2>2 DEF Ahead
  <2>4. QED
    BY <1>3, <2>2, <2>3
<1> HIDE DEF in
<1>5. \A i \in 1..Len(wire) : wire[i].line # "status"
  <2> SUFFICES ASSUME NEW i \in 1..Len(wire) PROVE wire[i].line # "status"
    OBVIOUS
  <2>1. Len(buf) + i \in (Status + 1)..(Len(buf) + Len(wire))
    BY <1>1, Arriving
  <2>2. QED
    BY <1>4, <2>1, Arriving DEF in
<1>6. /\ buf' \in Seq(Good) /\ wire \in Seq(Good)
      /\ buf' = After(n) \/ buf' = Shortened
  BY GoodUse DEF ClientTypes
<1>7. \A i \in DOMAIN buf' : buf'[i].line # "status"
  <2>1. CASE buf' = After(n)
    <3>1. /\ After(n) \in Seq(Good)
          /\ \A i \in DOMAIN After(n) : n + i \in 1..Len(buf) /\ After(n)[i] = buf[n + i]
      BY GoodAfter DEF ClientTypes
    <3>2. DOMAIN After(n) = 1..Len(After(n)) /\ Len(After(n)) \in Nat
      BY <3>1, LenProperties
    <3>3. ASSUME NEW i \in DOMAIN After(n) PROVE After(n)[i].line # "status"
      <4>1. n + i \in (Status + 1)..(Len(buf) + Len(wire)) /\ n + i \in 1..Len(buf)
        BY <1>1, <3>1, <3>2, Arriving
      <4>2. QED
        BY <1>4, <3>1, <4>1, Arriving DEF in
    <3>4. QED
      BY <2>1, <3>3
  <2>2. CASE buf' = Shortened
    <3>1. DOMAIN buf' = {1} /\ buf'[1].line = "text"
      BY <2>2 DEF Shortened, Line
    <3>2. QED
      BY <3>1
  <2>3. QED
    BY <1>6, <2>1, <2>2
<1>8. /\ buf' \o wire \in Seq(Good) /\ Len(buf' \o wire) = Len(buf') + Len(wire)
      /\ \A i \in 1..Len(buf') : (buf' \o wire)[i] = buf'[i]
      /\ \A i \in 1..Len(wire) : (buf' \o wire)[Len(buf') + i] = wire[i]
  BY ONLY <1>6, Joined
<1>9. DOMAIN buf' = 1..Len(buf') /\ Len(buf') \in Nat
  BY <1>6, LenProperties
<1>10. ASSUME NEW i \in DOMAIN (buf' \o wire) PROVE (buf' \o wire)[i].line # "status"
  <2>1. i \in 1..(Len(buf') + Len(wire))
    BY <1>8, LenProperties
  <2>2. CASE i \in 1..Len(buf')
    BY <1>7, <1>8, <1>9, <2>2
  <2>3. CASE i \notin 1..Len(buf')
    <3>1. i - Len(buf') \in 1..Len(wire) /\ Len(buf') + (i - Len(buf')) = i
      BY <1>9, <2>1, <2>3, Arriving
    <3>2. QED
      BY <1>5, <1>8, <3>1
  <2>4. QED
    BY <2>2, <2>3
<1>11. QED
  BY <1>10 DEF Silent

(* Where the stream begins in what was received when Connect is done: not  *)
(* before the session of the answer to PLAY, whether all of that has come  *)
(* or not, and behind its blank line if that has come.                     *)
LEMMA StreamBegins ==
  ASSUME ClientTypes, Awaiting, asked[Len(asked)].what = "PLAY", Status # 0,
         Value("session") # 0, NEW d, d = Len(After(Used))
  PROVE  /\ d \in Nat
         /\ d = Read \/ (Read = -1 /\ d = 0 /\ wire[1] = Line("blank", 0))
         /\ \A j \in DOMAIN wire : Read + j >= 1 => wire[j] = StreamBytes[Read + j]
<1> DEFINE in == buf \o wire
           answer == Answer(asked[Len(asked)])
           total == Len(StreamBytes)
<1>1. /\ Status \in 1..Len(buf) /\ served = Len(asked)
      /\ Len(buf) \in Nat /\ Len(wire) \in Nat /\ total \in Nat
      /\ buf \in Seq(Good) /\ PartFits
  BY StatusBegins, Arriving, StreamLines DEF ClientTypes
<1>2. PICK reply \in Replies(asked[Len(asked)]) : Ahead(in, Status - 1, reply)
  BY StatusBegins
<1>3. /\ \A i \in 1..Len(buf) : in[i] = buf[i]
      /\ \A j \in 1..Len(wire) : in[Len(buf) + j] = wire[j]
      /\ DOMAIN wire = 1..Len(wire) /\ Len(in) = Len(buf) + Len(wire)
  BY Arriving
<1>4. PICK at \in (Status + 1)..Used : Seen[at].line = "session"
  <2>1. FirstLine("session", Status + 1, Used) # 0
    BY DEF Value
  <2>2. Status + 1 \in Nat \ {0} /\ Used \in Nat
    BY <1>1, GoodMessage
  <2>3. IsFirst(FirstLine("session", Status + 1, Used), "session", Status + 1, Used)
    BY <2>2, FirstFound
  <2>4. QED
    BY <2>1, <2>3 DEF IsFirst
<1>5. /\ at \in 1..Len(buf) /\ at > Status /\ buf[at].line = "session"
  <2>1. Used \in Status..Len(buf)
    BY <1>1, GoodMessage
  <2>2. at \in 1..Len(buf) /\ at > Status
    BY <1>1, <1>4, <2>1
  <2>3. QED
    BY <1>1, <1>4, <2>2, GoodSeen
<1> HIDE DEF in, total
<1>6. reply = answer
  <2> HIDE DEF answer
  <2> DEFINE k == at - (Status - 1)
  <2>1. Len(buf) + Len(wire) = (Status - 1) + Len(reply) /\ Len(reply) \in Nat
    BY <1>2, <1>3, LastAsked, ReplyShape DEF Ahead, Awaiting
  <2>2. k \in 2..Len(reply) /\ k \in 1..Len(reply) /\ (Status - 1) + k = at
    BY <1>1, <1>5, <2>1
  <2> HIDE DEF k
  <2>3. reply[k].line = "session"
    BY <1>2, <1>3, <1>5, <2>2 DEF Ahead
  <2>4. QED
    BY <2>2, <2>3, LastAsked, ReplyShape DEF Awaiting, answer
<1>7. /\ Len(answer) = 3 + total
      /\ answer[2] = Line("session", Id) /\ answer[3] = Line("blank", 0)
      /\ \A i \in 1..total : answer[3 + i] = StreamBytes[i]
  BY LastAsked, AnswerShape DEF Awaiting, total
<1> HIDE DEF answer
<1>8. Status \in Nat \ {0} /\ Len(buf) \in Nat /\ Len(wire) \in Nat /\ total \in Nat
  BY <1>1
<1>9. Len(buf) + Len(wire) = Status + 2 + total
  <2>1. Len(in) = (Status - 1) + Len(answer)
    BY <1>2, <1>6 DEF Ahead
  <2>2. Len(in) = Len(buf) + Len(wire) /\ Len(answer) = 3 + total
    BY <1>3, <1>7
  <2>3. QED
    BY ONLY <1>8, <2>1, <2>2
<1>10. \A i \in Status..(Status + 2 + total) : in[i] = answer[i - Status + 1]
  <2> SUFFICES ASSUME NEW i \in Status..(Status + 2 + total) PROVE in[i] = answer[i - Status + 1]
    OBVIOUS
  <2>1. i - Status + 1 \in 1..Len(answer) /\ (Status - 1) + (i - Status + 1) = i
    BY <1>7, <1>8
  <2>2. in[(Status - 1) + (i - Status + 1)] = answer[i - Status + 1]
    BY <1>2, <1>6, <2>1 DEF Ahead
  <2>3. QED
    BY <2>1, <2>2
<1>11. Read = total - Len(wire)
  BY DEF Read, total
<1>12. Len(buf) >= Status + 1
  BY <1>5, <1>8
<1>13. /\ Seen[Status + 1].line # "blank"
       /\ Len(buf) > Status + 2 => Seen[Status + 2].line = "blank"
  <2>1. Status + 1 \in 1..Len(buf) /\ Status + 1 \in Status..(Status + 2 + total)
        /\ (Status + 1) - Status + 1 = 2
    BY <1>8, <1>12
  <2>2. buf[Status + 1].line = "session"
    BY <1>3, <1>7, <1>10, <2>1 DEF Line
  <2>3. Seen[Status + 1].line \in {"text", buf[Status + 1].line}
    BY <1>1, <2>1, GoodSeen
  <2>4. ASSUME Len(buf) > Status + 2 PROVE Seen[Status + 2].line = "blank"
    <3>1. Status + 2 \in 1..Len(buf) /\ Status + 2 \in Status..(Status + 2 + total)
          /\ (Status + 2) - Status + 1 = 3 /\ Status + 2 < Len(buf)
      BY <1>8, <2>4
    <3>2. buf[Status + 2].line = "blank"
      BY <1>3, <1>7, <1>10, <3>1 DEF Line
    <3>3. Seen[Status + 2] = buf[Status + 2]
      BY <1>1, <3>1, GoodSeen
    <3>4. QED
      BY <3>2, <3>3
  <2>5. QED
    BY <2>2, <2>3, <2>4
<1>14. IsFirst(Blank, "blank", Status + 1, Len(buf))
  <2>1. Status + 1 \in Nat \ {0}
    BY <1>8
  <2>2. QED
    BY <1>8, <2>1, FirstFound DEF Blank
<1>15. d = Len(buf) - Used /\ Used \in Status..Len(buf) /\ Used \in Nat
  <2>1. Used \in Status..Len(buf) /\ Used \in Nat
    BY <1>1, GoodMessage
  <2>2. Len(After(Used)) = IF Used <= Len(buf) THEN Len(buf) - Used ELSE 0
    BY <1>1, <2>1, GoodAfter
  <2>3. QED
    BY <1>8, <2>1, <2>2
<1>16. ASSUME NEW j \in DOMAIN wire, Read + j >= 1 PROVE wire[j] = StreamBytes[Read + j]
  <2>1. j \in 1..Len(wire)
    BY <1>3
  <2>2. Read + j \in 1..total
    BY <1>8, <1>11, <1>16, <2>1
  <2>3. /\ Len(buf) + j \in Status..(Status + 2 + total)
        /\ (Len(buf) + j) - Status + 1 = 3 + (Read + j)
    <3>1. Read = Len(buf) - Status - 2
      BY ONLY <1>8, <1>9, <1>11
    <3>2. (Len(buf) + j) - Status + 1 = 3 + (Read + j)
      BY ONLY <1>8, <2>1, <3>1
    <3>3. Len(buf) + j \in Status..(Len(buf) + Len(wire))
      <4>1. Status <= Len(buf)
        BY <1>1
      <4>2. QED
        BY ONLY <1>8, <2>1, <4>1
    <3>4. QED
      BY <1>9, <3>2, <3>3
  <2>4. wire[j] = answer[3 + (Read + j)]
    BY <1>3, <1>10, <2>1, <2>3
  <2>5. QED
    BY <1>7, <2>2, <2>4
<1>17. CASE Len(buf) = Status + 1
  <2>1. Used = Len(buf)
    <3>1. Blank # 0 => Blank = Status + 1 /\ Seen[Blank].line = "blank"
      BY <1>8, <1>14, <1>17 DEF IsFirst
    <3>2. Blank = 0
      BY <1>13, <3>1
    <3>3. QED
      BY <3>2 DEF Used
  <2>2. d = 0 /\ Read = -1 /\ Len(wire) = total + 1
    BY <1>8, <1>9, <1>11, <1>15, <1>17, <2>1
  <2>3. wire[1] = Line("blank", 0)
    <3>1. /\ 1 \in 1..Len(wire) /\ Len(buf) + 1 \in Status..(Status + 2 + total)
          /\ (Len(buf) + 1) - Status + 1 = 3
      BY <1>8, <1>17, <2>2
    <3>2. QED
      BY <1>3, <1>7, <1>10, <3>1
  <2>4. QED
    BY <1>16, <2>2, <2>3
<1>18. CASE Len(buf) # Status + 1
  <2>1. Len(buf) >= Status + 2
    BY <1>8, <1>12, <1>18
  <2>2. Used = Status + 2
    <3>1. CASE Blank = 0
      <4>1. ~(Len(buf) > Status + 2)
        <5> SUFFICES ASSUME Len(buf) > Status + 2 PROVE FALSE
          OBVIOUS
        <5>1. Status + 2 \in (Status + 1)..Len(buf)
          BY <1>8, <2>1
        <5>2. QED
          BY <1>13, <1>14, <3>1, <5>1 DEF IsFirst
      <4>2. QED
        BY <1>8, <2>1, <3>1, <4>1 DEF Used
    <3>2. CASE Blank # 0
      <4>1. /\ Blank \in (Status + 1)..Len(buf) /\ Seen[Blank].line = "blank"
            /\ \A i \in (Status + 1)..(Blank - 1) : Seen[i].line # "blank"
        BY <1>14, <3>2 DEF IsFirst
      <4>2. Blank # Status + 1
        BY <1>13, <4>1
      <4>3. ~(Blank > Status + 2)
        <5> SUFFICES ASSUME Blank > Status + 2 PROVE FALSE
          OBVIOUS
        <5>1. Status + 2 \in (Status + 1)..(Blank - 1) /\ Len(buf) > Status + 2
          BY <1>8, <4>1
        <5>2. QED
          BY <1>13, <4>1, <5>1
      <4>4. Blank = Status + 2
        BY <1>8, <4>1, <4>2, <4>3
      <4>5. QED
        BY <3>2, <4>4 DEF Used
    <3>3. QED
      BY <3>1, <3>2
  <2>3. d = Read /\ d \in Nat
    BY <1>8, <1>9, <1>11, <1>15, <2>1, <2>2
  <2>4. QED
    BY <1>16, <2>3
<1>19. QED
  BY <1>17, <1>18

(* An answer is used up and the next request is sent.                      *)
LEMMA AskedAgain ==
  ASSUME ClientTypes, Exchange, NEW r \in Requests, NEW n \in Nat,
         stat \notin {"NONE", "PLAYING", "failed"}, Status # 0, n >= Status,
         Use(n), asked' = Append(asked, r),
         UNCHANGED <<served, wire, cut, rx, dropped>>,
         stat' \notin {"NONE", "PLAYING", "failed"}, stat' = "PLAY" => r.what = "PLAY"
  PROVE  Exchange'
<1>1. Awaiting /\ Begun /\ dropped = 0
  BY DEF Exchange
<1>2. Len(asked') = Len(asked) + 1 /\ asked'[Len(asked')] = r /\ Len(asked) \in Nat
  BY AskOne
<1>3. served = Len(asked)
  BY <1>1, StatusBegins
<1>4. Silent(buf' \o wire')
  BY <1>1, SilentBehind
<1>5. asked' # <<>> /\ served' >= Len(asked') - 1 /\ served' # Len(asked')
  <2>1. asked' # <<>>
    BY <1>2, EmptySeq
  <2>2. QED
    BY <1>2, <1>3, <2>1
<1>6. Awaiting'
  BY <1>4, <1>5 DEF Awaiting
<1>7. Begun' /\ dropped' = 0
  BY <1>1 DEF Begun
<1>8. QED
  BY <1>2, <1>6, <1>7 DEF Exchange

LEMMA ExchangeKept ==
  ASSUME Exchange, UNCHANGED <<buf, asked, served, wire, rx, dropped>>,
         \/ stat' = "failed" /\ stat # "PLAYING"
         \/ stat' = stat /\ (stat \in {"NONE", "PLAYING"} => todo' = todo)
  PROVE  Exchange'
<1>1. CASE stat' = "failed"
  BY <1>1 DEF Exchange, Begun
<1>2. CASE stat' # "failed"
  <2>1. Awaiting => Awaiting'
    BY DEF Awaiting
  <2>2. stat = "PLAYING" /\ Streaming => Streaming'
    BY <1>2 DEF Streaming, Read
  <2>3. Begun => Begun'
    BY DEF Begun
  <2>4. QED
    BY <1>2, <2>1, <2>2, <2>3 DEF Exchange
<1>3. QED
  BY <1>1, <1>2

LEMMA ExchangeDecoded ==
  ASSUME Dialogue, Exchange, Decode
  PROVE  Exchange'
<1>1. /\ ClientTypes /\ Greeting /\ stat \notin {"PLAYING", "failed"}
      /\ UNCHANGED <<served, wire, cut, rx>>
      /\ dropped' = IF stat' = "PLAYING" THEN Len(After(Used)) ELSE dropped
      /\ session \in 0..Id /\ realm \in BOOLEAN
      /\ \A m \in Nat : Status # 0 => Used + m \in Nat /\ Used + m >= Status
  <2>1. ClientTypes /\ Greeting
    BY DEF Dialogue
  <2>2. ASSUME Status # 0 PROVE Used \in Nat /\ Status \in Nat /\ Used >= Status
    <3>1. /\ Len(buf) \in Nat /\ Status \in 0..Len(buf)
          /\ Used \in Status..Len(buf) /\ Used \in Nat
      BY <2>1, GoodStatus, GoodMessage DEF ClientTypes
    <3>2. QED
      BY <3>1
  <2>3. \A m \in Nat : Status # 0 => Used + m \in Nat /\ Used + m >= Status
    BY <2>2
  <2>4. QED
    BY <2>1, <2>3 DEF Decode, server, ClientTypes
<1>2. ASSUME Incomplete, stat # "NONE" PROVE Exchange'
  BY <1>1, <1>2, ExchangeKept DEF Incomplete
<1>3. ASSUME Fail PROVE Exchange'
  BY <1>1, <1>3, ExchangeKept DEF Fail
<1>4. ASSUME NEW r \in Requests, NEW m \in Nat, stat # "NONE", Status # 0,
             Use(Used + m), asked' = Append(asked, r),
             stat' \notin {"NONE", "PLAYING", "failed"}, stat' = "PLAY" => r.what = "PLAY"
      PROVE  Exchange'
  BY <1>1, <1>4, AskedAgain
<1>5. Used + 0 = Used
  <2>1. Used \in Nat
    BY <1>1, GoodMessage DEF ClientTypes
  <2>2. QED
    BY <2>1
<1>6. CASE NoStatus
  BY <1>3, <1>6 DEF NoStatus
<1>7. CASE SendOptions
  <2> DEFINE r == [what |-> "OPTIONS", media |-> "none", auth |-> FALSE, session |-> session']
  <2>1. /\ stat = "NONE" /\ stat' = "OPTIONS" /\ asked' = Append(asked, r)
        /\ buf' = buf /\ session' = session
    BY <1>7 DEF SendOptions, Await, Ask
  <2>2. r \in Requests
    BY <1>1, <2>1 DEF Requests
  <2> HIDE DEF r
  <2>3. asked = <<>> /\ buf = <<>> /\ wire = <<>> /\ served = 0
    <3>1. asked = <<>> /\ buf = <<>> /\ wire = <<>>
      BY <2>1 DEF Exchange
    <3>2. served \in 0..0
      BY <1>1, <3>1 DEF ClientTypes
    <3>3. QED
      BY <3>1, <3>2
  <2>4. Len(asked') = 1
    <3>1. Len(asked') = Len(asked) + 1
      BY <1>1, <2>1, <2>2, AskOne
    <3>2. Len(asked) = 0
      BY <2>3
    <3>3. QED
      BY <3>1, <3>2
  <2>5. Silent(buf' \o wire')
    BY <1>1, <2>1, <2>3 DEF Silent
  <2>6. asked' # <<>> /\ served' >= Len(asked') - 1 /\ served' # Len(asked')
    <3>1. served' = 0 /\ Len(<<>>) = 0
      BY <1>1, <2>3
    <3>2. QED
      BY ONLY <2>4, <3>1
  <2>7. Awaiting'
    BY <2>5, <2>6 DEF Awaiting
  <2>8. Begun' /\ dropped' = 0
    BY <1>1, <2>1 DEF Exchange, Begun
  <2>9. QED
    BY <2>1, <2>7, <2>8 DEF Exchange
<1>8. CASE DecodeOptions
  <2> DEFINE r == [what |-> "DESCRIBE", media |-> "none", auth |-> FALSE, session |-> session']
  <2>1. /\ stat = "OPTIONS" /\ stat' = "DESCRIBE" /\ asked' = Append(asked, r)
        /\ Use(Used) /\ session' = session /\ Status # 0
    BY <1>8 DEF DecodeOptions, Await, Ask
  <2>2. r \in Requests
    BY <1>1, <2>1 DEF Requests
  <2> HIDE DEF r
  <2>3. QED
    BY <1>4, <1>5, <2>1, <2>2
<1>9. CASE DecodeUnauthorized
  <2>1. CASE Value("authenticate") = 0
    BY <1>2, <1>9, <2>1 DEF DecodeUnauthorized
  <2>2. CASE Value("authenticate") # 0
    <3> DEFINE r == [what |-> "DESCRIBE", media |-> "none", auth |-> realm', session |-> session']
    <3>1. /\ stat = "DESCRIBE" /\ stat' = "DESCRIBE" /\ asked' = Append(asked, r)
          /\ Use(Used) /\ session' = session /\ Status # 0
      BY <1>9, <2>2 DEF DecodeUnauthorized, Await, Ask
    <3>2. realm' \in BOOLEAN
      BY <1>1, <1>9, <2>2 DEF DecodeUnauthorized
    <3>3. r \in Requests
      BY <1>1, <3>1, <3>2 DEF Requests
    <3> HIDE DEF r
    <3>4. QED
      BY <1>4, <1>5, <3>1, <3>3
  <2>3. QED
    BY <2>1, <2>2
<1>10. CASE DecodeDescribe
  <2>1. CASE Incomplete \/ Fail
    BY <1>2, <1>3, <1>10, <2>1 DEF DecodeDescribe
  <2>2. CASE ~Incomplete /\ ~Fail
    <3> DEFINE medium == IF "video" \in Media THEN "video" ELSE "audio"
               r == [what |-> "SETUP", media |-> medium, auth |-> realm, session |-> session']
    <3>1. /\ stat = "DESCRIBE" /\ stat' = SetupOf(medium) /\ asked' = Append(asked, r)
          /\ Use(Used + Value("length")) /\ session' = session /\ Status # 0
          /\ Media # {}
      BY <1>10, <2>2 DEF DecodeDescribe, Await, Ask
    <3>2. medium \in Media
      BY <3>1, ClientAssumption
    <3>3. r \in Requests
      BY <1>1, <3>1, <3>2 DEF Requests
    <3>4. stat' \in {"STEUP_VIDEO", "STEUP_ADUIO"}
      BY <3>1 DEF SetupOf
    <3>5. Value("length") \in Nat
      BY <1>1, GoodValue DEF ClientTypes
    <3> HIDE DEF r, medium
    <3>6. QED
      BY <1>4, <3>1, <3>3, <3>4, <3>5
  <2>3. QED
    BY <2>1, <2>2
<1>11. CASE DecodeSetup
  <2>1. CASE Value("session") = 0
    BY <1>2, <1>11, <2>1 DEF DecodeSetup, SetupOf
  <2>2. CASE Value("session") # 0
    <3>1. /\ stat \in {"STEUP_VIDEO", "STEUP_ADUIO"}
          /\ Status # 0 /\ Use(Used)
          /\ session' = IF session = 0 THEN Value("session") ELSE session
      BY <1>11, <2>2 DEF DecodeSetup, SetupOf
    <3>2. session' \in 0..Id
      BY <1>1, <3>1, GoodValue DEF ClientTypes
    <3>3. CASE StillToSetUp = {}
      <4> DEFINE r == [what |-> "PLAY", media |-> "none", auth |-> realm, session |-> session']
      <4>1. stat' = "PLAY" /\ asked' = Append(asked, r)
        BY <1>11, <2>2, <3>3 DEF DecodeSetup, Await, Ask
      <4>2. r \in Requests /\ r.what = "PLAY"
        BY <1>1, <3>2 DEF Requests
      <4> HIDE DEF r
      <4>3. QED
        BY <1>4, <1>5, <3>1, <4>1, <4>2
    <3>4. CASE StillToSetUp # {}
      <4>1. PICK media \in StillToSetUp : Await(SetupOf(media)) /\ Ask("SETUP", media, realm)
        BY <1>11, <2>2, <3>4 DEF DecodeSetup
      <4> DEFINE r == [what |-> "SETUP", media |-> media, auth |-> realm, session |-> session']
      <4>2. stat' \in {"STEUP_VIDEO", "STEUP_ADUIO"} /\ asked' = Append(asked, r)
        BY <4>1 DEF Await, Ask, SetupOf
      <4>3. media \in Media
        BY DEF StillToSetUp
      <4>4. r \in Requests
        BY <1>1, <3>2, <4>3 DEF Requests
      <4> HIDE DEF r
      <4>5. QED
        BY <1>4, <1>5, <3>1, <4>2, <4>4
    <3>5. QED
      BY <3>3, <3>4
  <2>3. QED
    BY <2>1, <2>2
<1>12. CASE DecodePlay
  <2>1. CASE Value("session") = 0
    BY <1>2, <1>12, <2>1 DEF DecodePlay
  <2>2. CASE Value("session") # 0
    <3>1. /\ stat = "PLAY" /\ stat' = "PLAYING" /\ UNCHANGED <<todo, asked>>
          /\ Status # 0 /\ dropped' = Len(After(Used))
      BY <1>1, <1>12, <2>2 DEF DecodePlay
    <3>2. Awaiting /\ asked[Len(asked)].what = "PLAY"
      BY <3>1 DEF Exchange
    <3>3. served = Len(asked)
      BY <1>1, <3>1, <3>2, StatusBegins
    <3>4. /\ dropped' <= Read \/ (Read = -1 /\ dropped' = 0 /\ wire[1] = Line("blank", 0))
          /\ \A j \in DOMAIN wire : Read + j >= 1 => wire[j] = StreamBytes[Read + j]
      <4>1. /\ dropped' \in Nat
            /\ dropped' = Read \/ (Read = -1 /\ dropped' = 0 /\ wire[1] = Line("blank", 0))
            /\ \A j \in DOMAIN wire : Read + j >= 1 => wire[j] = StreamBytes[Read + j]
        BY <1>1, <2>2, <3>1, <3>2, StreamBegins
      <4>2. QED
        BY <4>1
    <3>5. Read' = Read /\ todo' = "step"
      BY <1>1, <3>1 DEF Read, Decode
    <3>6. Streaming'
      BY <1>1, <3>1, <3>3, <3>4, <3>5 DEF Streaming
    <3>7. QED
      BY <3>1, <3>6 DEF Exchange
  <2>3. QED
    BY <2>1, <2>2
<1>13. QED
  BY <1>6, <1>7, <1>8, <1>9, <1>10, <1>11, <1>12 DEF Decode

(* Connect is done exactly where the parser begins to read, or before the  *)
(* blank line of the answer to PLAY.                                       *)
LEMMA PlayBegins ==
  ASSUME Dialogue, Exchange, Decode, stat' = "PLAYING"
  PROVE  /\ rx' = rx /\ Begun
         /\ dropped' = Read' \/ (Read' = -1 /\ dropped' = 0)
<1>1. stat \notin {"PLAYING", "failed"} /\ UNCHANGED <<served, wire, rx>> /\ Read' = Read
      /\ dropped' = Len(After(Used)) /\ ClientTypes
  BY DEF Decode, server, Read, Dialogue
<1>2. DecodePlay /\ ~Incomplete
  <2>1. ~Incomplete /\ ~Fail /\ \A s : Await(s) => s = "PLAYING"
    BY <1>1 DEF Incomplete, Fail, Await
  <2>2. ~SendOptions /\ ~DecodeOptions /\ ~DecodeUnauthorized /\ ~NoStatus
    BY <2>1 DEF SendOptions, DecodeOptions, DecodeUnauthorized, NoStatus
  <2>3. ~DecodeDescribe
    BY <2>1 DEF DecodeDescribe, SetupOf
  <2>4. ~DecodeSetup
    BY <2>1 DEF DecodeSetup, SetupOf
  <2>5. QED
    BY <2>1, <2>2, <2>3, <2>4 DEF Decode
<1>3. stat = "PLAY" /\ Status # 0 /\ Value("session") # 0
  BY <1>2 DEF DecodePlay
<1>4. Awaiting /\ asked[Len(asked)].what = "PLAY" /\ Begun
  BY <1>1, <1>3 DEF Exchange
<1>5. dropped' = Read \/ (Read = -1 /\ dropped' = 0)
  BY <1>1, <1>3, <1>4, StreamBegins
<1>6. QED
  BY <1>1, <1>4, <1>5

LEMMA ExchangeReceived ==
  ASSUME Dialogue, Exchange, Receive \/ ReceiveCut
  PROVE  Exchange'
<1>1. /\ stat' = stat /\ UNCHANGED <<asked, served, dropped, rx>> /\ todo = "recv"
      /\ buf' \o wire' = buf \o wire
  BY StepReceive, StepReceiveCut DEF Receive, ReceiveCut, Come, server
<1>2. stat # "PLAYING" /\ stat # "NONE"
  BY <1>1 DEF Exchange, Streaming
<1>3. Awaiting => Awaiting'
  BY <1>1 DEF Awaiting
<1>4. Begun => Begun'
  BY <1>1 DEF Begun
<1>5. QED
  BY <1>1, <1>2, <1>3, <1>4 DEF Exchange

LEMMA ExchangeAnswered ==
  ASSUME Dialogue, Exchange, ServerAnswers
  PROVE  Exchange'
<1>1. /\ ClientTypes /\ served < Len(asked)
      /\ \E a \in Replies(asked[served + 1]) : wire' = wire \o a
      /\ served' = served + 1 /\ UNCHANGED <<stat, todo, buf, asked, dropped, rx>>
  BY DEF ServerAnswers, dialogue, Dialogue, Replies
<1>2. CASE stat \in {"NONE", "PLAYING", "failed"}
  <2>1. stat # "PLAYING"
    <3>1. served \in 0..Len(asked)
      BY <1>1 DEF ClientTypes
    <3>2. served # Len(asked)
      BY <1>1, <3>1
    <3>3. QED
      BY <3>2 DEF Exchange, Streaming
  <2>2. stat # "NONE"
    <3>1. served \in 0..Len(asked) /\ (stat = "NONE" => Len(asked) = 0)
      BY <1>1 DEF ClientTypes, Exchange
    <3>2. QED
      BY <1>1, <3>1
  <2>3. QED
    BY <1>1, <1>2, <2>1, <2>2 DEF Exchange, Begun
<1>3. CASE stat \notin {"NONE", "PLAYING", "failed"}
  <2> DEFINE in == buf \o wire
  <2>1. Awaiting
    BY <1>3 DEF Exchange
  <2>2. served + 1 = Len(asked) /\ Silent(in)
    <3>1. Len(asked) \in Nat \ {0} /\ served \in 0..Len(asked)
      BY <1>1, <2>1, LastAsked DEF Awaiting, ClientTypes
    <3>2. served >= Len(asked) - 1 /\ Silent(in)
      BY <1>1, <2>1 DEF Awaiting
    <3>3. QED
      BY <1>1, <3>1, <3>2
  <2>3. PICK answer \in Replies(asked[Len(asked)]) : wire' = wire \o answer
    BY <1>1, <2>2
  <2>4. /\ in \in Seq(Good) /\ Len(in) \in Nat /\ DOMAIN in = 1..Len(in)
        /\ answer \in Seq(Good)
    BY <1>1, <2>1, Arriving, LastAsked, ReplyShape DEF Awaiting
  <2>5. buf' \o wire' = in \o answer
    <3>1. buf \in Seq(Good) /\ wire \in Seq(Good)
      BY <1>1 DEF ClientTypes
    <3>2. (buf \o wire) \o answer = buf \o (wire \o answer)
      BY <2>4, <3>1, ConcatAssociative
    <3>3. QED
      BY <1>1, <2>3, <3>2
  <2> HIDE DEF in
  <2>6. /\ Len(in \o answer) = Len(in) + Len(answer)
        /\ \A i \in 1..Len(in) : (in \o answer)[i] = in[i]
        /\ \A i \in 1..Len(answer) : (in \o answer)[Len(in) + i] = answer[i]
    BY ONLY <2>4, Joined
  <2>7. Ahead(buf' \o wire', Len(in), answer)
    BY <2>2, <2>4, <2>5, <2>6 DEF Ahead, Silent
  <2>8. Awaiting'
    <3>1. asked' = asked /\ served' = Len(asked') /\ served' >= Len(asked') - 1
          /\ ~(served' < Len(asked')) /\ asked # <<>>
      <4>1. Len(asked) \in Nat /\ served' = Len(asked) /\ asked' = asked /\ asked # <<>>
        BY <1>1, <2>1, <2>2, LastAsked DEF Awaiting
      <4>2. QED
        BY <4>1
    <3>2. /\ Ahead(buf' \o wire', Len(in), answer)
          /\ answer \in Replies(asked'[Len(asked')])
      BY <2>7, <3>1
    <3>3. QED
      BY <2>4, <3>1, <3>2 DEF Awaiting
  <2>9. Begun' /\ dropped' = 0
    BY <1>1, <1>3 DEF Exchange, Begun
  <2>10. QED
    BY <1>1, <1>3, <2>8, <2>9 DEF Exchange
<1>4. QED
  BY <1>2, <1>3

(* What is left on the wire after n bytes, and what was read.              *)
LEMMA BytesRead ==
  ASSUME ClientTypes, NEW n \in 1..Len(wire), wire' = SubSeq(wire, n + 1, Len(wire))
  PROVE  /\ Len(wire) \in Nat /\ Len(wire') = Len(wire) - n /\ DOMAIN wire' = 1..Len(wire')
         /\ \A j \in DOMAIN wire' : n + j \in 1..Len(wire) /\ wire'[j] = wire[n + j]
         /\ Read \in Int /\ Read' = Read + n
<1>1. Len(wire) \in Nat /\ wire \in Seq(Good)
  BY Arriving DEF ClientTypes
<1>2. \A i \in (n + 1)..Len(wire) : wire[i] \in Good
  BY <1>1, ElementOfSeq
<1>3. n + 1 \in Int /\ Len(wire) \in Int
  BY <1>1
<1>4. /\ wire' \in Seq(Good)
      /\ Len(wire') = IF n + 1 <= Len(wire) THEN Len(wire) - (n + 1) + 1 ELSE 0
      /\ \A i \in 1..(Len(wire) - (n + 1) + 1) : wire'[i] = wire[(n + 1) + i - 1]
  <2>1. /\ SubSeq(wire, n + 1, Len(wire)) \in Seq(Good)
        /\ Len(SubSeq(wire, n + 1, Len(wire))) =
             IF n + 1 <= Len(wire) THEN Len(wire) - (n + 1) + 1 ELSE 0
        /\ \A i \in 1..(Len(wire) - (n + 1) + 1) :
             SubSeq(wire, n + 1, Len(wire))[i] = wire[(n + 1) + i - 1]
    BY ONLY <1>2, <1>3, SubSeqProperties
  <2>2. QED
    BY <2>1
<1>5. Len(wire') = Len(wire) - n
  BY <1>1, <1>4
<1>6. DOMAIN wire' = 1..Len(wire')
  BY <1>4, LenProperties
<1>7. ASSUME NEW j \in DOMAIN wire' PROVE n + j \in 1..Len(wire) /\ wire'[j] = wire[n + j]
  <2>1. j \in 1..Len(wire') /\ n \in 1..Len(wire)
    BY <1>6
  <2>2. j \in 1..(Len(wire) - n) /\ n + j \in 1..Len(wire) /\ (n + 1) + j - 1 = n + j
        /\ j \in 1..(Len(wire) - (n + 1) + 1)
    BY ONLY <1>1, <1>5, <2>1
  <2>3. QED
    BY <1>4, <2>2
<1>8. Read \in Int /\ Read' = Read + n
  <2>1. Len(StreamBytes) \in Nat
    BY StreamLines, LenProperties
  <2>2. Read = Len(StreamBytes) - Len(wire) /\ Read' = Len(StreamBytes) - Len(wire')
    BY DEF Read
  <2>3. n \in Int
    OBVIOUS
  <2>4. QED
    BY ONLY <1>1, <1>5, <2>1, <2>2, <2>3
<1>9. QED
  BY <1>1, <1>5, <1>6, <1>7, <1>8

LEMMA ExchangeRead ==
  ASSUME Dialogue, Exchange, ReadPacketTcp
  PROVE  Exchange'
<1>1. PICK n \in 1..Len(wire) : wire' = SubSeq(wire, n + 1, Len(wire))
  BY DEF ReadPacketTcp
<1>2. /\ ClientTypes /\ stat = "PLAYING"
      /\ UNCHANGED <<stat, todo, buf, asked, served, dropped>>
  BY DEF ReadPacketTcp, dialogue, server, Dialogue
<1>3. Streaming
  BY <1>2 DEF Exchange
<1>4. /\ Read \in Int /\ Read' = Read + n /\ dropped \in Nat /\ n \in Nat \ {0}
      /\ DOMAIN wire = 1..Len(wire)
      /\ \A j \in DOMAIN wire' : n + j \in 1..Len(wire) /\ wire'[j] = wire[n + j]
      /\ DOMAIN wire' = 1..Len(wire')
  <2>1. Len(wire) \in Nat
    BY <1>2, Arriving
  <2>2. QED
    BY <1>1, <1>2, <2>1, BytesRead, Arriving DEF ClientTypes
<1>5. dropped' <= Read'
  BY <1>2, <1>3, <1>4 DEF Streaming
<1>6. ASSUME NEW j \in DOMAIN wire', Read' + j >= 1 PROVE wire'[j] = StreamBytes[Read' + j]
  <2>1. n + j \in DOMAIN wire /\ Read + (n + j) >= 1 /\ Read + (n + j) = Read' + j
    BY <1>4, <1>6
  <2>2. wire[n + j] = StreamBytes[Read + (n + j)]
    BY <1>3, <2>1 DEF Streaming
  <2>3. QED
    BY <1>4, <2>1, <2>2
<1>7. Streaming'
  BY <1>2, <1>3, <1>5, <1>6 DEF Streaming
<1>8. QED
  BY <1>2, <1>7 DEF Exchange

LEMMA ExchangeStep ==
  Dialogue /\ Exchange /\ [ClientNext]_clientVars => Exchange'
<1> SUFFICES ASSUME Dialogue, Exchange, [ClientNext]_clientVars PROVE Exchange'
  OBVIOUS
<1>1. CASE Break
  BY <1>1, ExchangeKept DEF Break, Fail, server
<1>2. CASE UNCHANGED clientVars
  BY <1>2, ExchangeKept DEF clientVars, dialogue, server
<1>3. QED
  BY <1>1, <1>2, ExchangeDecoded, ExchangeReceived, ExchangeAnswered, ExchangeRead
     DEF ClientNext, Connect

-----------------------------------------------------------------------------
(***************************************************************************)
(* Where the items lie in the stream.                                      *)
(***************************************************************************)
LEMMA FlattenEmpty == FlattenSeq(<<>>) = <<>>
<1>1. <<>> \in Seq(Seq(Good)) /\ Len(<<>>) = 0
  OBVIOUS
<1>2. PICK f : f[0] = <<>> /\ FlattenSeq(<<>>) = f[Len(<<>>)]
  BY ZenonT(60), <1>1, FlattenChain
<1>3. QED
  BY <1>1, <1>2

LEMMA FlatNext ==
  ASSUME NEW n \in Nat, n < Len(Stream)
  PROVE  /\ Flat(n) \in Seq(Good) /\ Len(Flat(n)) \in Nat
         /\ Bytes(Stream[n + 1]) \in Seq(Good) /\ Len(Bytes(Stream[n + 1])) \in Nat
         /\ Flat(n + 1) = Flat(n) \o Bytes(Stream[n + 1])
<1> DEFINE x == Bytes(Stream[n + 1])
<1>1. /\ n \in 0..Len(Stream) /\ n + 1 \in 0..Len(Stream) /\ n + 1 \in 1..Len(Stream)
      /\ Stream[n + 1] \in Items
  BY StreamItems
<1>2. /\ FirstItems(n) \in Seq(Seq(Good)) /\ Len(FirstItems(n)) = n
      /\ FirstItems(n + 1) \in Seq(Seq(Good)) /\ Len(FirstItems(n + 1)) = n + 1
  BY <1>1, FirstItemsOver, GoodByte
<1>3. x \in Seq(Good)
  BY ZenonT(60), <1>1, BytesOver, GoodByte
<1>4. FirstItems(n + 1) = Append(FirstItems(n), x)
  <2>1. /\ Append(FirstItems(n), x) \in Seq(Seq(Good)) /\ Len(Append(FirstItems(n), x)) = n + 1
        /\ \A i \in 1..n : Append(FirstItems(n), x)[i] = FirstItems(n)[i]
        /\ Append(FirstItems(n), x)[n + 1] = x
    <3> HIDE DEF x
    <3>1. QED
      BY ONLY <1>2, <1>3, AppendProperties
  <2>2. \A i \in 1..(n + 1) : FirstItems(n + 1)[i] = Bytes(Stream[i])
    BY DEF FirstItems
  <2>3. \A i \in 1..n : FirstItems(n)[i] = Bytes(Stream[i])
    BY DEF FirstItems
  <2>4. \A i \in 1..(n + 1) : i \in 1..n \/ i = n + 1
    OBVIOUS
  <2>5. \A i \in 1..(n + 1) : FirstItems(n + 1)[i] = Append(FirstItems(n), x)[i]
    BY <2>1, <2>2, <2>3, <2>4
  <2> HIDE DEF x
  <2>6. QED
    BY <1>2, <2>1, <2>5, SeqEqual
<1>5. FlattenSeq(Append(FirstItems(n), x)) = FlattenSeq(FirstItems(n)) \o x
  <2> HIDE DEF x
  <2>1. QED
    BY <1>2, <1>3, FlattenAppend
<1>6. Flat(n) \in Seq(Good)
  BY <1>2, FlattenType DEF Flat
<1>7. Len(Flat(n)) \in Nat /\ Len(x) \in Nat
  BY <1>3, <1>6, LenProperties
<1>8. QED
  BY <1>3, <1>4, <1>5, <1>6, <1>7 DEF Flat

LEMMA BytesLength ==
  ASSUME NEW i \in 1..Len(Stream)
  PROVE  /\ Stream[i] \in Items /\ Bytes(Stream[i]) \in Seq(Good) /\ Len(Stream[i].body) \in Nat
         /\ Len(Bytes(Stream[i])) = IF Stream[i].text THEN 2 ELSE 4 + Len(Stream[i].body)
         /\ Len(Bytes(Stream[i])) \in Nat /\ Len(Bytes(Stream[i])) >= 2
<1>1. Stream[i] \in Items
  BY StreamItems
<1>2. /\ Bytes(Stream[i]) \in Seq(Good) /\ Len(Stream[i].body) \in Nat
      /\ Stream[i].text => Bytes(Stream[i]) = <<Line("text", 0), Line("text", 0)>>
      /\ ~Stream[i].text => Len(Bytes(Stream[i])) = 4 + Len(Stream[i].body)
  BY <1>1, BytesOver, GoodByte
<1>3. Len(<<Line("text", 0), Line("text", 0)>>) = 2
  OBVIOUS
<1>4. CASE Stream[i].text
  <2>1. Len(Bytes(Stream[i])) = 2
    BY <1>2, <1>3, <1>4
  <2>2. QED
    BY <1>1, <1>2, <1>4, <2>1
<1>5. CASE ~Stream[i].text
  <2>1. Len(Bytes(Stream[i])) = 4 + Len(Stream[i].body)
    BY <1>2, <1>5
  <2>2. Len(Bytes(Stream[i])) \in Nat /\ Len(Bytes(Stream[i])) >= 2
    BY ONLY <1>2, <2>1
  <2>3. QED
    BY <1>1, <1>2, <1>5, <2>1, <2>2
<1>6. QED
  BY <1>4, <1>5

LEMMA OffsetNext ==
  /\ Offset[1] = 0 /\ Offset[Len(Stream) + 1] = Len(StreamBytes)
  /\ \A i \in 1..(Len(Stream) + 1) : Offset[i] = Len(Flat(i - 1)) /\ Offset[i] \in Nat
  /\ \A i \in 1..Len(Stream) : Offset[i + 1] = Offset[i] + Len(Bytes(Stream[i]))
<1>1. Len(Stream) \in Nat
  BY StreamItems
<1>2. ASSUME NEW i \in 1..(Len(Stream) + 1)
      PROVE  Offset[i] = Len(Flat(i - 1)) /\ Offset[i] \in Nat
  <2>1. i - 1 \in 0..Len(Stream)
    BY <1>1
  <2>2. FirstItems(i - 1) \in Seq(Seq(Good))
    BY <2>1, FirstItemsOver, GoodByte
  <2>3. Flat(i - 1) \in Seq(Good)
    BY <2>2, FlattenType DEF Flat
  <2>4. Offset[i] = Len(Flat(i - 1))
    BY DEF Offset, Flat, FirstItems
  <2>5. QED
    BY <2>3, <2>4, LenProperties
<1>3. ASSUME NEW i \in 1..Len(Stream)
      PROVE  Offset[i + 1] = Offset[i] + Len(Bytes(Stream[i]))
  <2>1. i - 1 \in Nat /\ i - 1 < Len(Stream) /\ (i - 1) + 1 = i /\ (i + 1) - 1 = i
        /\ i \in 1..(Len(Stream) + 1) /\ i + 1 \in 1..(Len(Stream) + 1)
    BY <1>1
  <2>2. /\ Flat(i - 1) \in Seq(Good) /\ Bytes(Stream[i]) \in Seq(Good)
        /\ Flat(i) = Flat(i - 1) \o Bytes(Stream[i])
    <3>1. /\ Flat(i - 1) \in Seq(Good) /\ Bytes(Stream[(i - 1) + 1]) \in Seq(Good)
          /\ Flat((i - 1) + 1) = Flat(i - 1) \o Bytes(Stream[(i - 1) + 1])
      BY <2>1, FlatNext
    <3>2. QED
      BY <2>1, <3>1
  <2>3. Len(Flat(i)) = Len(Flat(i - 1)) + Len(Bytes(Stream[i]))
    BY <2>2, Joined
  <2>4. Offset[i + 1] = Len(Flat((i + 1) - 1)) /\ Offset[i] = Len(Flat(i - 1))
    BY <1>2, <2>1
  <2>5. QED
    BY <2>1, <2>3, <2>4
<1>4. Offset[1] = 0
  <2>1. 1 \in 1..(Len(Stream) + 1) /\ 1 - 1 = 0 /\ 0 \in 0..Len(Stream)
    BY <1>1
  <2>2. FirstItems(0) = <<>>
    <3>1. FirstItems(0) \in Seq(Seq(Good)) /\ Len(FirstItems(0)) = 0
      BY <2>1, FirstItemsOver, GoodByte
    <3>2. QED
      BY ONLY <3>1, EmptySeq
  <2>3. QED
    BY <1>2, <2>1, <2>2, FlattenEmpty DEF Flat
<1>5. Offset[Len(Stream) + 1] = Len(StreamBytes)
  <2>1. Len(Stream) + 1 \in 1..(Len(Stream) + 1) /\ (Len(Stream) + 1) - 1 = Len(Stream)
    BY <1>1
  <2>2. QED
    BY <1>2, <2>1, StreamItems
<1>6. QED
  BY <1>2, <1>3, <1>4, <1>5

LEMMA OffsetsRise ==
  ASSUME NEW i \in 1..(Len(Stream) + 1), NEW j \in 1..(Len(Stream) + 1), i < j
  PROVE  Offset[i] < Offset[j] /\ Offset[i + 1] <= Offset[j]
<1>1. Len(Stream) \in Nat
  BY StreamItems
<1> DEFINE T == {d \in Nat : i + 1 + d <= Len(Stream) + 1 => Offset[i + 1] <= Offset[i + 1 + d]}
<1>2. i \in 1..Len(Stream) /\ i + 1 \in 1..(Len(Stream) + 1)
  BY <1>1
<1>3. 0 \in T
  <2>1. Offset[i + 1] \in Nat /\ i + 1 + 0 = i + 1
    BY <1>2, OffsetNext
  <2>2. QED
    BY <2>1
<1>4. ASSUME NEW d \in Nat, d \in T PROVE d + 1 \in T
  <2> SUFFICES ASSUME i + 1 + (d + 1) <= Len(Stream) + 1
               PROVE  Offset[i + 1] <= Offset[i + 1 + (d + 1)]
    OBVIOUS
  <2>1. /\ i + 1 + d \in 1..Len(Stream) /\ i + 1 + (d + 1) = (i + 1 + d) + 1
        /\ i + 1 + d <= Len(Stream) + 1 /\ i + 1 + d \in 1..(Len(Stream) + 1)
    BY <1>1, <1>2
  <2>2. Offset[i + 1] <= Offset[i + 1 + d]
    BY <1>4, <2>1
  <2> HIDE DEF T
  <2>3. Offset[(i + 1 + d) + 1] = Offset[i + 1 + d] + Len(Bytes(Stream[i + 1 + d]))
        /\ Len(Bytes(Stream[i + 1 + d])) \in Nat
        /\ Offset[i + 1] \in Nat /\ Offset[i + 1 + d] \in Nat
    BY <1>2, <2>1, OffsetNext, BytesLength
  <2>4. Offset[i + 1] <= Offset[(i + 1 + d) + 1]
    BY ONLY <2>2, <2>3
  <2>5. QED
    BY <2>1, <2>4
<1>5. Nat \subseteq T
  <2>1. T \subseteq Nat
    OBVIOUS
  <2> HIDE DEF T
  <2>2. QED
    BY <1>3, <1>4, <2>1, SetInduction
<1>6. Offset[i + 1] <= Offset[j]
  <2>1. j - (i + 1) \in Nat /\ i + 1 + (j - (i + 1)) = j /\ j <= Len(Stream) + 1
    BY <1>1
  <2>2. QED
    BY <1>5, <2>1
<1> HIDE DEF T
<1>7. Offset[i] \in Nat /\ Offset[i + 1] \in Nat /\ Offset[j] \in Nat /\ Offset[i] < Offset[i + 1]
  <2>1. Offset[i] \in Nat /\ Offset[i + 1] \in Nat /\ Offset[j] \in Nat
        /\ Offset[i + 1] = Offset[i] + Len(Bytes(Stream[i]))
        /\ Len(Bytes(Stream[i])) \in Nat /\ Len(Bytes(Stream[i])) >= 2
    BY <1>2, OffsetNext, BytesLength
  <2>2. QED
    BY ONLY <2>1
<1>8. QED
  BY ONLY <1>6, <1>7

(* Byte k of item i.                                                       *)
LEMMA ItemBytes ==
  ASSUME NEW i \in 1..Len(Stream), NEW k \in 1..Len(Bytes(Stream[i]))
  PROVE  StreamBytes[Offset[i] + k] = Bytes(Stream[i])[k]
<1>1. Len(Stream) \in Nat /\ i \in Nat /\ i - 1 \in Nat /\ i - 1 < Len(Stream)
      /\ (i - 1) + 1 = i /\ i \in 1..(Len(Stream) + 1)
  BY StreamItems
<1>2. /\ Flat(i - 1) \in Seq(Good) /\ Bytes(Stream[i]) \in Seq(Good)
      /\ Flat(i) = Flat(i - 1) \o Bytes(Stream[i]) /\ Len(Flat(i - 1)) = Offset[i]
      /\ Offset[i] \in Nat
  <2>1. /\ Flat(i - 1) \in Seq(Good) /\ Bytes(Stream[(i - 1) + 1]) \in Seq(Good)
        /\ Flat((i - 1) + 1) = Flat(i - 1) \o Bytes(Stream[(i - 1) + 1])
    BY <1>1, FlatNext
  <2>2. QED
    BY <1>1, <2>1, OffsetNext
<1>3. Flat(i)[Offset[i] + k] = Bytes(Stream[i])[k]
  BY SMTT(20), <1>2, Joined
<1> DEFINE T == {d \in Nat : i + d <= Len(Stream) =>
                    Flat(i + d)[Offset[i] + k] = Bytes(Stream[i])[k]}
<1>4. 0 \in T
  BY <1>1, <1>3
<1>5. ASSUME NEW d \in Nat, d \in T PROVE d + 1 \in T
  <2> SUFFICES ASSUME i + (d + 1) <= Len(Stream)
               PROVE  Flat(i + (d + 1))[Offset[i] + k] = Bytes(Stream[i])[k]
    OBVIOUS
  <2>1. /\ i + d \in Nat /\ i + d < Len(Stream) /\ i + d <= Len(Stream)
        /\ i + (d + 1) = (i + d) + 1 /\ (i + d + 1) - 1 = i + d /\ i + 1 <= i + d + 1
        /\ i + d + 1 \in 1..(Len(Stream) + 1) /\ i < i + d + 1
    BY <1>1
  <2>2. Flat(i + d)[Offset[i] + k] = Bytes(Stream[i])[k]
    BY <1>5, <2>1
  <2> HIDE DEF T
  <2>3. /\ Flat(i + d) \in Seq(Good) /\ Bytes(Stream[(i + d) + 1]) \in Seq(Good)
        /\ Flat((i + d) + 1) = Flat(i + d) \o Bytes(Stream[(i + d) + 1])
    BY <2>1, FlatNext
  <2>4. Offset[i] + k \in 1..Len(Flat(i + d))
    <3>1. Offset[i + 1] <= Offset[i + d + 1]
      BY <1>1, <2>1, OffsetsRise
    <3>2. Offset[i + 1] = Offset[i] + Len(Bytes(Stream[i])) /\ Offset[i + d + 1] = Len(Flat(i + d))
          /\ Len(Bytes(Stream[i])) \in Nat
      BY <1>1, <2>1, OffsetNext, BytesLength
    <3>3. Len(Flat(i + d)) \in Nat
      BY <2>3, LenProperties
    <3>4. k \in 1..Len(Bytes(Stream[i])) /\ Offset[i] \in Nat
      BY <1>2
    <3>5. QED
      BY ONLY <3>1, <3>2, <3>3, <3>4
  <2>5. (Flat(i + d) \o Bytes(Stream[(i + d) + 1]))[Offset[i] + k] = Flat(i + d)[Offset[i] + k]
    BY <2>3, <2>4, Joined
  <2>6. QED
    BY <2>1, <2>2, <2>3, <2>5
<1>6. Nat \subseteq T
  <2>1. T \subseteq Nat
    OBVIOUS
  <2> HIDE DEF T
  <2>2. QED
    BY <1>4, <1>5, <2>1, SetInduction
<1>7. Len(Stream) - i \in Nat /\ i + (Len(Stream) - i) = Len(Stream)
  BY <1>1
<1>8. Flat(i + (Len(Stream) - i))[Offset[i] + k] = Bytes(Stream[i])[k]
  <2>1. Len(Stream) - i \in T /\ i + (Len(Stream) - i) <= Len(Stream)
    <3> HIDE DEF T
    <3>1. QED
      BY <1>1, <1>6, <1>7
  <2>2. QED
    BY <2>1
<1>9. QED
  BY <1>7, <1>8, StreamItems

(* Every byte of the stream is one of an item.                             *)
LEMMA ItemOf ==
  ASSUME NEW p \in Nat, p < Len(StreamBytes)
  PROVE  \E i \in 1..Len(Stream) : Offset[i] <= p /\ p < Offset[i + 1]
<1> DEFINE T == {j \in 1..(Len(Stream) + 1) : p < Offset[j]}
<1>1. Len(Stream) \in Nat /\ Len(Stream) + 1 \in T
  BY StreamItems, OffsetNext
<1>2. PICK j \in T : \A y \in T : j <= y
  <2>1. T \subseteq Nat /\ T # {}
    BY <1>1
  <2> HIDE DEF T
  <2>2. QED
    BY <2>1, Least
<1>3. j # 1
  BY <1>2, OffsetNext
<1>4. j - 1 \in 1..Len(Stream) /\ (j - 1) + 1 = j /\ j - 1 \in 1..(Len(Stream) + 1) /\ ~(j <= j - 1)
  BY <1>1, <1>2, <1>3
<1>5. ~(p < Offset[j - 1]) /\ Offset[j - 1] \in Nat
  BY <1>2, <1>4, OffsetNext
<1>6. Offset[j - 1] <= p /\ p < Offset[(j - 1) + 1]
  BY <1>2, <1>4, <1>5
<1>7. QED
  BY <1>4, <1>6

(* The bodies of the packets of some channels.                             *)
LEMMA BodiesOf ==
  ASSUME NEW C
  PROVE  /\ Bodies(C)[0] = <<>>
         /\ \A i \in 0..Len(Stream) : Bodies(C)[i] \in Seq(Seq(Nat))
         /\ \A i \in 1..Len(Stream) :
              Bodies(C)[i] = IF Carried(i, C) THEN Append(Bodies(C)[i - 1], Stream[i].body)
                             ELSE Bodies(C)[i - 1]
<1> DEFINE n == Len(Stream)
           X == Seq(Seq(Nat))
           Is(g) == g = [i \in 0..n |-> IF i = 0 THEN <<>>
                                        ELSE IF Carried(i, C) THEN Append(g[i - 1], Stream[i].body)
                                        ELSE g[i - 1]]
           bodies == CHOOSE g : Is(g)
<1>1. n \in Nat /\ \A i \in 1..n : Stream[i].body \in Seq(Nat)
  BY StreamItems DEF Items
<1>2. Bodies(C) = bodies
  BY DEF Bodies
<1>3. \E g \in [0..n -> X] : Is(g)
  <2> DEFINE G == [p \in X \X (1..n) |-> IF Carried(p[2], C) THEN Append(p[1], Stream[p[2]].body)
                                         ELSE p[1]]
  <2>1. G \in [X \X (1..n) -> X]
    <3> SUFFICES ASSUME NEW p \in X \X (1..n)
                 PROVE  (IF Carried(p[2], C) THEN Append(p[1], Stream[p[2]].body) ELSE p[1]) \in X
      OBVIOUS
    <3>1. p[1] \in Seq(Seq(Nat)) /\ Stream[p[2]].body \in Seq(Nat)
      BY <1>1
    <3>2. Append(p[1], Stream[p[2]].body) \in Seq(Seq(Nat))
      BY ONLY <3>1, AppendProperties
    <3>3. QED
      BY <3>1, <3>2
  <2>2. \A b \in X, i \in 1..n :
           G[<<b, i>>] = IF Carried(i, C) THEN Append(b, Stream[i].body) ELSE b
    OBVIOUS
  <2>3. <<>> \in X
    OBVIOUS
  <2> HIDE DEF G, X
  <2>4. PICK f \in [0..n -> X] : Chain(f, <<>>, n, G)
    BY <1>1, <2>1, <2>3, ChainExists
  <2>5. f = [i \in 0..n |-> IF i = 0 THEN <<>> ELSE G[<<f[i - 1], i>>]]
    BY <2>4 DEF Chain
  <2>6. ASSUME NEW i \in 0..n
        PROVE  f[i] = IF i = 0 THEN <<>>
                      ELSE IF Carried(i, C) THEN Append(f[i - 1], Stream[i].body) ELSE f[i - 1]
    <3>1. f[i] = IF i = 0 THEN <<>> ELSE G[<<f[i - 1], i>>]
      BY <2>5
    <3>2. i # 0 => i \in 1..n /\ i - 1 \in 0..n
      BY <1>1
    <3>3. i # 0 => G[<<f[i - 1], i>>] = IF Carried(i, C) THEN Append(f[i - 1], Stream[i].body)
                                        ELSE f[i - 1]
      BY <2>2, <2>4, <3>2
    <3>4. QED
      BY <3>1, <3>3
  <2>7. Is(f)
    <3> HIDE DEF n
    <3>1. QED
      BY <2>4, <2>6
  <2>8. QED
    BY <2>4, <2>7
<1>4. Is(bodies)
  BY <1>3
<1>5. \A i \in 0..n : bodies[i] = IF i = 0 THEN <<>>
                      ELSE IF Carried(i, C) THEN Append(bodies[i - 1], Stream[i].body)
                      ELSE bodies[i - 1]
  BY <1>4
<1> HIDE DEF bodies
<1>6. bodies[0] = <<>>
  BY <1>1, <1>5
<1>7. ASSUME NEW i \in 1..n
      PROVE  bodies[i] = IF Carried(i, C) THEN Append(bodies[i - 1], Stream[i].body)
                         ELSE bodies[i - 1]
  <2>1. i \in 0..n /\ i # 0
    BY <1>1
  <2>2. QED
    BY <1>5, <2>1
<1> DEFINE T == {k \in Nat : k <= n => bodies[k] \in Seq(Seq(Nat))}
<1>8. 0 \in T
  <2>1. <<>> \in Seq(Seq(Nat))
    OBVIOUS
  <2>2. QED
    BY <1>6, <2>1
<1>9. ASSUME NEW k \in Nat, k \in T PROVE k + 1 \in T
  <2> SUFFICES ASSUME k + 1 <= n PROVE bodies[k + 1] \in Seq(Seq(Nat))
    OBVIOUS
  <2>1. k + 1 \in 1..n /\ (k + 1) - 1 = k /\ k <= n
    BY <1>1
  <2>2. bodies[k] \in Seq(Seq(Nat)) /\ Stream[k + 1].body \in Seq(Nat)
    BY <1>1, <1>9, <2>1
  <2>3. Append(bodies[k], Stream[k + 1].body) \in Seq(Seq(Nat))
    BY ONLY <2>2, AppendProperties
  <2> HIDE DEF T, n
  <2>4. QED
    BY <1>7, <2>1, <2>2, <2>3
<1>10. Nat \subseteq T
  <2>1. T \subseteq Nat
    OBVIOUS
  <2> HIDE DEF T
  <2>2. QED
    BY <1>8, <1>9, <2>1, SetInduction
<1>11. \A i \in 0..n : bodies[i] \in Seq(Seq(Nat))
  BY <1>1, <1>10
<1> HIDE DEF T
<1>12. QED
  BY <1>2, <1>6, <1>7, <1>11

(* There are none before the first that is carried.                        *)
LEMMA NoBodies ==
  ASSUME NEW C, NEW m \in 0..Len(Stream), \A i \in 1..m : ~Carried(i, C)
  PROVE  Bodies(C)[m] = <<>>
<1> DEFINE T == {k \in Nat : k <= m => Bodies(C)[k] = <<>>}
<1>1. Len(Stream) \in Nat /\ m \in Nat
  BY StreamItems
<1>2. 0 \in T
  BY BodiesOf
<1>3. ASSUME NEW k \in Nat, k \in T PROVE k + 1 \in T
  <2> SUFFICES ASSUME k + 1 <= m PROVE Bodies(C)[k + 1] = <<>>
    OBVIOUS
  <2>1. k + 1 \in 1..m /\ k + 1 \in 1..Len(Stream) /\ (k + 1) - 1 = k /\ k <= m
    BY <1>1
  <2>2. Bodies(C)[k] = <<>>
    BY <1>3, <2>1
  <2> HIDE DEF T
  <2>3. QED
    BY <2>1, <2>2, BodiesOf
<1>4. m \in T
  <2>1. T \subseteq Nat
    OBVIOUS
  <2> HIDE DEF T
  <2>2. QED
    BY <1>1, <1>2, <1>3, <2>1, SetInduction
<1>5. QED
  BY <1>1, <1>4

(* The last of them is that of the last packet of video, for all packets   *)
(* behind one that is carried are carried.                                 *)
LastVideo(m) ==
  LET v == Bodies({VideoChannel})[m]
  IN  v # <<>> => \E i \in 1..m : /\ Video(i) /\ Offset[i] >= dropped /\ v[Len(v)] = Stream[i].body
                                  /\ \A k \in (i + 1)..m : ~Video(k)

LEMMA VideoBefore ==
  ASSUME NEW m \in 0..Len(Stream), dropped \in Nat
  PROVE  LastVideo(m)
<1> DEFINE T == {k \in Nat : k <= m => LastVideo(k)}
           VideoOnly == {VideoChannel}
<1>1. Len(Stream) \in Nat /\ m \in Nat /\ m <= Len(Stream)
  BY StreamItems
<1>2. 0 \in T
  BY BodiesOf DEF LastVideo
<1>3. ASSUME NEW k \in Nat, k \in T PROVE k + 1 \in T
  <2> SUFFICES ASSUME k + 1 <= m PROVE LastVideo(k + 1)
    OBVIOUS
  <2> DEFINE v == Bodies(VideoOnly)[k]
             w == Bodies(VideoOnly)[k + 1]
  <2>1. /\ k + 1 \in 1..(k + 1) /\ k + 1 \in 1..Len(Stream) /\ (k + 1) - 1 = k /\ k <= m
        /\ k \in 0..Len(Stream) /\ \A i \in 1..k : i \in 1..(k + 1) /\ i < k + 1
        /\ k + 1 \in 1..(Len(Stream) + 1) /\ \A i \in 1..k : i \in 1..(Len(Stream) + 1)
    BY <1>1
  <2>2. LastVideo(k)
    BY <1>3, <2>1
  <2> HIDE DEF T
  <2>3. /\ v \in Seq(Seq(Nat)) /\ Stream[k + 1].body \in Seq(Nat)
        /\ w = IF Carried(k + 1, VideoOnly) THEN Append(v, Stream[k + 1].body) ELSE v
    BY <2>1, BodiesOf, StreamItems DEF Items
  <2> HIDE DEF v, w
  <2>4. CASE Carried(k + 1, VideoOnly)
    <3>1. w = Append(v, Stream[k + 1].body)
      BY <2>3, <2>4
    <3>2. w[Len(w)] = Stream[k + 1].body
      BY ONLY <2>3, <3>1, AppendProperties, LenProperties
    <3>3. Video(k + 1) /\ Offset[k + 1] >= dropped
      BY <2>4 DEF Carried, Video
    <3>4. ((k + 1) + 1)..(k + 1) = {}
      OBVIOUS
    <3>5. \E i \in 1..(k + 1) : /\ Video(i) /\ Offset[i] >= dropped /\ w[Len(w)] = Stream[i].body
                                /\ \A j \in (i + 1)..(k + 1) : ~Video(j)
      BY <2>1, <3>2, <3>3, <3>4
    <3>6. QED
      BY <3>5 DEF LastVideo, w
  <2>5. CASE ~Carried(k + 1, VideoOnly) /\ v # <<>>
    <3>1. PICK i \in 1..k : /\ Video(i) /\ Offset[i] >= dropped /\ v[Len(v)] = Stream[i].body
                            /\ \A j \in (i + 1)..k : ~Video(j)
      BY <2>2, <2>5 DEF LastVideo, v
    <3>2. Offset[k + 1] >= dropped
      <4>1. Offset[i] < Offset[k + 1] /\ Offset[i] \in Nat /\ Offset[k + 1] \in Nat
        BY <2>1, OffsetsRise, OffsetNext
      <4>2. QED
        BY <3>1, <4>1
    <3>3. ~Video(k + 1)
      BY <2>5, <3>2 DEF Carried, Video
    <3>4. \A j \in (i + 1)..(k + 1) : j \in (i + 1)..k \/ j = k + 1
      OBVIOUS
    <3>5. i \in 1..(k + 1) /\ w = v /\ \A j \in (i + 1)..(k + 1) : ~Video(j)
      BY <2>1, <2>3, <2>5, <3>1, <3>3, <3>4
    <3>6. QED
      BY <3>1, <3>5 DEF LastVideo, w
  <2>6. CASE ~Carried(k + 1, VideoOnly) /\ v = <<>>
    <3>1. w = <<>>
      BY <2>3, <2>6
    <3>2. QED
      BY <3>1 DEF LastVideo, w
  <2>7. QED
    BY <2>4, <2>5, <2>6
<1>4. m \in T
  <2>1. T \subseteq Nat
    OBVIOUS
  <2> HIDE DEF T
  <2>2. QED
    BY <1>1, <1>2, <1>3, <2>1, SetInduction
<1>5. QED
  BY <1>1, <1>4

(* So the fragments of a unit stay together in what is carried.            *)
LEMMA Together ==
  ASSUME FragmentsTogether, dropped \in Nat, NEW i \in 1..Len(Stream), Carried(i, {VideoChannel}),
         NEW v, v = Bodies({VideoChannel})[i - 1], NEW x, x = Stream[i].body
  PROVE  /\ x # <<>>
         /\ v # <<>> /\ v[Len(v)][1] \in {Start, Middle} => x[1] \in {Middle, End}
<1>1. Video(i) /\ DOMAIN Stream = 1..Len(Stream) /\ Len(Stream) \in Nat
  BY StreamItems DEF Carried, Video
<1>2. x # <<>>
  BY <1>1 DEF FragmentsTogether
<1>3. ASSUME v # <<>>, v[Len(v)][1] \in {Start, Middle}
      PROVE  x[1] \in {Middle, End}
  <2>1. i - 1 \in 0..Len(Stream)
    BY <1>1
  <2>2. PICK j \in 1..(i - 1) : /\ Video(j) /\ v[Len(v)] = Stream[j].body
                                /\ \A k \in (j + 1)..(i - 1) : ~Video(k)
    BY <1>3, <2>1, VideoBefore DEF LastVideo
  <2>3. j \in 1..Len(Stream) /\ j < i
    BY <1>1
  <2>4. QED
    BY <1>1, <1>3, <2>2, <2>3 DEF FragmentsTogether
<1>4. QED
  BY <1>2, <1>3

-----------------------------------------------------------------------------
(***************************************************************************)
(* The units in a sequence of bodies, when one more body comes.            *)
(***************************************************************************)
SpsIn(v) == {k \in 1..Len(v) : v[k][1] = Sps}
UnitPieces(v, s) == [k \in 1..(Len(v) - s + 1) |-> UnitAt(v, s + k - 1)]

LEMMA UnitsFrom ==
  ASSUME NEW v
  PROVE  UnitsOf(v) = IF SpsIn(v) = {} THEN <<>> ELSE FlattenSeq(UnitPieces(v, Min(SpsIn(v))))
<1> DEFINE sps == SelectInSeq(v, LAMBDA body : body[1] = Sps)
<1>1. sps = IF SpsIn(v) # {} THEN Min(SpsIn(v)) ELSE 0
  BY DEF SelectInSeq, SpsIn
<1>2. UnitsOf(v) = IF sps = 0 THEN <<>> ELSE FlattenSeq(UnitPieces(v, sps))
  BY DEF UnitsOf, UnitPieces
<1> HIDE DEF sps
<1>3. SpsIn(v) # {} => Min(SpsIn(v)) # 0
  <2>1. SpsIn(v) \subseteq Nat /\ 0 \notin SpsIn(v)
    BY DEF SpsIn
  <2>2. QED
    BY <2>1, FirstOf
<1>4. QED
  BY <1>1, <1>2, <1>3

LEMMA FunctionSeq ==
  ASSUME NEW S, NEW n \in Nat, NEW f \in [1..n -> S]
  PROVE  f \in Seq(S) /\ Len(f) = n
<1>1. f \in Seq(S)
  BY SeqDef
<1>2. Len(f) \in Nat /\ DOMAIN f = 1..Len(f)
  BY <1>1, LenProperties
<1>3. 1..n = 1..Len(f)
  BY <1>2
<1>4. Len(f) = n
  BY ONLY n \in Nat, <1>2, <1>3
<1>5. QED
  BY <1>1, <1>4

LEMMA SubSeqKept ==
  ASSUME NEW S, NEW v \in Seq(S), NEW x \in S, NEW s \in Nat \ {0}, NEW k \in Nat, k <= Len(v)
  PROVE  SubSeq(Append(v, x), s, k) = SubSeq(v, s, k) /\ SubSeq(v, s, k) \in Seq(S)
<1>1. /\ Len(v) \in Nat /\ Append(v, x) \in Seq(S) /\ Len(Append(v, x)) = Len(v) + 1
      /\ \A i \in 1..Len(v) : Append(v, x)[i] = v[i] /\ v[i] \in S
  BY AppendProperties, LenProperties, ElementOfSeq
<1> DEFINE w == Append(v, x)
<1>2. /\ s \in Int /\ k \in Int
      /\ \A i \in s..k : i \in 1..Len(v)
  BY <1>1
<1>3. /\ \A i \in s..k : v[i] \in S
      /\ \A i \in s..k : w[i] = v[i]
      /\ \A i \in s..k : w[i] \in S
  BY <1>1, <1>2
<1> HIDE DEF w
<1>4. /\ SubSeq(v, s, k) \in Seq(S)
      /\ Len(SubSeq(v, s, k)) = IF s <= k THEN k - s + 1 ELSE 0
      /\ \A i \in 1..(k - s + 1) : SubSeq(v, s, k)[i] = v[s + i - 1]
  BY ONLY <1>2, <1>3, SubSeqProperties
<1>5. /\ SubSeq(w, s, k) \in Seq(S)
      /\ Len(SubSeq(w, s, k)) = IF s <= k THEN k - s + 1 ELSE 0
      /\ \A i \in 1..(k - s + 1) : SubSeq(w, s, k)[i] = w[s + i - 1]
  BY ONLY <1>2, <1>3, SubSeqProperties
<1>6. \A i \in 1..Len(SubSeq(v, s, k)) : i \in 1..(k - s + 1) /\ s + i - 1 \in s..k
  BY ONLY <1>2, <1>4
<1>7. \A i \in 1..Len(SubSeq(v, s, k)) : SubSeq(w, s, k)[i] = SubSeq(v, s, k)[i]
  BY ONLY <1>3, <1>4, <1>5, <1>6
<1>8. Len(SubSeq(w, s, k)) = Len(SubSeq(v, s, k))
  BY <1>4, <1>5
<1>9. SubSeq(w, s, k) = SubSeq(v, s, k)
  BY ONLY <1>4, <1>5, <1>7, <1>8, SeqEqual
<1>10. QED
  BY <1>4, <1>9 DEF w

LEMMA UnitAtKept ==
  ASSUME NEW v \in Seq(Seq(Nat)), NEW x \in Seq(Nat), NEW k \in 1..Len(v)
  PROVE  UnitAt(Append(v, x), k) = UnitAt(v, k)
<1> DEFINE w == Append(v, x)
<1>1. /\ Len(v) \in Nat /\ k \in Nat /\ k <= Len(v) /\ \A i \in 1..k : w[i] = v[i]
  <2>1. Len(v) \in Nat /\ \A i \in 1..Len(v) : w[i] = v[i]
    BY AppendProperties, LenProperties
  <2>2. QED
    BY <2>1
<1>2. \A s \in 1..k : SubSeq(w, s, k) = SubSeq(v, s, k)
  <2> SUFFICES ASSUME NEW s \in 1..k PROVE SubSeq(w, s, k) = SubSeq(v, s, k)
    OBVIOUS
  <2>1. s \in Nat \ {0} /\ k \in Nat /\ k <= Len(v) /\ v \in Seq(Seq(Nat)) /\ x \in Seq(Nat)
    BY <1>1
  <2>2. QED
    BY ONLY <2>1, SubSeqKept
<1> HIDE DEF w
<1>3. Starts(w, k) = Starts(v, k)
  <2>1. \A s \in 1..k : \A j \in (s + 1)..(k - 1) : j \in 1..k
    BY <1>1
  <2>2. QED
    BY <1>1, <2>1 DEF Starts
<1>4. w[k] = v[k]
  BY <1>1
<1>5. Starts(v, k) # {} => (CHOOSE s \in Starts(v, k) : TRUE) \in 1..k
  BY DEF Starts
<1>6. Starts(v, k) # {} => SubSeq(w, CHOOSE s \in Starts(v, k) : TRUE, k)
                           = SubSeq(v, CHOOSE s \in Starts(v, k) : TRUE, k)
  BY <1>2, <1>5
<1>7. UnitAt(w, k) = UnitAt(v, k)
  BY <1>3, <1>4, <1>6 DEF UnitAt, Sps, Slice, End
<1>8. QED
  BY <1>7 DEF w

LEMMA UnitAtType ==
  ASSUME NEW v \in Seq(Seq(Nat)), NEW k \in 1..Len(v)
  PROVE  UnitAt(v, k) \in Seq(Seq(Nat))
<1>1. Len(v) \in Nat /\ k \in Nat /\ k <= Len(v) /\ v[k] \in Seq(Nat) /\ k \in Int
  BY LenProperties, ElementOfSeq
<1>2. CASE v[k][1] \in {Sps, Slice}
  <2>1. UnitAt(v, k) = <<v[k]>>
    BY <1>2 DEF UnitAt, Sps, Slice, End
  <2>2. QED
    BY <1>1, <2>1
<1>3. CASE v[k][1] = End /\ Starts(v, k) # {}
  <2> DEFINE s == CHOOSE s \in Starts(v, k) : TRUE
             u == FlattenSeq(SubSeq(v, s, k))
  <2>1. UnitAt(v, k) = <<u>>
    BY <1>3 DEF UnitAt, Sps, Slice, End
  <2>2. s \in 1..k
    BY <1>3 DEF Starts
  <2> HIDE DEF s
  <2>3. SubSeq(v, s, k) \in Seq(Seq(Nat))
    <3>1. s \in Int /\ k \in Int /\ \A i \in s..k : i \in 1..Len(v)
      BY <1>1, <2>2
    <3>2. \A i \in s..k : v[i] \in Seq(Nat)
      BY <3>1, ElementOfSeq
    <3>3. QED
      BY ONLY <3>1, <3>2, SubSeqProperties
  <2>4. u \in Seq(Nat)
    BY <2>3, FlattenType
  <2> HIDE DEF u
  <2>5. QED
    BY <2>1, <2>4
<1>4. CASE v[k][1] \notin {Sps, Slice} /\ ~(v[k][1] = End /\ Starts(v, k) # {})
  <2>1. UnitAt(v, k) = <<>>
    BY <1>4 DEF UnitAt, Sps, Slice, End
  <2>2. QED
    BY <2>1
<1>5. QED
  BY <1>2, <1>3, <1>4

LEMMA SpsAppend ==
  ASSUME NEW v \in Seq(Seq(Nat)), NEW x \in Seq(Nat)
  PROVE  SpsIn(Append(v, x)) = SpsIn(v) \cup (IF x[1] = Sps THEN {Len(v) + 1} ELSE {})
<1>1. /\ Len(v) \in Nat /\ Len(Append(v, x)) = Len(v) + 1 /\ Append(v, x)[Len(v) + 1] = x
      /\ \A i \in 1..Len(v) : Append(v, x)[i] = v[i]
  BY AppendProperties, LenProperties
<1>2. 1..(Len(v) + 1) = 1..Len(v) \cup {Len(v) + 1} /\ Len(v) + 1 \notin 1..Len(v)
  BY <1>1
<1>3. QED
  BY <1>1, <1>2 DEF SpsIn

LEMMA PiecesAppend ==
  ASSUME NEW v \in Seq(Seq(Nat)), NEW x \in Seq(Nat), NEW s \in 1..(Len(v) + 1)
  PROVE  /\ UnitPieces(v, s) \in Seq(Seq(Seq(Nat)))
         /\ UnitAt(Append(v, x), Len(v) + 1) \in Seq(Seq(Nat))
         /\ UnitPieces(Append(v, x), s) = Append(UnitPieces(v, s), UnitAt(Append(v, x), Len(v) + 1))
<1> DEFINE w == Append(v, x)
           n == Len(v) - s + 1
           u == UnitAt(w, Len(v) + 1)
<1>1. w \in Seq(Seq(Nat)) /\ Len(v) \in Nat /\ Len(w) = Len(v) + 1 /\ n \in Nat
  BY AppendProperties, LenProperties
<1>2. Len(w) - s + 1 = n + 1 /\ s + (n + 1) - 1 = Len(v) + 1 /\ Len(v) + 1 \in 1..Len(w)
      /\ \A k \in 1..n : s + k - 1 \in 1..Len(v)
  BY <1>1
<1>3. u \in Seq(Seq(Nat))
  <2> HIDE DEF w
  <2>1. QED
    BY <1>1, <1>2, UnitAtType
<1>4. \A k \in 1..n : UnitAt(w, s + k - 1) = UnitAt(v, s + k - 1)
                      /\ UnitAt(v, s + k - 1) \in Seq(Seq(Nat))
  BY <1>2, UnitAtKept, UnitAtType
<1> HIDE DEF w
<1>5. UnitPieces(v, s) \in [1..n -> Seq(Seq(Nat))]
  BY <1>4 DEF UnitPieces
<1>6. UnitPieces(w, s) = [k \in 1..(n + 1) |-> UnitAt(w, s + k - 1)]
  BY <1>2 DEF UnitPieces
<1> HIDE DEF n, u
<1>7. /\ UnitPieces(v, s) \in Seq(Seq(Seq(Nat))) /\ Len(UnitPieces(v, s)) = n
  BY <1>1, <1>5, FunctionSeq
<1>8. \A k \in 1..(n + 1) : UnitPieces(w, s)[k] = IF k = n + 1 THEN u ELSE UnitPieces(v, s)[k]
  <2> SUFFICES ASSUME NEW k \in 1..(n + 1)
               PROVE  UnitPieces(w, s)[k] = IF k = n + 1 THEN u ELSE UnitPieces(v, s)[k]
    OBVIOUS
  <2>1. UnitPieces(w, s)[k] = UnitAt(w, s + k - 1)
    BY <1>6
  <2>2. k = n + 1 => UnitAt(w, s + k - 1) = u
    BY <1>2 DEF u
  <2>3. k # n + 1 => k \in 1..n
    BY <1>1
  <2>4. k # n + 1 => UnitPieces(v, s)[k] = UnitAt(v, s + k - 1)
    BY <2>3 DEF UnitPieces, n
  <2>5. QED
    BY <1>4, <2>1, <2>2, <2>3, <2>4
<1>9. /\ Append(UnitPieces(v, s), u) \in Seq(Seq(Seq(Nat)))
      /\ Len(Append(UnitPieces(v, s), u)) = n + 1
      /\ \A k \in 1..n : Append(UnitPieces(v, s), u)[k] = UnitPieces(v, s)[k]
      /\ Append(UnitPieces(v, s), u)[n + 1] = u
  BY <1>3, <1>7, AppendProperties
<1>10. UnitPieces(w, s) \in Seq(Seq(Seq(Nat))) /\ Len(UnitPieces(w, s)) = n + 1
  <2>1. \A k \in 1..(n + 1) : k # n + 1 => k \in 1..n
    BY <1>1
  <2>2. UnitPieces(w, s) \in [1..(n + 1) -> Seq(Seq(Nat))]
    <3>1. \A k \in 1..(n + 1) : UnitPieces(w, s)[k] \in Seq(Seq(Nat))
      BY <1>3, <1>5, <1>8, <2>1
    <3>2. QED
      BY <1>6, <3>1
  <2>3. n + 1 \in Nat
    BY <1>1
  <2>4. QED
    BY <2>2, <2>3, FunctionSeq
<1>11. UnitPieces(w, s) = Append(UnitPieces(v, s), u)
  <2>1. \A k \in 1..(n + 1) : k = n + 1 \/ (k # n + 1 /\ k \in 1..n)
    BY <1>1
  <2>2. \A k \in 1..(n + 1) : UnitPieces(w, s)[k] = Append(UnitPieces(v, s), u)[k]
    BY <1>8, <1>9, <2>1
  <2>3. QED
    BY ONLY <1>9, <1>10, <2>2, SeqEqual
<1>12. QED
  BY <1>3, <1>7, <1>11 DEF u, w

LEMMA UnitsAppend ==
  ASSUME NEW v \in Seq(Seq(Nat)), NEW x \in Seq(Nat)
  PROVE  /\ UnitAt(Append(v, x), Len(v) + 1) \in Seq(Seq(Nat)) /\ UnitsOf(v) \in Seq(Seq(Nat))
         /\ SpsIn(v) = {} => UnitsOf(v) = <<>>
         /\ UnitsOf(Append(v, x)) =
              IF SpsIn(v) # {} \/ x[1] = Sps
              THEN UnitsOf(v) \o UnitAt(Append(v, x), Len(v) + 1)
              ELSE <<>>
<1> DEFINE w == Append(v, x)
           u == UnitAt(w, Len(v) + 1)
<1>1. Len(v) \in Nat /\ w \in Seq(Seq(Nat))
      /\ SpsIn(w) = SpsIn(v) \cup (IF x[1] = Sps THEN {Len(v) + 1} ELSE {})
      /\ SpsIn(v) \subseteq 1..Len(v)
  BY LenProperties, AppendProperties, SpsAppend DEF SpsIn
<1>2. u \in Seq(Seq(Nat))
  <2>1. Len(v) + 1 \in 1..(Len(v) + 1)
    BY <1>1
  <2>2. QED
    BY <2>1, PiecesAppend
<1>3. /\ UnitsOf(v) = IF SpsIn(v) = {} THEN <<>> ELSE FlattenSeq(UnitPieces(v, Min(SpsIn(v))))
      /\ UnitsOf(w) = IF SpsIn(w) = {} THEN <<>> ELSE FlattenSeq(UnitPieces(w, Min(SpsIn(w))))
  BY UnitsFrom
<1>4. CASE SpsIn(v) # {}
  <2> DEFINE s == Min(SpsIn(v))
  <2>1. s \in 1..Len(v) /\ \A i \in SpsIn(v) : s <= i
    <3>1. SpsIn(v) \subseteq Nat
      BY <1>1
    <3>2. QED
      BY <1>1, <1>4, <3>1, FirstOf
  <2>2. Min(SpsIn(w)) = s
    <3>1. SpsIn(w) \subseteq Nat /\ SpsIn(w) # {} /\ s \in SpsIn(w)
      <4>1. SpsIn(v) \subseteq Nat /\ Len(v) + 1 \in Nat
        BY <1>1
      <4>2. s \in SpsIn(v)
        BY <1>4, <4>1, FirstOf
      <4>3. QED
        BY <1>1, <4>1, <4>2
    <3>2. Min(SpsIn(w)) \in SpsIn(w) /\ Min(SpsIn(w)) <= s
      BY <3>1, FirstOf
    <3> HIDE DEF s, w
    <3>3. Min(SpsIn(w)) \in SpsIn(v) \/ Min(SpsIn(w)) = Len(v) + 1
      BY <1>1, <3>2
    <3>4. Min(SpsIn(w)) # Len(v) + 1
      BY <1>1, <2>1, <3>2
    <3>5. s <= Min(SpsIn(w)) /\ Min(SpsIn(w)) \in Nat
      BY <2>1, <3>1, <3>2, <3>3, <3>4
    <3>6. QED
      BY <2>1, <3>2, <3>5
  <2>3. s \in 1..(Len(v) + 1)
    BY <1>1, <2>1
  <2> HIDE DEF s
  <2>4. UnitPieces(v, s) \in Seq(Seq(Seq(Nat))) /\ UnitPieces(w, s) = Append(UnitPieces(v, s), u)
    BY <2>3, PiecesAppend
  <2> HIDE DEF w, u
  <2>5. FlattenSeq(Append(UnitPieces(v, s), u)) = FlattenSeq(UnitPieces(v, s)) \o u
        /\ FlattenSeq(UnitPieces(v, s)) \in Seq(Seq(Nat))
    BY <1>2, <2>4, FlattenAppend, FlattenType
  <2>6. SpsIn(w) # {}
    BY <1>1, <1>4
  <2>7. UnitsOf(v) = FlattenSeq(UnitPieces(v, s)) /\ UnitsOf(w) = FlattenSeq(UnitPieces(w, s))
    BY <1>3, <1>4, <2>2, <2>6 DEF s
  <2>8. QED
    BY <1>2, <1>4, <2>4, <2>5, <2>7 DEF w, u
<1>5. CASE SpsIn(v) = {} /\ x[1] = Sps
  <2> DEFINE n == Len(v) + 1
  <2>1. SpsIn(w) = {n} /\ n \in 1..n /\ n \in Nat
    BY <1>1, <1>5
  <2>2. Min(SpsIn(w)) = n
    <3>1. SpsIn(w) \subseteq Nat /\ SpsIn(w) # {}
      BY <2>1
    <3>2. Min(SpsIn(w)) \in SpsIn(w)
      BY <3>1, FirstOf
    <3>3. QED
      BY <2>1, <3>2
  <2>3. UnitPieces(v, n) \in Seq(Seq(Seq(Nat))) /\ UnitPieces(w, n) = Append(UnitPieces(v, n), u)
    BY <2>1, PiecesAppend
  <2>4. UnitPieces(v, n) = <<>>
    <3>1. 1..(Len(v) - n + 1) = {}
      BY <1>1
    <3>2. UnitPieces(v, n) = [k \in {} |-> UnitAt(v, n + k - 1)]
      BY <3>1 DEF UnitPieces
    <3>3. QED
      BY <3>2
  <2> HIDE DEF w, u, n
  <2>5. FlattenSeq(Append(<<>>, u)) = FlattenSeq(<<>>) \o u
    <3>1. <<>> \in Seq(Seq(Seq(Nat)))
      OBVIOUS
    <3>2. QED
      BY <1>2, <3>1, FlattenAppend
  <2>6. UnitsOf(v) = <<>> /\ UnitsOf(w) = FlattenSeq(UnitPieces(w, n))
    BY <1>3, <1>5, <2>1, <2>2
  <2>7. <<>> \in Seq(Seq(Nat))
    OBVIOUS
  <2>8. QED
    BY <1>2, <1>5, <2>3, <2>4, <2>5, <2>6, <2>7, FlattenEmpty DEF w, u
<1>6. CASE SpsIn(v) = {} /\ x[1] # Sps
  <2>1. SpsIn(w) = {}
    BY <1>1, <1>6
  <2>2. <<>> \in Seq(Seq(Nat))
    OBVIOUS
  <2>3. QED
    BY <1>2, <1>3, <1>6, <2>1, <2>2
<1>7. QED
  BY <1>4, <1>5, <1>6

-----------------------------------------------------------------------------
(***************************************************************************)
(* The depacketiser: after the bodies v it has given the units of v, and   *)
(* holds the fragments since the last start, if v ends in a unit that is   *)
(* not complete.                                                           *)
(***************************************************************************)
Opened(v, s) == v[s][1] = Start /\ \A j \in (s + 1)..Len(v) : v[j][1] = Middle

Depacketised(r, v) ==
  /\ r.ready = (SpsIn(v) # {})
  /\ r.units = UnitsOf(v)
  /\ \A s \in 1..Len(v) : Opened(v, s) => /\ r.started /\ r.nal = FlattenSeq(SubSeq(v, s, Len(v)))
                                          /\ r.nal # <<>> /\ r.nal[1] = Start
  /\ (\A s \in 1..Len(v) : ~Opened(v, s)) => ~r.started /\ r.nal = <<>>

LEMMA AppendIs ==
  ASSUME NEW S, NEW v \in Seq(S), NEW x \in S
  PROVE  Append(v, x) = v \o <<x>>
<1>1. <<x>> \in Seq(S) /\ Len(<<x>>) = 1 /\ <<x>>[1] = x
  OBVIOUS
<1>2. /\ Append(v, x) \in Seq(S) /\ Len(Append(v, x)) = Len(v) + 1 /\ Len(v) \in Nat
      /\ \A i \in 1..Len(v) : Append(v, x)[i] = v[i]
      /\ Append(v, x)[Len(v) + 1] = x
  BY AppendProperties, LenProperties
<1> DEFINE o == <<x>>
<1>3. o \in Seq(S) /\ Len(o) = 1 /\ o[1] = x
  BY <1>1
<1> HIDE DEF o
<1>4. /\ v \o o \in Seq(S) /\ Len(v \o o) = Len(v) + Len(o)
      /\ \A i \in 1..Len(v) : (v \o o)[i] = v[i]
      /\ \A i \in 1..Len(o) : (v \o o)[Len(v) + i] = o[i]
  <2>1. o \in Seq(S)
    BY <1>3
  <2>2. QED
    BY ONLY v \in Seq(S), <2>1, Joined
<1>5. Len(v \o o) = Len(v) + 1 /\ (v \o o)[Len(v) + 1] = x
  BY <1>2, <1>3, <1>4
<1>6. \A i \in 1..(Len(v) + 1) : i \in 1..Len(v) \/ i = Len(v) + 1
  BY <1>2
<1>7. \A i \in 1..(Len(v) + 1) : Append(v, x)[i] = (v \o o)[i]
  BY <1>2, <1>4, <1>5, <1>6
<1>8. Append(v, x) = v \o o
  BY <1>2, <1>4, <1>5, <1>7, SeqEqual
<1>9. QED
  BY <1>8 DEF o

LEMMA UnitKept ==
  ASSUME NEW v \in Seq(Seq(Nat)), NEW x \in Seq(Nat), x[1] # Sps,
         UnitAt(Append(v, x), Len(v) + 1) = <<>>
  PROVE  UnitsOf(Append(v, x)) = UnitsOf(v) /\ (SpsIn(Append(v, x)) # {}) = (SpsIn(v) # {})
<1>1. SpsIn(Append(v, x)) = SpsIn(v)
  BY SpsAppend
<1>2. /\ UnitsOf(v) \in Seq(Seq(Nat)) /\ (SpsIn(v) = {} => UnitsOf(v) = <<>>)
      /\ UnitsOf(Append(v, x)) = IF SpsIn(v) # {} THEN UnitsOf(v) \o <<>> ELSE <<>>
  BY UnitsAppend
<1>3. UnitsOf(v) \o <<>> = UnitsOf(v)
  BY <1>2, ConcatEmptySeq
<1>4. QED
  BY <1>1, <1>2, <1>3

LEMMA UnitGiven ==
  ASSUME NEW v \in Seq(Seq(Nat)), NEW x \in Seq(Nat), NEW u \in Seq(Nat),
         UnitAt(Append(v, x), Len(v) + 1) = <<u>>, u[1] = Sps <=> x[1] = Sps,
         NEW q \in RxType, q.ready = (SpsIn(v) # {}), q.units = UnitsOf(v)
  PROVE  /\ Give(q, u).ready = (SpsIn(Append(v, x)) # {})
         /\ Give(q, u).units = UnitsOf(Append(v, x))
         /\ Give(q, u).started = q.started /\ Give(q, u).nal = q.nal
<1> DEFINE begun == q.ready \/ u[1] = Sps
           units == IF begun THEN Append(q.units, u) ELSE q.units
<1>1. Give(q, u) = [q EXCEPT !.ready = begun, !.units = units]
  BY DEF Give
<1>2. begun = (SpsIn(Append(v, x)) # {})
  <2>1. SpsIn(Append(v, x)) = SpsIn(v) \cup (IF x[1] = Sps THEN {Len(v) + 1} ELSE {})
    BY SpsAppend
  <2>2. QED
    BY <2>1
<1>3. units = UnitsOf(Append(v, x))
  <2>1. /\ UnitsOf(v) \in Seq(Seq(Nat)) /\ (SpsIn(v) = {} => UnitsOf(v) = <<>>)
        /\ UnitsOf(Append(v, x)) = IF SpsIn(v) # {} \/ x[1] = Sps THEN UnitsOf(v) \o <<u>> ELSE <<>>
    BY UnitsAppend
  <2>2. Append(UnitsOf(v), u) = UnitsOf(v) \o <<u>>
    BY <2>1, AppendIs
  <2>3. QED
    BY <2>1, <2>2
<1> HIDE DEF begun, units
<1>4. /\ Give(q, u).ready = begun /\ Give(q, u).units = units
      /\ Give(q, u).started = q.started /\ Give(q, u).nal = q.nal
  BY <1>1 DEF RxType
<1>5. QED
  BY <1>2, <1>3, <1>4

LEMMA DepacketisedNext ==
  ASSUME NEW r \in RxType, NEW v \in Seq(Seq(Nat)), NEW x \in Seq(Nat), x # <<>>,
         v # <<>> /\ v[Len(v)][1] \in {Start, Middle} => x[1] \in {Middle, End},
         Depacketised(r, v)
  PROVE  Depacketised(Depacketise(r, x), Append(v, x))
<1> DEFINE w == Append(v, x)
           n == Len(v)
           d == Depacketise(r, x)
<1>1. /\ n \in Nat /\ w \in Seq(Seq(Nat)) /\ Len(w) = n + 1 /\ w[n + 1] = x
      /\ \A i \in 1..n : w[i] = v[i]
      /\ n + 1 \in 1..(n + 1) /\ \A i \in 1..(n + 1) : i \in 1..n \/ i = n + 1
      /\ \A i \in 1..n : i \in 1..(n + 1) /\ i # n + 1
  <2>1. n \in Nat /\ w \in Seq(Seq(Nat)) /\ Len(w) = n + 1 /\ w[n + 1] = x
        /\ \A i \in 1..n : w[i] = v[i]
    BY AppendProperties, LenProperties
  <2> HIDE DEF n, w
  <2>2. /\ n + 1 \in 1..(n + 1) /\ \A i \in 1..(n + 1) : i \in 1..n \/ i = n + 1
        /\ \A i \in 1..n : i \in 1..(n + 1) /\ i # n + 1
    <3>1. n \in Nat
      BY <2>1
    <3>2. QED
      BY ONLY <3>1
  <2>3. QED
    BY <2>1, <2>2
<1>2. /\ r.ready = (SpsIn(v) # {}) /\ r.units = UnitsOf(v)
      /\ \A s \in 1..n : Opened(v, s) => /\ r.started /\ r.nal = FlattenSeq(SubSeq(v, s, n))
                                         /\ r.nal # <<>> /\ r.nal[1] = Start
      /\ (\A s \in 1..n : ~Opened(v, s)) => ~r.started /\ r.nal = <<>>
  BY DEF Depacketised
<1>3. ASSUME NEW s \in 1..n, Opened(v, s) PROVE x[1] \in {Middle, End}
  <2>1. v # <<>> /\ n \in 1..n /\ (s = n \/ n \in (s + 1)..n)
    <3>1. n # 0 /\ (s = n \/ n \in (s + 1)..n) /\ n \in 1..n
      BY <1>1
    <3>2. QED
      BY <3>1
  <2>2. v[n][1] \in {Start, Middle}
    BY <1>3, <2>1 DEF Opened
  <2>3. QED
    BY <2>1, <2>2
<1>4. /\ ~Opened(w, n + 1) \/ x[1] = Start
      /\ x[1] = Start => Opened(w, n + 1)
      /\ \A s \in 1..n : Opened(w, s) <=> Opened(v, s) /\ x[1] = Middle
  <2> HIDE DEF w, n
  <2>1. \A s \in 1..n : (\A j \in (s + 1)..(n + 1) : w[j][1] = Middle)
                        <=> (\A j \in (s + 1)..n : v[j][1] = Middle) /\ x[1] = Middle
    <3> TAKE s \in 1..n
    <3>1. /\ \A j \in (s + 1)..(n + 1) : j \in (s + 1)..n \/ j = n + 1
          /\ \A j \in (s + 1)..n : j \in 1..n /\ j \in (s + 1)..(n + 1)
          /\ n + 1 \in (s + 1)..(n + 1)
      BY <1>1
    <3>2. QED
      BY <1>1, <3>1
  <2>2. ((n + 1) + 1)..(n + 1) = {}
    BY <1>1
  <2>3. QED
    BY <1>1, <2>1, <2>2 DEF Opened, n
<1>5. ASSUME NEW s \in 1..n, Opened(v, s)
      PROVE  /\ FlattenSeq(SubSeq(w, s, n + 1)) = r.nal \o x
             /\ r.nal \o x \in Seq(Nat) /\ r.nal \o x # <<>> /\ (r.nal \o x)[1] = Start
  <2>1. /\ SubSeq(w, s, n) = SubSeq(v, s, n) /\ SubSeq(v, s, n) \in Seq(Seq(Nat))
    <3>1. s \in Nat \ {0} /\ n <= n
      BY <1>1
    <3>2. QED
      BY <1>1, <3>1, SubSeqKept
  <2>2. SubSeq(w, s, n + 1) = SubSeq(w, s, n) \o <<x>>
    <3>1. s \in 1..Len(w) /\ n + 1 \in s..Len(w) /\ (n + 1) - 1 = n
      BY <1>1
    <3> HIDE DEF w, n
    <3>2. SubSeq(w, s, n + 1) = SubSeq(w, s, (n + 1) - 1) \o <<w[n + 1]>>
      BY <1>1, <3>1, SubSeqRecursiveSecond
    <3>3. QED
      BY <1>1, <3>1, <3>2
  <2>3. SubSeq(w, s, n + 1) = Append(SubSeq(v, s, n), x)
    <3> HIDE DEF w, n
    <3>1. QED
      BY <2>1, <2>2, AppendIs
  <2>4. FlattenSeq(Append(SubSeq(v, s, n), x)) = FlattenSeq(SubSeq(v, s, n)) \o x
    BY <2>1, FlattenAppend
  <2>5. r.nal = FlattenSeq(SubSeq(v, s, n)) /\ r.nal # <<>> /\ r.nal[1] = Start
    BY <1>2, <1>5
  <2>6. /\ r.nal \in Seq(Nat) /\ r.nal \o x \in Seq(Nat) /\ Len(r.nal) \in Nat /\ Len(x) \in Nat
        /\ Len(r.nal \o x) = Len(r.nal) + Len(x)
        /\ \A i \in 1..Len(r.nal) : (r.nal \o x)[i] = r.nal[i]
    <3>1. r.nal \in Seq(Nat) /\ x \in Seq(Nat)
      BY DEF RxType
    <3>2. QED
      BY ONLY <3>1, Joined
  <2>7. 1 \in 1..Len(r.nal) /\ Len(r.nal \o x) # 0
    <3>1. Len(r.nal) # 0
      BY <2>5, <2>6, EmptySeq
    <3>2. Len(r.nal) \in Nat /\ Len(x) \in Nat /\ Len(r.nal \o x) = Len(r.nal) + Len(x)
      BY <2>6
    <3>3. QED
      BY ONLY <3>1, <3>2
  <2>8. r.nal \o x # <<>> /\ (r.nal \o x)[1] = Start
    <3>1. Len(<<>>) = 0
      OBVIOUS
    <3>2. QED
      BY <2>5, <2>6, <2>7, <3>1
  <2>9. QED
    BY <2>3, <2>4, <2>5, <2>6, <2>8
<1>6. x[1] = End => Starts(w, n + 1) = {s \in 1..n : Opened(v, s)}
  <2> HIDE DEF w, n
  <2>1. (n + 1) - 1 = n /\ \A s \in 1..n : \A j \in (s + 1)..n : j \in 1..n
    <3>1. n \in Nat
      BY <1>1
    <3>2. QED
      BY ONLY <3>1
  <2> SUFFICES ASSUME x[1] = End PROVE Starts(w, n + 1) = {s \in 1..n : Opened(v, s)}
    OBVIOUS
  <2>2. Starts(w, n + 1) = {s \in 1..(n + 1) : w[s][1] = Start /\ \A j \in (s + 1)..n : w[j][1] = Middle}
    BY <2>1 DEF Starts
  <2>3. \A s \in 1..n : w[s] = v[s] /\ \A j \in (s + 1)..n : w[j] = v[j]
    BY <1>1, <2>1
  <2>4. w[n + 1][1] # Start
    BY <1>1 DEF Start, End
  <2>5. \A s : s \in 1..(n + 1) /\ s # n + 1 <=> s \in 1..n
    BY <1>1
  <2>6. \A s \in 1..n : Opened(v, s) <=> v[s][1] = Start /\ \A j \in (s + 1)..n : v[j][1] = Middle
    BY DEF Opened, n
  <2>7. ASSUME NEW s \in 1..n
        PROVE  Opened(v, s) <=> w[s][1] = Start /\ \A j \in (s + 1)..n : w[j][1] = Middle
    BY <2>3, <2>6
  <2>8. QED
    BY <2>2, <2>4, <2>5, <2>7
<1> DEFINE Done(q) == Depacketised(q, w)
<1>7. ASSUME NEW q, q.ready = (SpsIn(w) # {}), q.units = UnitsOf(w),
             \A s \in 1..(n + 1) : Opened(w, s) => /\ q.started /\ q.nal = FlattenSeq(SubSeq(w, s, n + 1))
                                                   /\ q.nal # <<>> /\ q.nal[1] = Start,
             (\A s \in 1..(n + 1) : ~Opened(w, s)) => ~q.started /\ q.nal = <<>>
      PROVE  Done(q)
  BY <1>1, <1>7 DEF Depacketised
<1> HIDE DEF Done
<1>8. CASE x[1] = Start
  <2>1. d = [r EXCEPT !.started = TRUE, !.nal = r.nal \o x]
    BY <1>8 DEF Depacketise, Start, End, Middle, Sps, Slice
  <2>2. r.nal = <<>>
    BY <1>2, <1>3, <1>8 DEF Start, Middle, End
  <2>3. /\ d.ready = r.ready /\ d.units = r.units /\ d.started /\ d.nal = x
    <3>1. <<>> \o x = x
      BY ConcatEmptySeq
    <3>2. QED
      BY <2>1, <2>2, <3>1 DEF RxType
  <2>4. UnitAt(w, n + 1) = <<>>
    <3> HIDE DEF w, n
    <3>1. QED
      BY <1>1, <1>8 DEF UnitAt, Start, End, Sps, Slice
  <2>5. UnitsOf(w) = UnitsOf(v) /\ (SpsIn(w) # {}) = (SpsIn(v) # {})
    BY <1>8, <2>4, UnitKept DEF Start, Sps
  <2>6. FlattenSeq(SubSeq(w, n + 1, n + 1)) = x
    <3> HIDE DEF w, n
    <3>1. n + 1 \in 1..Len(w) /\ n + 1 \in (n + 1)..Len(w) /\ (n + 1) - 1 < n + 1
          /\ n + 1 \in Int /\ (n + 1) - 1 \in Int
      BY <1>1
    <3>2. SubSeq(w, n + 1, n + 1) = SubSeq(w, n + 1, (n + 1) - 1) \o <<w[n + 1]>>
      BY <1>1, <3>1, SubSeqRecursiveSecond
    <3>3. SubSeq(w, n + 1, (n + 1) - 1) = <<>>
      BY <3>1, SubSeqEmpty
    <3>4. <<>> \in Seq(Seq(Nat))
      OBVIOUS
    <3>5. Append(<<>>, x) = <<>> \o <<x>>
      BY <3>4, AppendIs
    <3>6. FlattenSeq(Append(<<>>, x)) = FlattenSeq(<<>>) \o x
      BY <3>4, FlattenAppend
    <3>7. <<>> \o x = x
      BY ConcatEmptySeq
    <3>8. QED
      BY <1>1, <3>2, <3>3, <3>5, <3>6, <3>7, FlattenEmpty
  <2>7. \A s \in 1..n : ~Opened(w, s)
    BY <1>4, <1>8 DEF Start, Middle
  <2>8. Opened(w, n + 1)
    BY <1>4, <1>8
  <2> HIDE DEF d, w, n
  <2>9. \A s \in 1..(n + 1) : Opened(w, s) => /\ d.started /\ d.nal = FlattenSeq(SubSeq(w, s, n + 1))
                                              /\ d.nal # <<>> /\ d.nal[1] = Start
    BY <1>1, <1>8, <2>3, <2>6, <2>7
  <2>10. Done(d)
    BY <1>1, <1>2, <1>7, <2>3, <2>5, <2>8, <2>9
  <2>11. QED
    BY <2>10 DEF Done, d, w
<1>9. CASE x[1] = End /\ \E s \in 1..n : Opened(v, s)
  <2> DEFINE q == [r EXCEPT !.started = FALSE, !.nal = <<>>]
             u == r.nal \o x
  <2>1. PICK s \in 1..n : Opened(v, s)
    BY <1>9
  <2>2. r.started /\ FlattenSeq(SubSeq(w, s, n + 1)) = u /\ u \in Seq(Nat) /\ u[1] = Start
    BY <1>2, <1>5, <2>1
  <2>3. d = Give(q, u)
    BY <1>9, <2>2 DEF Depacketise, Start, End, Middle, Sps, Slice
  <2>4. q \in RxType /\ q.ready = r.ready /\ q.units = r.units /\ ~q.started /\ q.nal = <<>>
    <3>1. FALSE \in BOOLEAN /\ <<>> \in Seq(Nat)
      OBVIOUS
    <3>2. q \in RxType
      BY <3>1 DEF RxType
    <3>3. q.ready = r.ready /\ q.units = r.units /\ ~q.started /\ q.nal = <<>>
      BY DEF RxType
    <3>4. QED
      BY <3>2, <3>3
  <2>5. UnitAt(w, n + 1) = <<u>>
    <3> DEFINE t == CHOOSE t \in Starts(w, n + 1) : TRUE
    <3>1. s \in Starts(w, n + 1)
      BY <1>6, <1>9, <2>1
    <3>2. t \in Starts(w, n + 1)
      BY <3>1
    <3>3. t \in 1..n /\ Opened(v, t)
      BY <1>6, <1>9, <3>2
    <3> HIDE DEF t
    <3>4. FlattenSeq(SubSeq(w, t, n + 1)) = u
      BY <1>5, <3>3
    <3> HIDE DEF w, n, u
    <3>5. UnitAt(w, n + 1) = <<FlattenSeq(SubSeq(w, t, n + 1))>>
      BY <1>1, <1>9, <3>1 DEF UnitAt, Start, End, Sps, Slice, t
    <3>6. QED
      BY <3>4, <3>5
  <2> HIDE DEF q, u, d
  <2>6. /\ Give(q, u).ready = (SpsIn(w) # {}) /\ Give(q, u).units = UnitsOf(w)
        /\ Give(q, u).started = q.started /\ Give(q, u).nal = q.nal
    <3>1. u \in Seq(Nat) /\ (u[1] = Sps <=> x[1] = Sps)
      BY <1>9, <2>2 DEF Start, End, Sps
    <3>2. q.ready = (SpsIn(v) # {}) /\ q.units = UnitsOf(v)
      BY <1>2, <2>4
    <3>3. v \in Seq(Seq(Nat)) /\ x \in Seq(Nat) /\ q \in RxType
          /\ UnitAt(Append(v, x), Len(v) + 1) = <<u>>
      BY <2>4, <2>5
    <3> HIDE DEF w, n
    <3>4. /\ Give(q, u).ready = (SpsIn(Append(v, x)) # {})
          /\ Give(q, u).units = UnitsOf(Append(v, x))
          /\ Give(q, u).started = q.started /\ Give(q, u).nal = q.nal
      BY ONLY <3>1, <3>2, <3>3, UnitGiven
    <3>5. QED
      BY <3>4 DEF w
  <2>7. \A s1 \in 1..n : ~Opened(w, s1)
    BY <1>4, <1>9 DEF End, Middle
  <2>8. ~Opened(w, n + 1)
    BY <1>4, <1>9 DEF Start, End
  <2> HIDE DEF w, n
  <2>9. \A s1 \in 1..(n + 1) : ~Opened(w, s1)
    BY <1>1, <2>7, <2>8
  <2>10. Done(d)
    BY <1>7, <2>3, <2>4, <2>6, <2>9
  <2>11. QED
    BY <2>10 DEF Done, d, w
<1>10. CASE x[1] = Middle /\ \E s \in 1..n : Opened(v, s)
  <2>1. PICK s \in 1..n : Opened(v, s)
    BY <1>10
  <2>2. r.started
    BY <1>2, <2>1
  <2>3. d = [r EXCEPT !.nal = r.nal \o x]
    BY <1>10, <2>2 DEF Depacketise, Start, End, Middle, Sps, Slice
  <2>4. d.ready = r.ready /\ d.units = r.units /\ d.started = r.started /\ d.nal = r.nal \o x
    BY <2>3 DEF RxType
  <2>5. UnitAt(w, n + 1) = <<>>
    <3> HIDE DEF w, n
    <3>1. QED
      BY <1>1, <1>10 DEF UnitAt, Middle, End, Sps, Slice
  <2>6. UnitsOf(w) = UnitsOf(v) /\ (SpsIn(w) # {}) = (SpsIn(v) # {})
    <3>1. x[1] # Sps
      BY <1>10 DEF Middle, Sps
    <3>2. QED
      BY <2>5, <3>1, UnitKept
  <2>7. ~Opened(w, n + 1) /\ Opened(w, s)
    BY <1>4, <1>10, <2>1 DEF Start, Middle
  <2> HIDE DEF d
  <2>8. \A t \in 1..n : Opened(w, t) => /\ d.started /\ d.nal = FlattenSeq(SubSeq(w, t, n + 1))
                                        /\ d.nal # <<>> /\ d.nal[1] = Start
    BY <1>4, <1>5, <2>2, <2>4
  <2> HIDE DEF w, n
  <2>9. \A t \in 1..(n + 1) : Opened(w, t) => /\ d.started /\ d.nal = FlattenSeq(SubSeq(w, t, n + 1))
                                              /\ d.nal # <<>> /\ d.nal[1] = Start
    BY <1>1, <2>7, <2>8
  <2>10. Done(d)
    BY <1>1, <1>2, <1>7, <2>4, <2>6, <2>7, <2>9
  <2>11. QED
    BY <2>10 DEF Done, d, w
<1>11. CASE x[1] \in {Sps, Slice}
  <2> DEFINE nal == [i \in DOMAIN r.nal |-> IF i <= Len(x) THEN x[i] ELSE r.nal[i]]
             q == [r EXCEPT !.nal = nal]
  <2>1. d = Give(q, x)
    BY <1>11 DEF Depacketise, Start, End, Middle, Sps, Slice
  <2>2. (\A s \in 1..n : ~Opened(v, s)) /\ ~r.started /\ r.nal = <<>>
    BY <1>2, <1>3, <1>11 DEF Middle, End, Sps, Slice
  <2>3. nal = <<>>
    <3>1. DOMAIN r.nal = {}
      BY <2>2
    <3>2. QED
      BY <3>1
  <2>4. q \in RxType /\ q.ready = r.ready /\ q.units = r.units /\ ~q.started /\ q.nal = <<>>
    <3> HIDE DEF nal
    <3>1. <<>> \in Seq(Nat)
      OBVIOUS
    <3>2. q \in RxType
      BY <2>3, <3>1 DEF RxType
    <3>3. q.ready = r.ready /\ q.units = r.units /\ ~q.started /\ q.nal = <<>>
      BY <2>2, <2>3 DEF RxType
    <3>4. QED
      BY <3>2, <3>3
  <2>5. UnitAt(w, n + 1) = <<x>>
    <3> HIDE DEF w, n
    <3>1. QED
      BY <1>1, <1>11 DEF UnitAt, End, Sps, Slice
  <2> HIDE DEF q, d
  <2>6. /\ Give(q, x).ready = (SpsIn(w) # {}) /\ Give(q, x).units = UnitsOf(w)
        /\ Give(q, x).started = q.started /\ Give(q, x).nal = q.nal
    <3>1. q.ready = (SpsIn(v) # {}) /\ q.units = UnitsOf(v)
      BY <1>2, <2>4
    <3>2. v \in Seq(Seq(Nat)) /\ x \in Seq(Nat) /\ q \in RxType
          /\ UnitAt(Append(v, x), Len(v) + 1) = <<x>>
      BY <2>4, <2>5
    <3>3. QED
      BY ONLY <3>1, <3>2, UnitGiven
  <2>7. (\A s \in 1..n : ~Opened(w, s)) /\ ~Opened(w, n + 1)
    BY <1>4, <1>11, <2>2 DEF Start, Sps, Slice
  <2> HIDE DEF w, n
  <2>8. \A s \in 1..(n + 1) : ~Opened(w, s)
    BY <1>1, <2>7
  <2>9. Done(d)
    BY <1>7, <2>1, <2>4, <2>6, <2>8
  <2>10. QED
    BY <2>9 DEF Done, d, w
<1>12. CASE /\ x[1] \notin {Start, Sps, Slice}
            /\ x[1] \in {Middle, End} => \A s \in 1..n : ~Opened(v, s)
  <2>1. (\A s \in 1..n : ~Opened(v, s)) /\ ~r.started /\ r.nal = <<>>
    BY <1>2, <1>3, <1>12
  <2>2. d = r
    BY <1>12, <2>1 DEF Depacketise, Start, End, Middle, Sps, Slice
  <2>3. UnitAt(w, n + 1) = <<>>
    <3>1. x[1] = End => Starts(w, n + 1) = {}
      BY <1>6, <2>1
    <3> HIDE DEF w, n
    <3>2. QED
      BY <1>1, <1>12, <3>1 DEF UnitAt, Start, Middle, End, Sps, Slice
  <2>4. UnitsOf(w) = UnitsOf(v) /\ (SpsIn(w) # {}) = (SpsIn(v) # {})
    BY <1>12, <2>3, UnitKept
  <2>5. (\A s \in 1..n : ~Opened(w, s)) /\ ~Opened(w, n + 1)
    BY <1>4, <1>12, <2>1
  <2> HIDE DEF w, n, d
  <2>6. \A s \in 1..(n + 1) : ~Opened(w, s)
    BY <1>1, <2>5
  <2>7. Done(d)
    BY <1>2, <1>7, <2>1, <2>2, <2>4, <2>6
  <2>8. QED
    BY <2>7 DEF Done, d, w
<1>13. QED
  BY <1>8, <1>9, <1>10, <1>11, <1>12

-----------------------------------------------------------------------------
(***************************************************************************)
(* The parser: it looks for the first whole item, or it has read some of   *)
(* item i and has given the packets before it.                             *)
(***************************************************************************)
Heard == {VideoChannel, AudioChannel}

Emitted(r, m) ==
  /\ r.packets = Bodies(Heard)[m]
  /\ FragmentsTogether => Depacketised(r, Bodies({VideoChannel})[m])

Ready(r) == r.state \in {"EMPTY", "MESSAGE"} /\ r.hdr = <<>> /\ r.body = <<>>

Seeking(r, p) ==
  /\ \A i \in 1..Len(Stream) : Offset[i] >= dropped => p <= Offset[i]
  /\ Ready(r) /\ r.packets = <<>> /\ Depacketised(r, <<>>)

Position(r, item, k) ==
  /\ item.text => r.state = "MESSAGE" /\ r.hdr = <<>> /\ r.body = <<>>
  /\ ~item.text /\ k < 4 =>
       /\ r.state = "HEADER" /\ Len(r.hdr) = k /\ r.body = <<>>
       /\ \A j \in 1..k : r.hdr[j] = Bytes(item)[j]
  /\ ~item.text /\ k >= 4 =>
       /\ r.state = "CONTENT" /\ r.hdr = <<>>
       /\ r.channel = item.channel /\ r.len = Len(item.body)
       /\ Len(r.body) = k - 4 /\ \A j \in 1..(k - 4) : r.body[j] = item.body[j]

Within(r, p, i) ==
  /\ Offset[i] >= dropped /\ Offset[i] < p /\ p <= Offset[i + 1]
  /\ Position(r, Stream[i], p - Offset[i])
  /\ Emitted(r, i - 1)

Parsed(r, p) == Seeking(r, p) \/ \E i \in 1..Len(Stream) : Within(r, p, i)

(* What was given depends on some of the state only.                       *)
Same(q, r) ==
  /\ q.packets = r.packets /\ q.ready = r.ready /\ q.units = r.units
  /\ q.started = r.started /\ q.nal = r.nal

LEMMA SameGiven ==
  ASSUME NEW q, NEW r, Same(q, r)
  PROVE  /\ \A v : Depacketised(r, v) => Depacketised(q, v)
         /\ \A m : Emitted(r, m) => Emitted(q, m)
<1>1. \A v : Depacketised(r, v) => Depacketised(q, v)
  BY DEF Depacketised, Same
<1>2. QED
  BY <1>1 DEF Emitted, Same

LEMMA TakeSame ==
  ASSUME NEW r \in RxType, NEW b
  PROVE  Same(Take(r, b), r)
<1>1. CASE r.state \in {"EMPTY", "MESSAGE"} /\ b = Byte(Dollar)
  <2>1. Take(r, b) = [r EXCEPT !.state = "HEADER", !.hdr = <<b>>]
    BY <1>1 DEF Take
  <2>2. QED
    BY <2>1 DEF Same, RxType
<1>2. CASE r.state \in {"EMPTY", "MESSAGE"} /\ b # Byte(Dollar)
  <2>1. Take(r, b) = [r EXCEPT !.state = "MESSAGE"]
    BY <1>2 DEF Take
  <2>2. QED
    BY <2>1 DEF Same, RxType
<1>3. CASE r.state = "HEADER" /\ Len(r.hdr) < 3
  <2>1. Take(r, b) = [r EXCEPT !.hdr = Append(r.hdr, b)]
    BY SMTT(30), <1>3 DEF Take
  <2>2. QED
    BY <2>1 DEF Same, RxType
<1>4. CASE r.state = "HEADER" /\ ~(Len(r.hdr) < 3) /\ Len(r.hdr) = 3
  <2> DEFINE len == 256 * r.hdr[3].v + b.v
             channel == r.hdr[2].v
  <2>1. Take(r, b) = [r EXCEPT !.state = "CONTENT", !.channel = channel, !.len = len, !.hdr = <<>>]
    BY <1>4 DEF Take
  <2> HIDE DEF len, channel
  <2>2. QED
    BY <2>1 DEF Same, RxType
<1>5. CASE /\ r.state \notin {"EMPTY", "MESSAGE"} /\ ~(r.state = "HEADER" /\ Len(r.hdr) < 3)
           /\ ~(r.state = "HEADER" /\ Len(r.hdr) = 3)
  <2>1. Take(r, b) = [r EXCEPT !.body = Append(r.body, b.v)]
    BY <1>5 DEF Take
  <2>2. QED
    BY <2>1 DEF Same, RxType
<1>6. QED
  BY <1>1, <1>2, <1>3, <1>4, <1>5

(* The bytes of an item, as the parser tells them apart.                   *)
LEMMA ItemShape ==
  ASSUME NEW i \in 1..Len(Stream), NEW item, item = Stream[i]
  PROVE  /\ item \in Items /\ item.text \in BOOLEAN /\ Len(item.body) \in Nat
         /\ Bytes(item) \in Seq(Good)
         /\ item.text => /\ Len(Bytes(item)) = 2 /\ Bytes(item)[1] # Byte(Dollar)
                         /\ Bytes(item)[2] # Byte(Dollar)
         /\ ~item.text =>
              /\ Len(Bytes(item)) = 4 + Len(item.body)
              /\ Bytes(item)[1] = Byte(Dollar) /\ Bytes(item)[2].v = item.channel
              /\ 256 * Bytes(item)[3].v + Bytes(item)[4].v = Len(item.body)
              /\ \A j \in 1..Len(item.body) : Bytes(item)[4 + j].v = item.body[j]
<1>1. item \in Items
  BY StreamItems
<1>2. /\ Bytes(item) \in Seq(Good) /\ Len(item.body) \in Nat
      /\ item.text => Bytes(item) = <<Line("text", 0), Line("text", 0)>>
      /\ ~item.text =>
           /\ Len(Bytes(item)) = 4 + Len(item.body)
           /\ Bytes(item)[1] = Byte(Dollar) /\ Bytes(item)[2] = Byte(item.channel)
           /\ Bytes(item)[3] = Byte(Len(item.body) \div 256)
           /\ Bytes(item)[4] = Byte(Len(item.body) % 256)
           /\ \A j \in 1..Len(item.body) : Bytes(item)[4 + j] = Byte(item.body[j])
  BY ZenonT(60), <1>1, BytesOver, GoodByte
<1>3. \A v : Byte(v).v = v /\ Line("text", 0) # Byte(v)
  BY DEF Byte, Line
<1>4. ASSUME item.text
      PROVE  /\ Len(Bytes(item)) = 2 /\ Bytes(item)[1] # Byte(Dollar)
             /\ Bytes(item)[2] # Byte(Dollar)
  <2> DEFINE l == Line("text", 0)
  <2>1. Bytes(item) = <<l, l>> /\ l # Byte(Dollar)
    BY <1>2, <1>3, <1>4
  <2> HIDE DEF l
  <2>2. Len(<<l, l>>) = 2 /\ <<l, l>>[1] = l /\ <<l, l>>[2] = l
    OBVIOUS
  <2>3. QED
    BY <2>1, <2>2
<1>5. ASSUME ~item.text
      PROVE  256 * Bytes(item)[3].v + Bytes(item)[4].v = Len(item.body)
  <2> DEFINE high == Len(item.body) \div 256
             low == Len(item.body) % 256
  <2>1. high \in Nat /\ low \in Nat /\ high * 256 + low = Len(item.body)
    BY <1>2, TwoBytes
  <2>2. Bytes(item)[3] = Byte(high) /\ Bytes(item)[4] = Byte(low)
    BY <1>2, <1>5
  <2> HIDE DEF high, low
  <2>3. Bytes(item)[3].v = high /\ Bytes(item)[4].v = low
    BY <1>3, <2>2
  <2>4. 256 * high + low = Len(item.body)
    BY ONLY <2>1
  <2>5. QED
    BY <2>3, <2>4
<1>6. ASSUME ~item.text
      PROVE  /\ Len(Bytes(item)) = 4 + Len(item.body)
             /\ Bytes(item)[1] = Byte(Dollar) /\ Bytes(item)[2].v = item.channel
             /\ \A j \in 1..Len(item.body) : Bytes(item)[4 + j].v = item.body[j]
  <2>1. /\ Len(Bytes(item)) = 4 + Len(item.body)
        /\ Bytes(item)[1] = Byte(Dollar) /\ Bytes(item)[2] = Byte(item.channel)
        /\ \A j \in 1..Len(item.body) : Bytes(item)[4 + j] = Byte(item.body[j])
    BY <1>2, <1>6
  <2>2. QED
    BY <1>3, <2>1
<1>7. item.text \in BOOLEAN
  BY <1>1 DEF Items
<1>8. QED
  BY <1>1, <1>2, <1>4, <1>5, <1>6, <1>7

LEMMA ItemBegins ==
  ASSUME NEW r \in RxType, NEW i \in 1..Len(Stream), Ready(r), Offset[i] >= dropped,
         Emitted(r, i - 1), NEW b, b = Bytes(Stream[i])[1]
  PROVE  Within(Take(r, b), Offset[i] + 1, i)
<1> DEFINE item == Stream[i]
           t == Take(r, b)
<1>1. /\ Offset[i] \in Nat /\ Offset[i + 1] = Offset[i] + Len(Bytes(item))
      /\ Len(Bytes(item)) \in Nat /\ Len(Bytes(item)) >= 2
  <2>1. i \in 1..(Len(Stream) + 1)
    BY StreamItems
  <2>2. QED
    BY <2>1, OffsetNext, BytesLength
<1>2. Offset[i] < Offset[i] + 1 /\ Offset[i] + 1 <= Offset[i + 1] /\ (Offset[i] + 1) - Offset[i] = 1
  BY ONLY <1>1
<1>3. Emitted(t, i - 1)
  BY TakeSame, SameGiven
<1>4. Position(t, item, 1)
  <2>1. CASE item.text
    <3>1. b # Byte(Dollar)
      BY <2>1, ItemShape
    <3>2. t = [r EXCEPT !.state = "MESSAGE"]
      BY <3>1 DEF Take, Ready
    <3>3. QED
      BY <2>1, <3>2 DEF Position, Ready, RxType
  <2>2. CASE ~item.text
    <3>1. b = Byte(Dollar) /\ b = Bytes(item)[1]
      BY <2>2, ItemShape
    <3>2. t = [r EXCEPT !.state = "HEADER", !.hdr = <<b>>]
      BY <3>1 DEF Take, Ready
    <3>3. t.state = "HEADER" /\ t.hdr = <<b>> /\ t.body = <<>>
      BY <3>2 DEF Ready, RxType
    <3>4. Len(<<b>>) = 1 /\ \A j \in 1..1 : <<b>>[j] = b /\ j = 1
      OBVIOUS
    <3> HIDE DEF t, item
    <3>5. QED
      BY <2>2, <3>1, <3>3, <3>4 DEF Position
  <2>3. QED
    BY <2>1, <2>2
<1>5. QED
  BY <1>2, <1>3, <1>4 DEF Within

LEMMA ItemGoesOn ==
  ASSUME NEW r \in Parsing, NEW i \in 1..Len(Stream), NEW p \in Int, Within(r, p, i),
         p < Offset[i + 1], NEW b, b = Bytes(Stream[i])[p + 1 - Offset[i]]
  PROVE  Within(Parse(r, b), p + 1, i)
<1> DEFINE item == Stream[i]
           k == p - Offset[i]
           t == Take(r, b)
<1>1. /\ Offset[i] \in Nat /\ Offset[i + 1] = Offset[i] + Len(Bytes(item))
      /\ Len(Bytes(item)) \in Nat /\ Offset[i] < p /\ p < Offset[i + 1] /\ p \in Int
  <2>1. i \in 1..(Len(Stream) + 1)
    BY StreamItems
  <2>2. QED
    BY <2>1, OffsetNext, BytesLength DEF Within
<1>2. /\ Offset[i] < p + 1 /\ p + 1 <= Offset[i + 1] /\ p + 1 - Offset[i] = k + 1
      /\ (p + 1) - Offset[i] = k + 1
      /\ k \in Nat \ {0} /\ k < Len(Bytes(item)) /\ k + 1 \in 1..Len(Bytes(item))
  BY ONLY <1>1
<1> HIDE DEF k
<1>3. b = Bytes(item)[k + 1]
  BY <1>2
<1>4. r \in RxType /\ Position(r, item, k) /\ Len(item.body) \in Nat /\ item.text \in BOOLEAN
  BY ItemShape DEF Parsing, Within, k
<1>5. Emitted(t, i - 1)
  BY <1>4, TakeSame, SameGiven DEF Within
<1>6. Position(t, item, k + 1) /\ Parse(r, b) = t
  <2>1. CASE item.text
    <3>1. b # Byte(Dollar)
      <4>1. Len(Bytes(item)) = 2 /\ Bytes(item)[2] # Byte(Dollar)
        BY <2>1, ItemShape
      <4>2. k = 1
        BY <1>2, <4>1
      <4>3. QED
        BY <1>3, <4>1, <4>2
    <3>2. r.state = "MESSAGE" /\ r.hdr = <<>> /\ r.body = <<>>
      BY <1>4, <2>1 DEF Position
    <3>3. t = [r EXCEPT !.state = "MESSAGE"]
      BY <3>1, <3>2 DEF Take
    <3>4. t.state = "MESSAGE" /\ t.hdr = <<>> /\ t.body = <<>>
      BY <1>4, <3>2, <3>3 DEF RxType
    <3>5. Parse(r, b) = t
      BY <3>2 DEF Parse
    <3>6. QED
      BY <2>1, <3>4, <3>5 DEF Position
  <2>2. CASE ~item.text /\ k < 3
    <3>1. /\ r.state = "HEADER" /\ Len(r.hdr) = k /\ r.body = <<>>
          /\ \A j \in 1..k : r.hdr[j] = Bytes(item)[j]
      BY SMTT(20), <1>2, <1>4, <2>2 DEF Position
    <3>2. t = [r EXCEPT !.hdr = Append(r.hdr, b)]
      BY SMTT(30), <2>2, <3>1 DEF Take
    <3>3. t.state = "HEADER" /\ t.hdr = Append(r.hdr, b) /\ t.body = <<>>
      BY <1>4, <3>1, <3>2 DEF RxType
    <3>4. Len(t.hdr) = k + 1 /\ \A j \in 1..(k + 1) : t.hdr[j] = Bytes(item)[j]
      <4>1. r.hdr \in Seq(Lines)
        BY <1>4 DEF RxType
      <4>2. b \in Lines
        <5>1. Bytes(item) \in Seq(Good)
          BY ItemShape
        <5>2. QED
          BY <1>2, <1>3, <5>1, ElementOfSeq DEF Good
      <4> HIDE DEF item, t
      <4>3. /\ Len(Append(r.hdr, b)) = Len(r.hdr) + 1 /\ Append(r.hdr, b)[Len(r.hdr) + 1] = b
            /\ \A j \in 1..Len(r.hdr) : Append(r.hdr, b)[j] = r.hdr[j]
        BY ONLY <4>1, <4>2, AppendProperties
      <4>4. \A j \in 1..(k + 1) : j \in 1..k \/ j = k + 1
        BY <1>2
      <4>5. QED
        BY <1>3, <3>1, <3>3, <4>3, <4>4
    <3>5. Parse(r, b) = t
      BY <3>1 DEF Parse
    <3>6. k + 1 < 4 /\ ~(k + 1 >= 4)
      BY <1>2, <2>2
    <3> HIDE DEF t, item
    <3>7. QED
      BY <2>2, <3>3, <3>4, <3>5, <3>6 DEF Position
  <2>3. CASE ~item.text /\ k = 3
    <3>1. /\ r.state = "HEADER" /\ Len(r.hdr) = 3 /\ r.body = <<>>
          /\ \A j \in 1..3 : r.hdr[j] = Bytes(item)[j]
      BY <1>4, <2>3 DEF Position
    <3>2. r.hdr[2].v = item.channel /\ 256 * r.hdr[3].v + b.v = Len(item.body)
      <4>1. Bytes(item)[2].v = item.channel
            /\ 256 * Bytes(item)[3].v + Bytes(item)[4].v = Len(item.body)
        BY <2>3, ItemShape
      <4>2. b = Bytes(item)[4] /\ r.hdr[2] = Bytes(item)[2] /\ r.hdr[3] = Bytes(item)[3]
        BY <1>3, <2>3, <3>1
      <4>3. QED
        BY <4>1, <4>2
    <3> DEFINE len == 256 * r.hdr[3].v + b.v
               channel == r.hdr[2].v
    <3>3. t = [r EXCEPT !.state = "CONTENT", !.channel = channel, !.len = len, !.hdr = <<>>]
      BY <3>1 DEF Take
    <3>4. len = Len(item.body) /\ channel = item.channel
      BY <3>2
    <3> HIDE DEF len, channel
    <3>5. t.state = "CONTENT" /\ t.hdr = <<>> /\ t.channel = channel /\ t.len = len /\ t.body = <<>>
      BY <1>4, <3>1, <3>3 DEF RxType
    <3>6. Parse(r, b) = t
      BY <3>1 DEF Parse
    <3>7. Len(<<>>) = (k + 1) - 4 /\ 1..((k + 1) - 4) = {} /\ k + 1 >= 4 /\ ~(k + 1 < 4)
      BY <2>3
    <3> HIDE DEF t, item
    <3>8. QED
      BY <2>3, <3>4, <3>5, <3>6, <3>7 DEF Position
  <2>4. CASE ~item.text /\ k > 3
    <3>1. k >= 4 /\ k + 1 >= 4 /\ ~(k + 1 < 4)
      BY <1>2, <2>4
    <3>2. /\ r.state = "CONTENT" /\ r.hdr = <<>>
          /\ r.channel = item.channel /\ r.len = Len(item.body)
          /\ Len(r.body) = k - 4 /\ \A j \in 1..(k - 4) : r.body[j] = item.body[j]
      BY <1>4, <2>4, <3>1 DEF Position
    <3>3. /\ Len(Bytes(item)) = 4 + Len(item.body)
          /\ \A j \in 1..Len(item.body) : Bytes(item)[4 + j].v = item.body[j]
      BY <2>4, ItemShape
    <3>4. k - 4 < Len(item.body) /\ k - 3 \in 1..Len(item.body) /\ 4 + (k - 3) = k + 1
          /\ (k + 1) - 4 = k - 3 /\ (k - 4) + 1 = k - 3 /\ k - 4 \in Nat
          /\ \A j \in 1..(k - 3) : j \in 1..(k - 4) \/ j = k - 3
      BY ONLY SMTT(20), <1>2, <1>4, <3>1, <3>3
    <3>5. b.v = item.body[k - 3] /\ b.v \in Nat
      <4>1. b.v = item.body[k - 3]
        BY <1>3, <3>3, <3>4
      <4>2. item.body \in Seq(Nat)
        BY ItemShape DEF Items
      <4>3. QED
        BY <3>4, <4>1, <4>2, ElementOfSeq
    <3>6. Parse(r, b) = t
      BY <1>4, <3>2, <3>4 DEF Parse
    <3>7. t = [r EXCEPT !.body = Append(r.body, b.v)]
      BY <3>2 DEF Take
    <3>8. /\ t.state = "CONTENT" /\ t.hdr = <<>> /\ t.channel = r.channel /\ t.len = r.len
          /\ t.body = Append(r.body, b.v)
      BY <1>4, <3>2, <3>7 DEF RxType
    <3>9. Len(t.body) = k - 3 /\ \A j \in 1..(k - 3) : t.body[j] = item.body[j]
      <4>1. r.body \in Seq(Nat) /\ b.v \in Nat
        BY <1>4, <3>5 DEF RxType
      <4> HIDE DEF item, t
      <4>2. /\ Len(Append(r.body, b.v)) = Len(r.body) + 1
            /\ Append(r.body, b.v)[Len(r.body) + 1] = b.v
            /\ \A j \in 1..Len(r.body) : Append(r.body, b.v)[j] = r.body[j]
        BY ONLY <4>1, AppendProperties
      <4>3. QED
        BY <3>2, <3>4, <3>5, <3>8, <4>2
    <3> HIDE DEF t, item
    <3>10. QED
      BY <2>4, <3>1, <3>2, <3>4, <3>6, <3>8, <3>9 DEF Position
  <2>5. QED
    BY <1>2, <1>4, <2>1, <2>2, <2>3, <2>4
<1>7. QED
  BY <1>2, <1>5, <1>6 DEF Within

LEMMA BodiesKept ==
  ASSUME dropped' = dropped
  PROVE  \A C : Bodies(C)' = Bodies(C)
BY DEF Bodies, Carried

LEMMA ParsedKept ==
  ASSUME dropped' = dropped, Parsed(rx', Read')
  PROVE  Parsed(rx, Read)'
<1>1. \A m : Emitted(rx', m) => Emitted(rx, m)'
  BY BodiesKept DEF Emitted
<1>2. ASSUME Seeking(rx', Read') PROVE Seeking(rx, Read)'
  BY <1>2 DEF Seeking
<1>3. ASSUME NEW i \in 1..Len(Stream), Within(rx', Read', i) PROVE Within(rx, Read, i)'
  BY <1>1, <1>3 DEF Within
<1>4. QED
  BY <1>2, <1>3 DEF Parsed

(* The end of an item: the next byte finds it out.                         *)
LEMMA TextEnds ==
  ASSUME NEW r \in Parsing, NEW i \in 1..Len(Stream), NEW p \in Int, Within(r, p, i),
         p = Offset[i + 1], Stream[i].text
  PROVE  Ready(r) /\ Emitted(r, i) /\ \A b : Parse(r, b) = Take(r, b)
<1>1. r.state = "MESSAGE" /\ r.hdr = <<>> /\ r.body = <<>> /\ Emitted(r, i - 1)
  BY DEF Within, Position
<1>2. \A C : Bodies(C)[i] = Bodies(C)[i - 1]
  BY BodiesOf DEF Carried
<1>3. QED
  BY <1>1, <1>2 DEF Ready, Emitted, Parse

LEMMA PacketEnds ==
  ASSUME NEW r \in Parsing, NEW i \in 1..Len(Stream), NEW p \in Int, Within(r, p, i),
         p = Offset[i + 1], ~Stream[i].text, dropped \in Nat,
         NEW q, q = Forget(Delivered(r))
  PROVE  q \in RxType /\ Ready(q) /\ Emitted(q, i) /\ \A b : Parse(r, b) = Take(q, b)
<1> DEFINE item == Stream[i]
           d == Delivered(r)
           x == item.body
           VideoOnly == {VideoChannel}
<1>1. /\ r \in RxType /\ x \in Seq(Nat) /\ Len(x) \in Nat
      /\ Offset[i + 1] = Offset[i] + (4 + Len(x)) /\ Offset[i] \in Nat
  <2>1. i \in 1..(Len(Stream) + 1)
    BY StreamItems
  <2>2. QED
    BY SMTT(20), <2>1, OffsetNext, ItemShape DEF Parsing, Items
<1>2. p - Offset[i] = 4 + Len(x) /\ 4 + Len(x) >= 4 /\ (4 + Len(x)) - 4 = Len(x)
  BY ONLY <1>1, p = Offset[i + 1]
<1>3. /\ r.state = "CONTENT" /\ r.hdr = <<>> /\ r.channel = item.channel
      /\ r.len = Len(x) /\ Len(r.body) = Len(x) /\ \A j \in 1..Len(x) : r.body[j] = x[j]
      /\ Emitted(r, i - 1) /\ Offset[i] >= dropped
  <2>1. Position(r, item, 4 + Len(x)) /\ Emitted(r, i - 1) /\ Offset[i] >= dropped
    BY <1>2 DEF Within
  <2>2. QED
    BY <1>2, <2>1 DEF Position
<1>4. r.body = x
  <2>1. r.body \in Seq(Nat)
    BY <1>1 DEF RxType
  <2> HIDE DEF x
  <2>2. QED
    BY ONLY <1>1, <1>3, <2>1, SeqEqual
<1>5. /\ \A C : Carried(i, C) <=> r.channel \in C
      /\ \A C : Bodies(C)[i] = IF r.channel \in C THEN Append(Bodies(C)[i - 1], x)
                               ELSE Bodies(C)[i - 1]
  BY <1>3, BodiesOf DEF Carried
<1> DEFINE e == IF r.channel = VideoChannel THEN Depacketise(r, x) ELSE r
           packets == IF r.channel \in Heard THEN Append(e.packets, x) ELSE e.packets
<1>6. d = [e EXCEPT !.packets = packets]
  BY <1>4 DEF Delivered, Heard
<1>7. e \in RxType /\ e.hdr = <<>> /\ e.packets = r.packets
  BY <1>1, <1>3, DepacketiseType, DepacketiserKeeps
<1>8. d \in RxType
  BY <1>1, DeliveredType
<1> HIDE DEF packets, e
<1>9. /\ d.hdr = <<>> /\ d.packets = packets /\ d.ready = e.ready /\ d.units = e.units
      /\ d.started = e.started /\ d.nal = e.nal
  BY <1>6, <1>7 DEF RxType
<1> HIDE DEF d
<1>10. q = [d EXCEPT !.state = "EMPTY", !.len = 0, !.body = <<>>]
  BY DEF Forget, d
<1>11. /\ q \in RxType /\ q.state = "EMPTY" /\ q.hdr = <<>> /\ q.body = <<>>
       /\ q.packets = packets /\ q.ready = e.ready /\ q.units = e.units
       /\ q.started = e.started /\ q.nal = e.nal
  <2>1. <<>> \in Seq(Nat) /\ 0 \in Nat /\ "EMPTY" \in {"EMPTY", "HEADER", "CONTENT", "MESSAGE"}
    OBVIOUS
  <2>2. q \in RxType
    BY <1>8, <1>10, <2>1 DEF RxType
  <2>3. QED
    BY <1>8, <1>9, <1>10, <2>2 DEF RxType
<1>12. q.packets = Bodies(Heard)[i]
  <2>1. r.packets = Bodies(Heard)[i - 1]
    BY <1>3 DEF Emitted
  <2>2. QED
    BY <1>5, <1>7, <1>11, <2>1 DEF packets
<1>13. ASSUME FragmentsTogether PROVE Depacketised(q, Bodies(VideoOnly)[i])
  <2> DEFINE v == Bodies(VideoOnly)[i - 1]
  <2>1. Depacketised(r, v)
    BY <1>3, <1>13 DEF Emitted
  <2>2. v \in Seq(Seq(Nat))
    <3>1. i - 1 \in 0..Len(Stream)
      BY StreamItems
    <3>2. QED
      BY <3>1, BodiesOf
  <2>3. CASE r.channel = VideoChannel
    <3>1. Carried(i, VideoOnly) /\ Bodies(VideoOnly)[i] = Append(v, x)
      BY <1>5, <2>3
    <3>2. x # <<>> /\ (v # <<>> /\ v[Len(v)][1] \in {Start, Middle} => x[1] \in {Middle, End})
      BY <1>13, <3>1, Together
    <3> HIDE DEF v, x
    <3>3. Depacketised(Depacketise(r, x), Append(v, x))
      BY <1>1, <2>1, <2>2, <3>2, DepacketisedNext
    <3>4. e = Depacketise(r, x)
      BY <2>3 DEF e
    <3>5. Depacketised(e, Append(v, x))
      BY <3>3, <3>4
    <3>6. Depacketised(q, Append(v, x))
      BY <1>11, <3>5 DEF Depacketised
    <3>7. QED
      BY <3>1, <3>6
  <2>4. CASE r.channel # VideoChannel
    <3>1. Bodies(VideoOnly)[i] = v
      BY <1>5, <2>4
    <3>2. e = r
      BY <2>4 DEF e
    <3>3. Depacketised(q, v)
      BY <1>11, <2>1, <3>2 DEF Depacketised
    <3>4. QED
      BY <3>1, <3>3
  <2>5. QED
    BY <2>3, <2>4
<1>14. \A b : Parse(r, b) = Take(q, b)
  <2>1. Len(r.body) >= r.len
    BY <1>1, <1>3
  <2>2. QED
    BY <1>3, <2>1 DEF Parse, d
<1>15. QED
  BY <1>11, <1>12, <1>13, <1>14 DEF Ready, Emitted

(* One byte more.                                                          *)
LEMMA ParsedByte ==
  ASSUME NEW r \in Parsing, NEW p \in Int, dropped \in Nat, CleanCut, Parsed(r, p), NEW b,
         \/ p = -1 /\ dropped = 0 /\ b = Line("blank", 0)
         \/ dropped <= p /\ p < Len(StreamBytes) /\ b = StreamBytes[p + 1]
  PROVE  Parsed(Parse(r, b), p + 1)
<1>1. /\ r \in RxType /\ Len(Stream) \in Nat /\ DOMAIN Stream = 1..Len(Stream)
      /\ \A i \in 1..Len(Stream) :
           /\ Offset[i] \in Nat /\ Offset[i + 1] \in Nat /\ Len(Bytes(Stream[i])) \in Nat
           /\ Len(Bytes(Stream[i])) >= 2
           /\ Offset[i + 1] = Offset[i] + Len(Bytes(Stream[i]))
           /\ i \in 1..(Len(Stream) + 1) /\ i + 1 \in 1..(Len(Stream) + 1)
  <2>1. \A i \in 1..Len(Stream) : i \in 1..(Len(Stream) + 1) /\ i + 1 \in 1..(Len(Stream) + 1)
    BY StreamItems
  <2>2. QED
    BY <2>1, StreamItems, OffsetNext, BytesLength DEF Parsing
<1>2. CASE Seeking(r, p)
  <2>1. /\ Ready(r) /\ r.packets = <<>> /\ Depacketised(r, <<>>)
        /\ \A i \in 1..Len(Stream) : Offset[i] >= dropped => p <= Offset[i]
        /\ \A c : Parse(r, c) = Take(r, c)
    BY <1>2 DEF Seeking, Ready, Parse
  <2>2. ASSUME b # Byte(Dollar),
               \A i \in 1..Len(Stream) : Offset[i] >= dropped => p + 1 <= Offset[i]
        PROVE  Parsed(Parse(r, b), p + 1)
    <3> DEFINE t == Take(r, b)
    <3>1. t = [r EXCEPT !.state = "MESSAGE"]
      BY <2>1, <2>2 DEF Take, Ready
    <3>2. Ready(t) /\ t.packets = <<>>
      BY <1>1, <2>1, <3>1 DEF Ready, RxType
    <3>3. Depacketised(t, <<>>)
      BY <1>1, <2>1, TakeSame, SameGiven
    <3> HIDE DEF t
    <3>4. Seeking(t, p + 1)
      BY <2>2, <3>2, <3>3 DEF Seeking
    <3>5. QED
      BY <2>1, <3>4 DEF Parsed, t
  <2>3. CASE p = -1 /\ dropped = 0 /\ b = Line("blank", 0)
    <3>1. b # Byte(Dollar)
      BY <2>3 DEF Byte, Line
    <3>2. \A i \in 1..Len(Stream) : p + 1 <= Offset[i]
      BY <1>1, <2>3
    <3>3. QED
      BY <2>2, <3>1, <3>2
  <2>4. CASE dropped <= p /\ p < Len(StreamBytes) /\ b = StreamBytes[p + 1]
    <3>1. PICK i \in 1..Len(Stream) : Offset[i] <= p /\ p < Offset[i + 1]
      <4>1. p \in Nat
        BY <2>4
      <4>2. QED
        BY <2>4, <4>1, ItemOf
    <3>2. CASE Offset[i] >= dropped
      <4>1. p = Offset[i]
        BY <1>1, <2>1, <3>1, <3>2
      <4>2. b = Bytes(Stream[i])[1]
        <5>1. 1 \in 1..Len(Bytes(Stream[i]))
          BY <1>1
        <5>2. QED
          BY <2>4, <4>1, <5>1, ItemBytes
      <4>3. ASSUME NEW j \in 1..(i - 1), NEW C PROVE ~Carried(j, C)
        <5>1. j \in 1..Len(Stream) /\ j < i
          BY <1>1
        <5>2. Offset[j] < Offset[i] /\ Offset[j] \in Nat
          BY <1>1, <5>1, OffsetsRise
        <5>3. ~(Offset[j] >= dropped)
          BY <1>1, <2>1, <4>1, <5>1, <5>2
        <5>4. QED
          BY <5>3 DEF Carried
      <4>4. \A C : Bodies(C)[i - 1] = <<>>
        <5>1. i - 1 \in 0..Len(Stream)
          BY <1>1
        <5>2. QED
          BY <4>3, <5>1, NoBodies
      <4>5. Emitted(r, i - 1)
        BY <2>1, <4>4 DEF Emitted
      <4>6. Within(Take(r, b), Offset[i] + 1, i)
        BY <1>1, <2>1, <3>2, <4>2, <4>5, ItemBegins
      <4>7. QED
        BY <2>1, <4>1, <4>6 DEF Parsed
    <3>3. CASE Offset[i] < dropped
      <4>1. p + 1 \in (dropped + 1)..Offset[i + 1]
        BY <1>1, <2>4, <3>1
      <4>2. b # Byte(Dollar)
        BY <1>1, <2>4, <3>3, <4>1 DEF CleanCut
      <4>3. ASSUME NEW j \in 1..Len(Stream), Offset[j] >= dropped PROVE p + 1 <= Offset[j]
        <5>1. i < j
          <6>1. ~(j = i)
            BY <1>1, <3>3, <4>3
          <6>2. ~(j < i)
            <7>1. j < i => Offset[j] < Offset[i]
              BY <1>1, OffsetsRise
            <7>2. QED
              BY <1>1, <3>3, <4>3, <7>1
          <6>3. QED
            BY <1>1, <6>1, <6>2
        <5>2. Offset[i + 1] <= Offset[j]
          BY <1>1, <5>1, OffsetsRise
        <5>3. p < Offset[i + 1] /\ Offset[i + 1] \in Nat /\ Offset[j] \in Nat /\ p \in Int
          BY <1>1, <3>1
        <5>4. QED
          BY ONLY <5>2, <5>3
      <4>4. QED
        BY <2>2, <4>2, <4>3
    <3>4. QED
      BY <1>1, <3>2, <3>3
  <2>5. QED
    BY <2>3, <2>4
<1>3. ASSUME NEW i \in 1..Len(Stream), Within(r, p, i)
      PROVE  Parsed(Parse(r, b), p + 1)
  <2>1. Offset[i] >= dropped /\ Offset[i] < p /\ p <= Offset[i + 1]
    BY <1>3 DEF Within
  <2>2. p \in Nat \ {0} /\ p < Len(StreamBytes) /\ b = StreamBytes[p + 1]
    BY <1>1, <2>1
  <2>3. CASE p < Offset[i + 1]
    <3>1. p + 1 - Offset[i] \in 1..Len(Bytes(Stream[i])) /\ Offset[i] + (p + 1 - Offset[i]) = p + 1
      <4>1. Offset[i + 1] = Offset[i] + Len(Bytes(Stream[i])) /\ Offset[i] \in Nat
            /\ Len(Bytes(Stream[i])) \in Nat /\ p \in Nat
        BY <1>1, <2>2
      <4>2. QED
        BY ONLY <2>1, <2>3, <4>1
    <3>2. b = Bytes(Stream[i])[p + 1 - Offset[i]]
      BY <2>2, <3>1, ItemBytes
    <3>3. Within(Parse(r, b), p + 1, i)
      BY <1>3, <2>3, <3>2, ItemGoesOn
    <3>4. QED
      BY <3>3 DEF Parsed
  <2>4. CASE p = Offset[i + 1]
    <3>1. i + 1 \in 1..Len(Stream)
      <4>1. i # Len(Stream)
        BY <2>2, <2>4, OffsetNext
      <4>2. Len(Stream) \in Nat /\ i \in 1..Len(Stream)
        BY <1>1
      <4>3. QED
        BY ONLY <4>1, <4>2
    <3>2. PICK q \in RxType : Ready(q) /\ Emitted(q, i) /\ \A c : Parse(r, c) = Take(q, c)
      <4>1. CASE Stream[i].text
        <5>1. Ready(r) /\ Emitted(r, i) /\ \A c : Parse(r, c) = Take(r, c)
          BY <1>3, <2>4, <4>1, TextEnds
        <5>2. QED
          BY <1>1, <5>1
      <4>2. CASE ~Stream[i].text
        <5> DEFINE q == Forget(Delivered(r))
        <5>1. q \in RxType /\ Ready(q) /\ Emitted(q, i) /\ \A c : Parse(r, c) = Take(q, c)
          BY <1>3, <2>4, <4>2, PacketEnds
        <5> HIDE DEF q
        <5>2. QED
          BY <5>1
      <4>3. QED
        BY <4>1, <4>2
    <3>3. b = Bytes(Stream[i + 1])[1]
      <4>1. 1 \in 1..Len(Bytes(Stream[i + 1])) /\ Offset[i + 1] + 1 = p + 1
        BY <1>1, <2>4, <3>1
      <4>2. StreamBytes[Offset[i + 1] + 1] = Bytes(Stream[i + 1])[1]
        BY <3>1, <4>1, ItemBytes
      <4>3. QED
        BY <2>2, <4>1, <4>2
    <3>4. Offset[i + 1] >= dropped /\ (i + 1) - 1 = i
      BY <1>1, <2>1
    <3>5. Within(Take(q, b), Offset[i + 1] + 1, i + 1)
      BY <3>1, <3>2, <3>3, <3>4, ItemBegins
    <3>6. QED
      BY <2>4, <3>1, <3>2, <3>5 DEF Parsed
  <2>5. QED
    BY <1>1, <2>1, <2>3, <2>4
<1>4. QED
  BY <1>2, <1>3 DEF Parsed

(* What the parser holds while it plays.                                   *)
ParsedInv == stat = "PLAYING" /\ CleanCut => Parsed(rx, Read)

(* Only the answer to PLAY makes the client play.                          *)
LEMMA ParsedRead ==
  ASSUME Dialogue, Exchange, rx \in Parsing, ParsedInv, CleanCut, ReadPacketTcp
  PROVE  Parsed(rx', Read')
<1>1. ClientTypes /\ stat = "PLAYING" /\ wire \in Seq(Good) /\ dropped \in Nat
  BY DEF Dialogue, ClientTypes, ReadPacketTcp
<1>2. PICK n \in 1..Len(wire) : \E f :
        /\ n \in Nat /\ f[0] = rx /\ rx' = f[n] /\ wire' = SubSeq(wire, n + 1, Len(wire))
        /\ \A i \in 0..n : f[i] \in Parsing
        /\ \A i \in 1..n : f[i] = Parse(f[i - 1], wire[i])
  BY <1>1, BytesParsed
<1> PICK f : /\ n \in Nat /\ f[0] = rx /\ rx' = f[n] /\ wire' = SubSeq(wire, n + 1, Len(wire))
             /\ \A i \in 0..n : f[i] \in Parsing
             /\ \A i \in 1..n : f[i] = Parse(f[i - 1], wire[i])
  BY <1>2
<1>3. Streaming /\ Parsed(rx, Read)
  BY <1>1 DEF Exchange, ParsedInv
<1>4. Len(wire) \in Nat /\ Read \in Int /\ Read' = Read + n
  BY <1>1, <1>2, BytesRead
<1>5. /\ Len(StreamBytes) \in Nat /\ Read = Len(StreamBytes) - Len(wire)
      /\ DOMAIN wire = 1..Len(wire)
  BY <1>1, LenProperties, StreamLines DEF Read
<1>6. dropped <= Read \/ (Read = -1 /\ dropped = 0 /\ wire[1] = Line("blank", 0))
  BY <1>3 DEF Streaming
<1>7. \A j \in 1..Len(wire) : Read + j >= 1 => wire[j] = StreamBytes[Read + j]
  BY <1>3, <1>5 DEF Streaming
<1> DEFINE T == {k \in Nat : k <= n => Parsed(f[k], Read + k)}
<1>8. 0 \in T
  <2>1. Read + 0 = Read
    BY ONLY <1>4
  <2>2. QED
    BY <1>2, <1>3, <2>1
<1>9. ASSUME NEW k \in Nat, k \in T PROVE k + 1 \in T
  <2> SUFFICES ASSUME k + 1 <= n PROVE Parsed(f[k + 1], Read + (k + 1))
    OBVIOUS
  <2>1. k \in 0..n /\ k + 1 \in 1..n /\ k + 1 \in 1..Len(wire) /\ (k + 1) - 1 = k /\ k <= n
        /\ (Read + k) + 1 = Read + (k + 1) /\ Read + k \in Int /\ k \in Nat
    <3>1. k \in Nat /\ n \in Nat /\ n \in 1..Len(wire) /\ k + 1 <= n
      BY <1>2
    <3>2. QED
      BY ONLY <1>4, <3>1
  <2>2. Parsed(f[k], Read + k)
    BY <1>9, <2>1
  <2>3. f[k] \in Parsing /\ f[k + 1] = Parse(f[k], wire[k + 1])
    BY <1>2, <2>1
  <2>4. \/ Read + k = -1 /\ dropped = 0 /\ wire[k + 1] = Line("blank", 0)
        \/ /\ dropped <= Read + k /\ Read + k < Len(StreamBytes)
           /\ wire[k + 1] = StreamBytes[(Read + k) + 1]
    <3>1. dropped \in Nat
      BY <1>1
    <3>2. dropped <= Read \/ (Read = -1 /\ dropped = 0)
      BY <1>6
    <3>3. CASE Read + k = -1
      <4>1. k = 0 /\ Read = -1
        BY ONLY <1>4, <2>1, <3>1, <3>2, <3>3
      <4>2. dropped = 0 /\ wire[1] = Line("blank", 0)
        <5>1. ~(dropped <= Read)
          BY ONLY <3>1, <4>1
        <5>2. QED
          BY <1>6, <5>1
      <4>3. k + 1 = 1
        BY <4>1
      <4>4. QED
        BY <3>3, <4>2, <4>3
    <3>4. CASE Read + k # -1
      <4>1. dropped <= Read + k /\ Read + k < Len(StreamBytes) /\ Read + (k + 1) >= 1
        <5>1. Len(wire) \in Nat /\ Len(StreamBytes) \in Nat /\ Read = Len(StreamBytes) - Len(wire)
              /\ k \in Nat /\ k + 1 <= Len(wire) /\ Read \in Int
          BY <1>4, <1>5, <2>1
        <5>2. CASE dropped <= Read
          BY ONLY <3>1, <5>1, <5>2
        <5>3. CASE Read = -1 /\ dropped = 0
          <6>1. k >= 1
            BY ONLY <3>4, <5>1, <5>3
          <6>2. QED
            BY ONLY <5>1, <5>3, <6>1
        <5>4. QED
          BY <3>2, <5>2, <5>3
      <4>2. wire[k + 1] = StreamBytes[Read + (k + 1)]
        BY <1>7, <2>1, <4>1
      <4>3. QED
        BY <2>1, <4>1, <4>2
    <3>5. QED
      BY <3>3, <3>4
  <2> HIDE DEF T
  <2>5. Parsed(Parse(f[k], wire[k + 1]), (Read + k) + 1)
    BY <1>1, <2>1, <2>2, <2>3, <2>4, ParsedByte
  <2>6. QED
    BY <2>1, <2>3, <2>5
<1>10. n \in T
  <2>1. T \subseteq Nat
    OBVIOUS
  <2> HIDE DEF T
  <2>2. QED
    BY <1>2, <1>8, <1>9, <2>1, SetInduction
<1>11. Parsed(f[n], Read + n)
  <2>1. n <= n
    BY <1>2
  <2>2. QED
    BY <1>10, <2>1
<1>12. QED
  BY <1>2, <1>4, <1>11

LEMMA CleanCutKept ==
  ASSUME dropped' = dropped
  PROVE  CleanCut' = CleanCut
BY DEF CleanCut

(* Nothing was given of an empty sequence of bodies.                       *)
LEMMA BegunEmpty ==
  ASSUME NEW r, r.nal = <<>>, ~r.started, ~r.ready, r.ready \in BOOLEAN, r.units = <<>>
  PROVE  Depacketised(r, <<>>)
<1>1. Len(<<>>) = 0 /\ 1..0 = {}
  OBVIOUS
<1>2. SpsIn(<<>>) = {}
  BY <1>1 DEF SpsIn
<1>3. UnitsOf(<<>>) = <<>>
  BY <1>2, UnitsFrom
<1>4. QED
  BY <1>1, <1>2, <1>3 DEF Depacketised

LEMMA ParsedStep ==
  ASSUME Dialogue, Exchange, rx \in Parsing, ParsedInv, [ClientNext]_clientVars
  PROVE  ParsedInv'
<1> SUFFICES ASSUME stat' = "PLAYING", CleanCut' PROVE Parsed(rx, Read)'
  BY DEF ParsedInv
<1>1. CASE ReadPacketTcp
  <2>1. dropped' = dropped
    BY <1>1 DEF ReadPacketTcp
  <2>2. CleanCut
    BY <2>1, CleanCutKept
  <2>3. QED
    BY <1>1, <2>1, <2>2, ParsedRead, ParsedKept
<1>2. CASE Decode
  <2>1. /\ rx' = rx /\ Begun
        /\ dropped' = Read' \/ (Read' = -1 /\ dropped' = 0)
    BY <1>2, PlayBegins
  <2>2. Depacketised(rx, <<>>)
    <3>1. rx.ready \in BOOLEAN
      BY DEF Parsing, RxType
    <3>2. rx.nal = <<>> /\ ~rx.started /\ ~rx.ready /\ rx.units = <<>>
      BY <2>1 DEF Begun
    <3>3. QED
      BY <3>1, <3>2, BegunEmpty
  <2>3. Ready(rx) /\ rx.packets = <<>>
    <3>1. rx.state = "EMPTY" /\ rx.hdr = <<>> /\ rx.body = <<>> /\ rx.packets = <<>>
      BY <2>1 DEF Begun
    <3>2. QED
      BY <3>1 DEF Ready
  <2>4. ASSUME NEW i \in 1..Len(Stream), Offset[i] >= dropped' PROVE Read' <= Offset[i]
    <3>1. Offset[i] \in Nat
      <4>1. i \in 1..(Len(Stream) + 1)
        BY StreamItems
      <4>2. QED
        BY <4>1, OffsetNext
    <3>2. QED
      BY <2>1, <2>4, <3>1
  <2>5. Seeking(rx, Read)'
    <3>1. Depacketised(rx', <<>>) /\ Ready(rx') /\ rx'.packets = <<>>
      BY <2>1, <2>2, <2>3
    <3>2. QED
      BY <2>4, <3>1 DEF Seeking
  <2>6. QED
    BY <2>5 DEF Parsed
<1>3. CASE Receive \/ ReceiveCut \/ ServerAnswers \/ Break \/ UNCHANGED clientVars
  <2>1. /\ dropped' = dropped /\ rx' = rx /\ stat = "PLAYING"
        /\ UNCHANGED <<stat>>
    BY <1>3 DEF Receive, ReceiveCut, Come, ServerAnswers, Break, Fail, clientVars, dialogue
  <2>2. Streaming
    BY <2>1 DEF Exchange
  <2>3. wire' = wire
    <3>1. todo = "step" /\ served = Len(asked)
      BY <2>2 DEF Streaming
    <3>2. Len(asked) \in Nat
      BY LenProperties DEF Dialogue, ClientTypes
    <3>3. ~Receive /\ ~ReceiveCut /\ ~ServerAnswers
      BY <3>1, <3>2 DEF Receive, ReceiveCut, ServerAnswers
    <3>4. QED
      BY <1>3, <3>3 DEF Break, clientVars
  <2>4. Read' = Read
    BY <2>3 DEF Read
  <2>5. CleanCut
    BY <2>1, CleanCutKept
  <2>6. Parsed(rx', Read')
    BY <2>1, <2>4, <2>5 DEF ParsedInv
  <2>7. QED
    BY <2>1, <2>6, ParsedKept
<1>4. QED
  BY <1>1, <1>2, <1>3 DEF ClientNext, Connect

(* The items that at least one byte has followed are the first ones.       *)
LEMMA FollowedIs ==
  ASSUME stat = "PLAYING", Read \in Int
  PROVE  /\ Followed \in 0..Len(Stream)
         /\ \A i \in 1..Len(Stream) : i <= Followed <=> Offset[i + 1] < Read
<1> DEFINE F == {i \in DOMAIN Stream : Offset[i + 1] < Read}
           T == {i \in 1..(Len(Stream) + 1) : i \notin F}
<1>1. Len(Stream) \in Nat /\ DOMAIN Stream = 1..Len(Stream)
  BY StreamItems
<1>2. T \subseteq Nat /\ Len(Stream) + 1 \in T
  BY <1>1
<1>3. PICK m \in T : \A y \in T : m <= y
  <2> HIDE DEF T
  <2>1. QED
    BY <1>2, Least
<1>4. m - 1 \in 0..Len(Stream) /\ m - 1 \in Nat /\ m \in 1..(Len(Stream) + 1)
  BY <1>1, <1>3
<1>5. ASSUME NEW i \in 1..Len(Stream) PROVE i <= m - 1 <=> i \in F
  <2>1. i <= m - 1 => i \in F
    <3> SUFFICES ASSUME i <= m - 1, i \notin F PROVE FALSE
      OBVIOUS
    <3>1. i \in T
      BY <1>1
    <3>2. m <= i
      BY <1>3, <3>1
    <3>3. QED
      BY <1>1, <1>4, <3>2
  <2>2. i \in F => i <= m - 1
    <3> SUFFICES ASSUME i \in F, ~(i <= m - 1) PROVE FALSE
      OBVIOUS
    <3>1. m <= i /\ m \in 1..Len(Stream)
      BY <1>1, <1>4
    <3>2. Offset[i + 1] < Read /\ ~(Offset[m + 1] < Read)
      <4>1. m \notin F /\ m \in DOMAIN Stream
        BY <1>1, <1>3, <3>1
      <4>2. QED
        BY <4>1
    <3>3. m + 1 \in 1..(Len(Stream) + 1) /\ i + 1 \in 1..(Len(Stream) + 1) /\ (m = i \/ m + 1 < i + 1)
      BY <1>1, <3>1
    <3>4. Offset[m + 1] <= Offset[i + 1] /\ Offset[m + 1] \in Nat /\ Offset[i + 1] \in Nat
      <4>1. Offset[m + 1] \in Nat /\ Offset[i + 1] \in Nat
        BY <3>3, OffsetNext
      <4>2. m = i => Offset[m + 1] <= Offset[i + 1]
        BY <4>1
      <4>3. m + 1 < i + 1 => Offset[m + 1] < Offset[i + 1]
        BY <3>3, OffsetsRise
      <4>4. QED
        BY <3>3, <4>1, <4>2, <4>3
    <3>5. QED
      BY ONLY Read \in Int, <3>2, <3>4
  <2>3. QED
    BY <2>1, <2>2
<1>6. F = 1..(m - 1)
  <2>1. F \subseteq 1..Len(Stream)
    BY <1>1
  <2> HIDE DEF F, T
  <2>2. \A i \in 1..(m - 1) : i \in 1..Len(Stream) /\ i <= m - 1
    BY <1>1, <1>4
  <2>3. \A i \in F : i \in 1..(m - 1)
    BY <1>4, <1>5, <2>1
  <2>4. \A i \in 1..(m - 1) : i \in F
    BY <1>5, <2>2
  <2>5. QED
    BY <2>3, <2>4
<1>7. Followed = m - 1
  <2>1. Followed = Cardinality(F)
    BY DEF Followed
  <2> HIDE DEF F, T
  <2>2. Cardinality(1..(m - 1)) = m - 1
    <3>1. 1 \in Int /\ m - 1 \in Int /\ (1 > m - 1 \/ 1 <= m - 1)
      BY <1>4
    <3>2. Cardinality(1..(m - 1)) = IF 1 > m - 1 THEN 0 ELSE (m - 1) - 1 + 1
      BY <3>1, FS_Interval
    <3>3. QED
      BY <1>4, <3>2
  <2>3. QED
    BY <1>6, <2>1, <2>2
<1>8. \A i \in 1..Len(Stream) : i \in F <=> Offset[i + 1] < Read
  BY <1>1
<1> HIDE DEF F, T
<1>9. QED
  BY <1>4, <1>5, <1>7, <1>8

LEMMA WholeOf ==
  ASSUME Dialogue, Exchange, rx \in Parsing, ParsedInv, CleanCut
  PROVE  Emitted(rx, Followed)
<1>1. Len(Stream) \in Nat /\ dropped \in Nat /\ rx.ready \in BOOLEAN
  BY StreamItems DEF Dialogue, ClientTypes, Parsing, RxType
<1>2. CASE stat # "PLAYING"
  <2>1. Followed = 0 /\ Begun
    BY <1>2 DEF Followed, Exchange
  <2>2. \A C : Bodies(C)[0] = <<>>
    BY BodiesOf
  <2>3. rx.packets = <<>> /\ rx.nal = <<>> /\ ~rx.started /\ ~rx.ready /\ rx.units = <<>>
    BY <2>1 DEF Begun
  <2>4. Depacketised(rx, <<>>)
    BY <1>1, <2>3, BegunEmpty
  <2>5. QED
    BY <2>1, <2>2, <2>3, <2>4 DEF Emitted
<1>3. CASE stat = "PLAYING"
  <2>1. Read \in Int
    <3>1. Len(wire) \in Nat /\ Len(StreamBytes) \in Nat
      BY LenProperties, StreamLines DEF Dialogue, ClientTypes
    <3>2. QED
      BY <3>1 DEF Read
  <2>2. /\ Followed \in 0..Len(Stream)
        /\ \A i \in 1..Len(Stream) : i <= Followed <=> Offset[i + 1] < Read
    BY <1>3, <2>1, FollowedIs
  <2>3. ASSUME NEW i \in 1..Len(Stream), Within(rx, Read, i)
        PROVE  Emitted(rx, Followed)
    <3>1. Offset[i] < Read /\ Read <= Offset[i + 1] /\ Emitted(rx, i - 1)
          /\ Offset[i + 1] \in Nat
      <4>1. i + 1 \in 1..(Len(Stream) + 1)
        BY <1>1
      <4>2. QED
        BY <2>3, <4>1, OffsetNext DEF Within
    <3>2. ~(i <= Followed)
      BY <2>1, <2>2, <3>1
    <3>3. i # 1 => i - 1 <= Followed
      <4> SUFFICES ASSUME i # 1 PROVE i - 1 <= Followed
        OBVIOUS
      <4>1. i - 1 \in 1..Len(Stream) /\ (i - 1) + 1 = i
        BY <1>1
      <4>2. QED
        BY <2>2, <3>1, <4>1
    <3>4. Followed = i - 1
      <4>1. Followed \in 0..Len(Stream) /\ i \in 1..Len(Stream)
        BY <2>2
      <4>2. QED
        BY ONLY <1>1, <3>2, <3>3, <4>1
    <3>5. QED
      BY <3>1, <3>4
  <2>4. ASSUME Seeking(rx, Read) PROVE Emitted(rx, Followed)
    <3>1. ASSUME NEW i \in 1..Followed, NEW C PROVE ~Carried(i, C)
      <4>1. i \in 1..Len(Stream) /\ i <= Followed
        BY <1>1, <2>2
      <4>2. Offset[i + 1] < Read
        BY <2>2, <4>1
      <4>3. /\ i \in 1..(Len(Stream) + 1) /\ i + 1 \in 1..(Len(Stream) + 1) /\ i < i + 1
        BY <1>1, <4>1
      <4>4. Offset[i] \in Nat /\ Offset[i + 1] \in Nat /\ Offset[i] < Offset[i + 1]
        BY <4>3, OffsetNext, OffsetsRise
      <4>5. Offset[i] >= dropped => Read <= Offset[i]
        BY <2>4, <4>1 DEF Seeking
      <4>6. ~(Offset[i] >= dropped)
        BY ONLY <2>1, <4>2, <4>4, <4>5
      <4>7. QED
        BY <4>6 DEF Carried
    <3>2. \A C : Bodies(C)[Followed] = <<>>
      BY <2>2, <3>1, NoBodies
    <3>3. rx.packets = <<>> /\ Depacketised(rx, <<>>)
      BY <2>4 DEF Seeking
    <3>4. QED
      BY <3>2, <3>3 DEF Emitted
  <2>5. Parsed(rx, Read)
    BY <1>3 DEF ParsedInv
  <2>6. QED
    BY <2>3, <2>4, <2>5 DEF Parsed
<1>4. QED
  BY <1>2, <1>3

(* What the client knows, what is on the wire, and what the parser holds.  *)
Receiving == Dialogue /\ rx \in Parsing /\ Exchange /\ ParsedInv

LEMMA ReceivingInvariant == ClientSafeSpec => []Receiving
<1>1. ClientInit => Receiving
  <2>1. ClientInit => ParsedInv
    BY DEF ClientInit, ParsedInv
  <2>2. QED
    BY <2>1, InitDialogue, ParsingInit, InitExchange DEF Receiving
<1>2. Receiving /\ [ClientNext]_clientVars => Receiving'
  BY DialogueStep, ExchangeStep, ParsedStep DEF Receiving
<1>3. QED
  BY <1>1, <1>2, PTL DEF ClientSafeSpec

(* However TCP cuts the answers and the stream, the packets given to the   *)
(* depacketisers are, whole and in order, those of their channels behind   *)
(* what Connect left in its buffer (PacketsWhole: ReadPacketTcp of         *)
(* rtsp_client.cpp), unless the rest of the packet that was cut there      *)
(* holds a '$'.                                                            *)
THEOREM PacketsAreWhole ==
  ClientSafeSpec => [](CleanCut => PacketsWhole)
<1>1. Receiving => (CleanCut => PacketsWhole)
  <2> SUFFICES ASSUME Receiving, CleanCut PROVE PacketsWhole
    OBVIOUS
  <2>1. Emitted(rx, Followed)
    BY WholeOf DEF Receiving
  <2>2. QED
    BY <2>1 DEF Emitted, Heard, PacketsWhole
<1>2. QED
  BY <1>1, ReceivingInvariant, PTL

(* And when the fragments of a unit follow each other, as RFC 6184 has it, *)
(* the units given to the proxy are those of these packets (StreamWhole:   *)
(* ReadPacketTcp, H264Demuxer::InputData and OnVideoData): none is joined  *)
(* from two, none is cut, and none comes before an SPS.                    *)
THEOREM StreamIsWhole ==
  FragmentsTogether => (ClientSafeSpec => []StreamWhole)
<1> SUFFICES ASSUME FragmentsTogether PROVE ClientSafeSpec => []StreamWhole
  OBVIOUS
<1>1. Receiving => StreamWhole
  <2> SUFFICES ASSUME Receiving, CleanCut PROVE PacketsWhole /\ UnitsWhole
    BY DEF StreamWhole
  <2>1. Emitted(rx, Followed)
    BY WholeOf DEF Receiving
  <2>2. Depacketised(rx, Bodies({VideoChannel})[Followed])
    BY <2>1 DEF Emitted
  <2>3. PacketsWhole
    BY <2>1 DEF Emitted, Heard, PacketsWhole
  <2>4. UnitsWhole
    BY <2>2 DEF Depacketised, UnitsWhole
  <2>5. QED
    BY <2>3, <2>4
<1>2. QED
  BY <1>1, ReceivingInvariant, PTL
=============================================================================
