-------------------------- MODULE OutputFile_proofs ---------------------------
(* Theorems about Muxer, for any caller, any stamps and any number of       *)
(* packets; and about OutputFile: the wrapper keeps to the order in which   *)
(* Muxer asks to be used, so that what is proved of Muxer holds of the file *)
(* the wrapper writes, for any input, any packets and any times between.    *)
EXTENDS OutputFile, TLAPS, SequenceTheorems, FiniteSetTheorems

(***************************************************************************)
(* What the stamps rest on: last[s] is at or after every stamp given so    *)
(* far, the offset is one from the first packet of all on, and before that *)
(* packet nothing has been counted.                                        *)
(***************************************************************************)
Counted == \A s \in Streams : Len(written[s]) = frames[s]
Fresh == ~findFirst => startMedia = 0 /\ \A s \in Streams : frames[s] = 0 /\ last[s] = ZeroStamp
LastIsLast ==
  \A s \in Streams : \A n \in DOMAIN written[s] : \A c \in Clocks :
    written[s][n].stamp[c] <= last[s][c]

StampInv == TypeOK /\ Counted /\ Fresh /\ OffsetIsOne /\ LastIsLast /\ StampsIncrease

LEMMA InitStamps == Init => StampInv
<1> SUFFICES ASSUME Init PROVE StampInv OBVIOUS
<1> USE DEF Init
<1>0. ZeroStamp \in [Clocks -> Int] /\ <<>> \in Seq(Packet)
      BY EmptySeq DEF ZeroStamp
<1>1. TypeOK
  <2>1. index \in [Streams -> {-1, 0, 1}] OBVIOUS
  <2>2. sets \in [SetKinds -> SUBSET SetIds] OBVIOUS
  <2>3. frames \in [Streams -> Nat] /\ startMedia \in Int OBVIOUS
  <2>4. /\ start \in [Streams -> [Clocks -> Int]]
        /\ last \in [Streams -> [Clocks -> Int]]
        BY <1>0
  <2>5. written \in [Streams -> Seq(Packet)] BY <1>0
  <2>6. /\ opened \in BOOLEAN /\ header \in BOOLEAN /\ trailer \in BOOLEAN
        /\ foundIdr \in BOOLEAN /\ findFirst \in BOOLEAN
        OBVIOUS
  <2> QED BY <2>1, <2>2, <2>3, <2>4, <2>5, <2>6 DEF TypeOK
<1>2. Counted /\ Fresh /\ OffsetIsOne BY DEF Counted, Fresh, OffsetIsOne
<1>3. \A s \in Streams : DOMAIN written[s] = {} BY EmptySeq
<1>4. LastIsLast /\ StampsIncrease BY <1>3 DEF LastIsLast, StampsIncrease
<1> QED BY <1>1, <1>2, <1>4 DEF StampInv

(***************************************************************************)
(* A stamp is after the last one of its stream, at or after its time, and  *)
(* at most two units after the later of the two.                           *)
(***************************************************************************)
LEMMA StampAfter ==
  ASSUME StampInv, NEW s \in Streams, NEW t \in [Clocks -> Int], NEW c \in Clocks
  PROVE  /\ Due(s, t, c) \in Int /\ Stamp(s, t, c) \in Int
         /\ Stamp(s, t, c) > last[s][c]
         /\ Stamp(s, t, c) >= Due(s, t, c)
         /\ Stamp(s, t, c) <= last[s][c] + 2 \/ Stamp(s, t, c) <= Due(s, t, c) + 1
         /\ ~findFirst => Stamp(s, t, c) = 1
<1> DEFINE l == last[s][c]
           d == Due(s, t, c)
           b == Behind(s, t, c)
           o == IF findFirst THEN startMedia ELSE 0
<1>1. l \in Int /\ t[c] \in Int /\ start[s][c] \in Int /\ frames[s] \in Nat
      BY DEF StampInv, TypeOK
<1>2. d \in Int BY <1>1 DEF Due
<1>3. b = IF l >= d THEN l + 1 ELSE d BY DEF Behind
<1>4. o \in {0, 1} /\ (~findFirst => o = 0)
      BY DEF StampInv, OffsetIsOne
<1>5. Stamp(s, t, c) = b + o BY DEF Stamp
<1>6. ASSUME ~findFirst PROVE l = 0 /\ d = 0
      BY <1>6 DEF StampInv, Fresh, ZeroStamp, Due
<1> HIDE DEF l, d, b, o
<1>7. /\ b + o \in Int /\ b + o > l /\ b + o >= d
      /\ b + o <= l + 2 \/ b + o <= d + 1
      BY <1>1, <1>2, <1>3, <1>4 DEF l
<1>8. ~findFirst => b + o = 1
      BY <1>3, <1>4, <1>6
<1> QED BY <1>2, <1>5, <1>7, <1>8 DEF l, d

LEMMA WriteTypes ==
  ASSUME StampInv, NEW s \in Streams, NEW t \in [Clocks -> Int], Write(s, t)
  PROVE  \E p \in Packet :
           /\ p.stamp = [c \in Clocks |-> Stamp(s, t, c)]
           /\ p.due = [c \in Clocks |-> Due(s, t, c)]
           /\ written' = [written EXCEPT ![s] = Append(@, p)]
<1>1. PICK ok \in BOOLEAN : written' = [written EXCEPT ![s] = Append(@,
        [stamp |-> [c \in Clocks |-> Stamp(s, t, c)],
         due |-> [c \in Clocks |-> Due(s, t, c)], ok |-> ok])]
      BY DEF Write
<1> DEFINE p == [stamp |-> [c \in Clocks |-> Stamp(s, t, c)],
                 due |-> [c \in Clocks |-> Due(s, t, c)], ok |-> ok]
<1>2. p.stamp \in [Clocks -> Int] /\ p.due \in [Clocks -> Int] BY StampAfter
<1>3. p \in Packet BY <1>2 DEF Packet
<1> QED BY <1>1, <1>3

LEMMA WriteKeeps ==
  ASSUME StampInv, NEW s \in Streams, NEW t \in [Clocks -> Int], Write(s, t),
         UNCHANGED <<fileVars>>, sets' \in [SetKinds -> SUBSET SetIds], foundIdr' \in BOOLEAN
  PROVE  StampInv'
<1> DEFINE stamp == [c \in Clocks |-> Stamp(s, t, c)]
<1>1. PICK p \in Packet : /\ p.stamp = stamp
                          /\ p.due = [c \in Clocks |-> Due(s, t, c)]
                          /\ written' = [written EXCEPT ![s] = Append(@, p)]
      BY WriteTypes
<1>2. /\ start' = IF frames[s] = 0 THEN [start EXCEPT ![s] = t] ELSE start
      /\ frames' = [frames EXCEPT ![s] = @ + 1]
      /\ last' = [last EXCEPT ![s] = stamp]
      /\ startMedia' = IF findFirst THEN startMedia ELSE stamp["pts"]
      /\ findFirst' = TRUE
      BY DEF Write
<1>3. \A c \in Clocks : /\ stamp[c] \in Int /\ stamp[c] > last[s][c]
                        /\ ~findFirst => stamp[c] = 1
      BY StampAfter
<1>4. stamp \in [Clocks -> Int] BY <1>3
<1>5. TypeOK /\ Counted /\ Fresh /\ OffsetIsOne /\ LastIsLast /\ StampsIncrease
      BY DEF StampInv
<1>6. "pts" \in Clocks BY DEF Clocks
<1> HIDE DEF stamp
<1>7. written[s] \in Seq(Packet) /\ Len(written[s]) \in Nat /\ frames[s] = Len(written[s])
      BY <1>5 DEF TypeOK, Counted
<1>8. /\ written'[s] = Append(written[s], p)
      /\ \A r \in Streams \ {s} : written'[r] = written[r] /\ last'[r] = last[r]
                                  /\ frames'[r] = frames[r]
      /\ last'[s] = stamp /\ frames'[s] = frames[s] + 1
      BY <1>1, <1>2, <1>5 DEF TypeOK
<1>9. /\ Len(written'[s]) = Len(written[s]) + 1
      /\ DOMAIN written'[s] = 1..(Len(written[s]) + 1)
      /\ DOMAIN written[s] = 1..Len(written[s])
      /\ written'[s] \in Seq(Packet)
      /\ \A n \in 1..Len(written[s]) : written'[s][n] = written[s][n]
      /\ written'[s][Len(written[s]) + 1] = p
      BY <1>7, <1>8, AppendProperties
<1>10. TypeOK'
  <2>1. startMedia' \in Int BY <1>2, <1>4, <1>5, <1>6 DEF TypeOK
  <2>2. start' \in [Streams -> [Clocks -> Int]] BY <1>2, <1>5 DEF TypeOK
  <2>3. last' \in [Streams -> [Clocks -> Int]] BY <1>2, <1>4, <1>5 DEF TypeOK
  <2>4. frames' \in [Streams -> Nat] BY <1>2, <1>5 DEF TypeOK
  <2>5. written' \in [Streams -> Seq(Packet)] BY <1>1, <1>5, <1>8, <1>9 DEF TypeOK
  <2>6. findFirst' \in BOOLEAN BY <1>2
  <2> QED BY <2>1, <2>2, <2>3, <2>4, <2>5, <2>6, <1>5 DEF TypeOK, fileVars
<1>11. Counted' BY <1>5, <1>8, <1>9, <1>7 DEF Counted
<1>12. Fresh' BY <1>2 DEF Fresh
<1>13. OffsetIsOne'
  <2>1. CASE findFirst BY <2>1, <1>2, <1>5 DEF OffsetIsOne
  <2>2. CASE ~findFirst BY <2>2, <1>2, <1>3, <1>6 DEF OffsetIsOne
  <2> QED BY <2>1, <2>2
<1>14. \A n \in 1..Len(written[s]) : \A c \in Clocks :
         written[s][n].stamp[c] <= last[s][c] /\ written[s][n].stamp[c] < stamp[c]
  <2> SUFFICES ASSUME NEW n \in 1..Len(written[s]), NEW c \in Clocks
               PROVE written[s][n].stamp[c] <= last[s][c] /\ written[s][n].stamp[c] < stamp[c]
      OBVIOUS
  <2>1. written[s][n].stamp[c] <= last[s][c] BY <1>5, <1>9 DEF LastIsLast
  <2>2. written[s][n] \in Packet BY <1>7, <1>9, ElementOfSeq
  <2>3. written[s][n].stamp[c] \in Int BY <2>2 DEF Packet
  <2>4. last[s][c] \in Int BY <1>5 DEF TypeOK
  <2> QED BY <2>1, <2>3, <2>4, <1>3
<1>15. LastIsLast'
  <2> SUFFICES ASSUME NEW r \in Streams, NEW n \in DOMAIN written'[r], NEW c \in Clocks
               PROVE written'[r][n].stamp[c] <= last'[r][c]
      BY DEF LastIsLast
  <2>1. CASE r # s BY <2>1, <1>5, <1>8 DEF LastIsLast
  <2>2. CASE r = s /\ n = Len(written[s]) + 1
        BY <2>2, <1>1, <1>3, <1>8, <1>9
  <2>3. CASE r = s /\ n # Len(written[s]) + 1
    <3>1. n \in 1..Len(written[s]) BY <2>3, <1>7, <1>9
    <3>2. written'[r][n] = written[s][n] /\ last'[r] = stamp BY <3>1, <2>3, <1>8, <1>9
    <3>3. written[s][n] \in Packet BY <3>1, <1>7, ElementOfSeq
    <3>4. written[s][n].stamp[c] \in Int BY <3>3 DEF Packet
    <3> QED BY <3>1, <3>2, <3>4, <1>3, <1>14
  <2> QED BY <2>1, <2>2, <2>3
<1>16. StampsIncrease'
  <2> SUFFICES ASSUME NEW r \in Streams, NEW i \in DOMAIN written'[r],
                      NEW j \in DOMAIN written'[r], i < j, NEW c \in Clocks
               PROVE written'[r][i].stamp[c] < written'[r][j].stamp[c]
      BY DEF StampsIncrease
  <2>1. CASE r # s BY <2>1, <1>5, <1>8 DEF StampsIncrease
  <2>2. CASE r = s /\ j = Len(written[s]) + 1
    <3>1. i \in 1..Len(written[s]) BY <2>2, <1>7, <1>9
    <3> QED BY <3>1, <2>2, <1>1, <1>9, <1>14
  <2>3. CASE r = s /\ j # Len(written[s]) + 1
    <3>1. i \in DOMAIN written[s] /\ j \in DOMAIN written[s] BY <2>3, <1>7, <1>9
    <3>2. written'[r][i] = written[s][i] /\ written'[r][j] = written[s][j]
          BY <3>1, <2>3, <1>9
    <3> QED BY <3>1, <3>2, <1>5 DEF StampsIncrease
  <2> QED BY <2>1, <2>2, <2>3
<1> QED BY <1>10, <1>11, <1>12, <1>13, <1>15, <1>16 DEF StampInv

(* A step that touches neither the stamps nor the types keeps the invariant. *)
LEMMA NoWrite ==
  ASSUME StampInv, UNCHANGED clockVars, TypeOK'
  PROVE  StampInv'
BY DEF StampInv, clockVars, Counted, Fresh, OffsetIsOne, LastIsLast, StampsIncrease

LEMMA NewIndex ==
  ASSUME TypeOK, NEW s \in Streams, index[s] = -1
  PROVE  NextIndex \in {0, 1}
<1> DEFINE T == {r \in Streams : index[r] # -1}
<1>1. T \subseteq Streams \ {s} OBVIOUS
<1>2. PICK r : Streams \ {s} = {r} BY DEF Streams
<1>3. T = {} \/ T = {r} BY <1>1, <1>2
<1>4. Cardinality(T) \in {0, 1} BY <1>3, FS_EmptySet, FS_Singleton
<1> QED BY <1>4 DEF NextIndex

LEMMA StepStamps == StampInv /\ [Next]_muxerVars => StampInv'
<1> SUFFICES ASSUME StampInv, [Next]_muxerVars PROVE StampInv' OBVIOUS
<1>0. TypeOK BY DEF StampInv
<1>1. CASE UseAddVideo
  <2>1. PICK v, sp, pp \in SetIds : AddVideo(v, sp, pp) BY <1>1 DEF UseAddVideo
  <2>2. NextIndex \in {0, 1} BY <1>0, <1>1, NewIndex DEF UseAddVideo, Streams
  <2>3. index' \in [Streams -> {-1, 0, 1}] BY <2>1, <2>2, <1>0 DEF AddVideo, TypeOK
  <2>4. sets' \in [SetKinds -> SUBSET SetIds] BY <2>1, <1>0 DEF AddVideo, TypeOK
  <2>5. UNCHANGED <<opened, header, trailer, foundIdr, clockVars>> BY <2>1 DEF AddVideo
  <2>6. TypeOK' BY <2>3, <2>4, <2>5, <1>0 DEF TypeOK, clockVars
  <2> QED BY <2>5, <2>6, NoWrite
<1>2. CASE UseAddAudio
  <2>1. NextIndex \in {0, 1} BY <1>0, <1>2, NewIndex DEF UseAddAudio, Streams
  <2>2. TypeOK' /\ UNCHANGED clockVars
        BY <2>1, <1>0, <1>2 DEF UseAddAudio, AddAudio, TypeOK, clockVars
  <2> QED BY <2>2, NoWrite
<1>3. CASE UseOpen \/ UseSendHeader \/ UseSendTrailer
  <2>1. TypeOK' /\ UNCHANGED clockVars
        BY <1>0, <1>3 DEF UseOpen, Open, UseSendHeader, SendHeader, UseSendTrailer,
                          SendTrailer, TypeOK, clockVars
  <2> QED BY <2>1, NoWrite
<1>4. CASE UseSendVideo
  <2>1. PICK nal \in Nals, t \in Stamps : SendVideo(nal, t) BY <1>4 DEF UseSendVideo
  <2>2. t \in [Clocks -> Int] BY MuxerAssumption DEF Clocks
  <2>3. nal.kind \notin SetKinds \/ nal.id \in SetIds BY DEF Nals, Nal
  <2>4. InHeader(nal.kind) /\ nal.kind # "sei" => nal.kind \in SetKinds
        BY DEF InHeader, SetKinds
  <2>5. sets' \in [SetKinds -> SUBSET SetIds]
        BY <2>1, <2>3, <2>4, <1>0 DEF SendVideo, TypeOK
  <2>6. foundIdr' \in BOOLEAN BY <2>1, <1>0 DEF SendVideo, Begins, TypeOK
  <2>7. UNCHANGED fileVars BY <2>1 DEF SendVideo
  <2>8. Write("video", t) \/ UNCHANGED clockVars BY <2>1 DEF SendVideo
  <2>9. CASE Write("video", t)
        BY <2>2, <2>5, <2>6, <2>7, <2>9, WriteKeeps DEF Streams
  <2>10. CASE UNCHANGED clockVars
    <3>1. TypeOK' BY <2>5, <2>6, <2>7, <2>10, <1>0 DEF TypeOK, fileVars, clockVars
    <3> QED BY <3>1, <2>10, NoWrite
  <2> QED BY <2>8, <2>9, <2>10
<1>5. CASE UseSendAudio
  <2>1. PICK t \in Stamps : SendAudio(t) BY <1>5 DEF UseSendAudio
  <2>2. t \in [Clocks -> Int] BY MuxerAssumption DEF Clocks
  <2>3. sets' \in [SetKinds -> SUBSET SetIds] /\ foundIdr' \in BOOLEAN
        BY <2>1, <1>0 DEF SendAudio, TypeOK
  <2>4. Write("audio", t) /\ UNCHANGED fileVars BY <2>1 DEF SendAudio
  <2> QED BY <2>2, <2>3, <2>4, WriteKeeps DEF Streams
<1>6. CASE UNCHANGED muxerVars
  <2>1. TypeOK' /\ UNCHANGED clockVars BY <1>0, <1>6 DEF TypeOK, muxerVars, fileVars, clockVars
  <2> QED BY <2>1, NoWrite
<1> QED BY <1>1, <1>2, <1>3, <1>4, <1>5, <1>6 DEF Next

(***************************************************************************)
(* SendPacket: whatever stamps it is given, the stamps it gives to the     *)
(* packets of a stream increase strictly, for pts and for dts.             *)
(***************************************************************************)
THEOREM StampsAlwaysIncrease == Spec => []StampsIncrease
<1>1. StampInv => StampsIncrease BY DEF StampInv
<1> QED BY <1>1, InitStamps, StepStamps, PTL DEF Spec

(***************************************************************************)
(* The variables of the muxer keep their types.                            *)
(***************************************************************************)
THEOREM MuxerTypeCorrect == Spec => []TypeOK
<1>1. StampInv => TypeOK BY DEF StampInv
<1> QED BY <1>1, InitStamps, StepStamps, PTL DEF Spec

(***************************************************************************)
(* start_media_pts_, meant to keep the distance between the starts of the  *)
(* streams, is one for every input.                                        *)
(***************************************************************************)
THEOREM OffsetIsAlwaysOne == Spec => []OffsetIsOne
<1>1. StampInv => OffsetIsOne BY DEF StampInv
<1> QED BY <1>1, InitStamps, StepStamps, PTL DEF Spec

(***************************************************************************)
(* How far the stamps may be from the clock: a stream without packets has  *)
(* its last stamp at zero, and after n packets the last stamp is at most   *)
(* 2n units past the time of one of them.                                  *)
(***************************************************************************)
Unstarted == \A s \in Streams : frames[s] = 0 => last[s] = ZeroStamp
LastFollows ==
  \A s \in Streams : \A c \in Clocks : frames[s] > 0 =>
    \E m \in 1..frames[s] : last[s][c] <= written[s][m].due[c] + 2 * frames[s]

ClockInv == StampInv /\ Unstarted /\ LastFollows /\ StampsFollowClock

LEMMA InitClock == Init => ClockInv
<1> SUFFICES ASSUME Init PROVE ClockInv OBVIOUS
<1>1. StampInv BY InitStamps
<1>2. Unstarted /\ LastFollows BY DEF Init, Unstarted, LastFollows
<1>3. \A s \in Streams : DOMAIN written[s] = {} BY EmptySeq DEF Init
<1>4. StampsFollowClock BY <1>3 DEF StampsFollowClock
<1> QED BY <1>1, <1>2, <1>4 DEF ClockInv

LEMMA WriteFollows ==
  ASSUME ClockInv, NEW s \in Streams, NEW t \in [Clocks -> Int], Write(s, t), StampInv'
  PROVE  ClockInv'
<1> DEFINE stamp == [c \in Clocks |-> Stamp(s, t, c)]
           n == frames[s] + 1
<1>0. StampInv /\ Unstarted /\ LastFollows /\ StampsFollowClock /\ TypeOK /\ Counted
      BY DEF ClockInv, StampInv
<1>1. PICK p \in Packet : /\ p.stamp = stamp
                          /\ p.due = [c \in Clocks |-> Due(s, t, c)]
                          /\ written' = [written EXCEPT ![s] = Append(@, p)]
      BY <1>0, WriteTypes
<1>2. /\ frames' = [frames EXCEPT ![s] = @ + 1]
      /\ last' = [last EXCEPT ![s] = stamp]
      BY DEF Write
<1>3. \A c \in Clocks :
        /\ p.stamp[c] = Stamp(s, t, c) /\ p.due[c] = Due(s, t, c)
        /\ p.stamp[c] \in Int /\ p.due[c] \in Int /\ p.due[c] <= p.stamp[c]
        /\ p.stamp[c] <= last[s][c] + 2 \/ p.stamp[c] <= p.due[c] + 1
      BY <1>0, <1>1, StampAfter
<1> HIDE DEF stamp
<1>4. /\ written[s] \in Seq(Packet) /\ Len(written[s]) = frames[s] /\ frames[s] \in Nat
      /\ \A c \in Clocks : last[s][c] \in Int
      BY <1>0 DEF TypeOK, Counted
<1>5. /\ written'[s] = Append(written[s], p)
      /\ \A r \in Streams \ {s} : written'[r] = written[r] /\ last'[r] = last[r]
                                  /\ frames'[r] = frames[r]
      /\ last'[s] = p.stamp /\ frames'[s] = n
      BY <1>0, <1>1, <1>2 DEF TypeOK
<1>6. /\ DOMAIN written'[s] = 1..n
      /\ DOMAIN written[s] = 1..frames[s]
      /\ \A k \in 1..frames[s] : written'[s][k] = written[s][k]
      /\ written'[s][n] = p
      BY <1>4, <1>5, AppendProperties
<1>7. n \in Nat /\ n > 0 /\ n \in 1..n /\ 1..frames[s] \subseteq 1..n BY <1>4
<1>8. \A c \in Clocks : \A k \in 1..frames[s] : written[s][k].due[c] \in Int
  <2> SUFFICES ASSUME NEW c \in Clocks, NEW k \in 1..frames[s]
               PROVE written[s][k].due[c] \in Int
      OBVIOUS
  <2>1. written[s][k] \in Packet BY <1>4, ElementOfSeq
  <2> QED BY <2>1 DEF Packet
(* The new packet is near its own time or near that of an earlier one. *)
<1>9. \A c \in Clocks : \E m \in 1..n : p.stamp[c] <= written'[s][m].due[c] + 2 * n
  <2> SUFFICES ASSUME NEW c \in Clocks
               PROVE \E m \in 1..n : p.stamp[c] <= written'[s][m].due[c] + 2 * n
      OBVIOUS
  <2>1. CASE p.stamp[c] <= p.due[c] + 1
    <3>1. p.stamp[c] <= p.due[c] + 2 * n BY <2>1, <1>3, <1>7
    <3> QED BY <3>1, <1>6, <1>7
  <2>2. CASE p.stamp[c] <= last[s][c] + 2 /\ frames[s] = 0
    <3>1. last[s][c] = 0 /\ p.due[c] = 0
          BY <2>2, <1>0, <1>3 DEF Unstarted, ZeroStamp, Due
    <3>2. p.stamp[c] <= p.due[c] + 2 * n BY <2>2, <3>1, <1>3, <1>7
    <3> QED BY <3>2, <1>6, <1>7
  <2>3. CASE p.stamp[c] <= last[s][c] + 2 /\ frames[s] # 0
    <3>1. PICK m \in 1..frames[s] : last[s][c] <= written[s][m].due[c] + 2 * frames[s]
          BY <2>3, <1>0, <1>4 DEF LastFollows
    <3>2. p.stamp[c] <= written[s][m].due[c] + 2 * n
      <4>1. /\ p.stamp[c] \in Int /\ last[s][c] \in Int /\ frames[s] \in Nat
            /\ written[s][m].due[c] \in Int
            BY <1>3, <1>4, <1>8
      <4> QED BY <4>1, <2>3, <3>1
    <3>3. written'[s][m] = written[s][m] /\ m \in 1..n BY <3>1, <1>6, <1>7
    <3> QED BY <3>2, <3>3
  <2> QED BY <2>1, <2>2, <2>3, <1>3
<1>10. Unstarted' BY <1>0, <1>4, <1>5 DEF Unstarted, ZeroStamp
<1>11. LastFollows'
  <2> SUFFICES ASSUME NEW r \in Streams, NEW c \in Clocks, frames'[r] > 0
               PROVE \E m \in 1..frames'[r] :
                       last'[r][c] <= written'[r][m].due[c] + 2 * frames'[r]
      BY DEF LastFollows
  <2>1. CASE r # s BY <2>1, <1>0, <1>5 DEF LastFollows
  <2>2. CASE r = s BY <2>2, <1>5, <1>9
  <2> QED BY <2>1, <2>2
<1>12. StampsFollowClock'
  <2> SUFFICES ASSUME NEW r \in Streams, NEW k \in DOMAIN written'[r], NEW c \in Clocks
               PROVE /\ written'[r][k].due[c] <= written'[r][k].stamp[c]
                     /\ Lead(r, k, c)'
      BY DEF StampsFollowClock
  <2>1. CASE r # s
    <3>1. k \in DOMAIN written[r] /\ written'[r] = written[r] BY <2>1, <1>5
    <3> QED BY <3>1, <1>0 DEF StampsFollowClock, Lead
  <2>2. CASE r = s /\ k = n
    <3>1. Lead(r, k, c)' BY <2>2, <1>6, <1>9 DEF Lead
    <3> QED BY <3>1, <2>2, <1>3, <1>6
  <2>3. CASE r = s /\ k # n
    <3>1. k \in 1..frames[s] BY <2>3, <1>4, <1>6
    <3>2. written[s][k].due[c] <= written[s][k].stamp[c] /\ Lead(s, k, c)
          BY <3>1, <1>0, <1>6 DEF StampsFollowClock
    <3>3. \A m \in 1..k : written'[s][m] = written[s][m]
          BY <3>1, <1>4, <1>6
    <3>4. k \in 1..k BY <3>1, <1>4
    <3> QED BY <3>2, <3>3, <3>4, <2>3 DEF Lead
  <2> QED BY <2>1, <2>2, <2>3
<1> QED BY <1>10, <1>11, <1>12 DEF ClockInv

LEMMA NoWriteFollows ==
  ASSUME ClockInv, UNCHANGED clockVars, StampInv'
  PROVE  ClockInv'
BY DEF ClockInv, clockVars, Unstarted, LastFollows, StampsFollowClock, Lead

LEMMA StepClock == ClockInv /\ [Next]_muxerVars => ClockInv'
<1> SUFFICES ASSUME ClockInv, [Next]_muxerVars PROVE ClockInv' OBVIOUS
<1>1. StampInv' BY StepStamps DEF ClockInv
<1>2. CASE UseSendVideo
  <2>1. PICK nal \in Nals, t \in Stamps : SendVideo(nal, t) BY <1>2 DEF UseSendVideo
  <2>2. t \in [Clocks -> Int] /\ "video" \in Streams
        BY MuxerAssumption DEF Clocks, Streams
  <2>3. CASE Write("video", t) BY <2>2, <2>3, <1>1, WriteFollows
  <2>4. CASE UNCHANGED clockVars BY <2>4, <1>1, NoWriteFollows
  <2> QED BY <2>1, <2>3, <2>4 DEF SendVideo
<1>3. CASE UseSendAudio
  <2>1. PICK t \in Stamps : SendAudio(t) BY <1>3 DEF UseSendAudio
  <2>2. t \in [Clocks -> Int] /\ "audio" \in Streams
        BY MuxerAssumption DEF Clocks, Streams
  <2> QED BY <2>1, <2>2, <1>1, WriteFollows DEF SendAudio
<1>4. CASE UseAddVideo \/ UseAddAudio \/ UseOpen \/ UseSendHeader \/ UseSendTrailer
  <2>1. UNCHANGED clockVars
        BY <1>4 DEF UseAddVideo, AddVideo, UseAddAudio, AddAudio, UseOpen, Open,
                    UseSendHeader, SendHeader, UseSendTrailer, SendTrailer
  <2> QED BY <2>1, <1>1, NoWriteFollows
<1>5. CASE UNCHANGED muxerVars BY <1>5, <1>1, NoWriteFollows DEF muxerVars
<1> QED BY <1>2, <1>3, <1>4, <1>5 DEF Next

(***************************************************************************)
(* The correction of stamps in SendPacket keeps them at or after the time  *)
(* of their packet, and within two units a packet of the latest time seen. *)
(***************************************************************************)
THEOREM StampsAlwaysFollowClock == Spec => []StampsFollowClock
<1>1. ClockInv => StampsFollowClock BY DEF ClockInv
<1> QED BY <1>1, InitClock, StepClock, PTL DEF Spec

-----------------------------------------------------------------------------
(***************************************************************************)
(* The types of the wrapper's own variables, and the NAL unit in hand.     *)
(***************************************************************************)
WrapperTypes ==
  /\ vnext \in 1..(Len(VideoPackets) + 1) /\ vnal \in Nat
  /\ clock \in [Streams -> Nat]
  /\ vpc \in {"idle", "collect", "addVideo", "askAudio", "addAudio", "open", "header",
              "streams", "send", "fault"}
  /\ got \in [SetKinds -> SetIds \cup {0}]
  /\ videoStream \in BOOLEAN /\ audioStream \in BOOLEAN /\ source \in BOOLEAN
  /\ aac \in {"none", "made", "ready", "deleted"}
  /\ asent \in 0..AudioPackets /\ untimely \in BOOLEAN
  /\ opc \in {"run", "videoEnd", "aacDecoderEnd", "aacEncoderEnd", "muxerEnd", "dead"}
  /\ fault \in {"none", "input", "aacEncoder"}

InHand ==
  vpc \notin {"idle", "fault"} =>
    vnext \in 1..Len(VideoPackets) /\ vnal \in 1..Len(VideoPackets[vnext])

(***************************************************************************)
(* How far the file has come, read off the place of the video thread, and  *)
(* where the owner must be for a thread to be about.                       *)
(***************************************************************************)
NoSetsOfH265 == VideoType # "H264" => got["sps"] = 0 /\ vpc \in {"idle", "collect"}
SetsReady == vpc \notin {"idle", "collect", "fault"} => ExtraReady(got)

AudioNamed == HaveAudio <=> index["audio"] # -1
Begun == opened /\ index["video"] # -1 /\ AudioNamed
Untouched == index["video"] = -1 /\ index["audio"] = -1 /\ ~opened /\ ~header

FileStage ==
  IF videoStream
  THEN /\ Begun /\ header /\ audioStream = HaveAudio
       /\ vpc \notin {"addAudio", "header", "streams"}
  ELSE /\ ~audioStream
       /\ vpc \in {"idle", "collect", "addVideo"} => Untouched
       /\ vpc \in {"askAudio", "addAudio"} =>
            index["video"] # -1 /\ index["audio"] = -1 /\ ~opened /\ ~header
       /\ vpc = "addAudio" => HaveAudio
       /\ vpc = "open" => index["video"] # -1 /\ AudioNamed /\ ~opened /\ ~header
       /\ vpc = "header" => Begun /\ ~header
       /\ vpc = "streams" => Begun /\ header
       /\ vpc = "fault" => ~header
       /\ vpc # "send"

Ending ==
  /\ vpc # "idle" => opc \in {"run", "videoEnd"}
  /\ opc \in {"muxerEnd", "dead"} => aac = "deleted"
  /\ trailer => opc = "dead"

WrapperInv == WrapperTypes /\ InHand /\ NoSetsOfH265 /\ SetsReady /\ FileStage /\ Ending

(* Every packet has a NAL unit. *)
LEMMA PacketFacts ==
  /\ Len(VideoPackets) \in Nat
  /\ \A n \in 1..Len(VideoPackets) :
       /\ VideoPackets[n] \in Seq(H264Nals)
       /\ Len(VideoPackets[n]) \in Nat /\ Len(VideoPackets[n]) >= 1
<1>1. VideoPackets \in Seq(Seq(H264Nals) \ {<<>>}) BY OutputAssumption
<1>2. Len(VideoPackets) \in Nat BY <1>1, LenProperties
<1>3. ASSUME NEW n \in 1..Len(VideoPackets)
      PROVE  /\ VideoPackets[n] \in Seq(H264Nals)
             /\ Len(VideoPackets[n]) \in Nat /\ Len(VideoPackets[n]) >= 1
  <2>1. VideoPackets[n] \in Seq(H264Nals) /\ VideoPackets[n] # <<>>
        BY <1>1, ElementOfSeq
  <2>2. Len(VideoPackets[n]) \in Nat /\ Len(VideoPackets[n]) # 0
        BY <2>1, LenProperties, EmptySeq
  <2> QED BY <2>1, <2>2
<1> QED BY <1>2, <1>3

LEMMA InitWrapper == OutputInit => WrapperInv
<1> SUFFICES ASSUME OutputInit PROVE WrapperInv OBVIOUS
<1> USE OutputAssumption DEF OutputInit, Init
<1>1. WrapperTypes
  <2>1. vnext \in 1..(Len(VideoPackets) + 1) /\ asent \in 0..AudioPackets BY PacketFacts
  <2>2. clock \in [Streams -> Nat] /\ got \in [SetKinds -> SetIds \cup {0}] OBVIOUS
  <2> QED BY <2>1, <2>2 DEF WrapperTypes
<1>2. InHand /\ SetsReady BY DEF InHand, SetsReady
<1>3. NoSetsOfH265 BY DEF NoSetsOfH265, SetKinds
<1>4. FileStage BY DEF FileStage, Untouched, Streams
<1>5. Ending BY DEF Ending
<1> QED BY <1>1, <1>2, <1>3, <1>4, <1>5 DEF WrapperInv

(***************************************************************************)
(* The NAL unit in hand is one the encoder makes; if it is looked at as    *)
(* H265, it is no SPS.                                                     *)
(***************************************************************************)
LEMMA ThisUnit ==
  ASSUME WrapperInv, vpc \notin {"idle", "fault"}
  PROVE  /\ VideoType = "H264" => This \in Nals
         /\ This.kind \in SetKinds => This.id \in SetIds
         /\ VideoType # "H264" => This.kind # "sps"
<1> DEFINE nal == VideoPackets[vnext][vnal]
<1>1. vnext \in 1..Len(VideoPackets) /\ vnal \in 1..Len(VideoPackets[vnext])
      BY DEF WrapperInv, InHand
<1>2. VideoPackets[vnext] \in Seq(H264Nals) BY <1>1, PacketFacts
<1>3. nal \in H264Nals BY <1>1, <1>2, ElementOfSeq
<1>4. /\ nal.kind \in {"sps", "pps", "idr", "slice", "sei"}
      /\ nal.kind \in SetKinds => nal.id \in SetIds
      BY <1>3 DEF H264Nals, Nal, SetKinds
<1>5. CASE VideoType = "H264"
  <2>1. This = nal BY <1>5 DEF This, Seen
  <2>2. H264Nals \subseteq Nals BY <1>5 DEF H264Nals, Nals, Kinds, SetKinds, Nal
  <2> QED BY <2>1, <2>2, <1>3, <1>4, <1>5
<1>6. CASE VideoType # "H264"
  <2>1. This = Nal("vps", 1) \/ This = Nal("other", 0) BY <1>6 DEF This, Seen
  <2> QED BY <2>1, <1>6, OutputAssumption DEF Nal, SetKinds
<1> QED BY <1>5, <1>6

(***************************************************************************)
(* The steps.  A caller of the muxer may do what Next of Muxer does; and   *)
(* the destructor of the wrapper may write a trailer without a header.     *)
(***************************************************************************)
MuxerStep == Next \/ (~header /\ SendTrailer)

(* A step from one unit to the next stays among the packets. *)
LEMMA NextUnit ==
  ASSUME WrapperInv, vpc \notin {"idle", "fault"}, NextNal
  PROVE  /\ vnext' \in 1..(Len(VideoPackets) + 1) /\ vnal' \in Nat
         /\ vpc' \in {"idle", "collect"}
         /\ vpc' = "collect" =>
              vnext' \in 1..Len(VideoPackets) /\ vnal' \in 1..Len(VideoPackets[vnext'])
<1>1. /\ vnext \in 1..Len(VideoPackets) /\ vnal \in 1..Len(VideoPackets[vnext])
      /\ Len(VideoPackets) \in Nat /\ Len(VideoPackets[vnext]) \in Nat
      BY PacketFacts DEF WrapperInv, InHand
<1> QED BY <1>1 DEF NextNal, NextPacket

LEMMA StepVideoPacket ==
  ASSUME WrapperInv, VideoPacket
  PROVE  WrapperInv' /\ UNCHANGED muxerVars
<1> USE DEF WrapperInv, VideoPacket
<1>1. Len(VideoPackets) \in Nat /\ Len(VideoPackets[vnext]) \in Nat
      /\ Len(VideoPackets[vnext]) >= 1
      BY PacketFacts DEF WrapperTypes
<1>2. PICK d \in Gaps : clock' = [clock EXCEPT !["video"] = IF vnext = 1 THEN 0 ELSE @ + d]
      BY DEF Tick
<1>3. clock' \in [Streams -> Nat] BY <1>2, OutputAssumption DEF WrapperTypes, Streams
<1>4. WrapperTypes' BY <1>3 DEF WrapperTypes
<1>5. InHand' BY <1>1 DEF InHand, WrapperTypes
<1>6. NoSetsOfH265' /\ SetsReady' BY DEF NoSetsOfH265, SetsReady
<1>7. FileStage' BY DEF FileStage, Begun, AudioNamed, Untouched, muxerVars, fileVars
<1>8. Ending' BY DEF Ending, muxerVars, fileVars
<1> QED BY <1>4, <1>5, <1>6, <1>7, <1>8

LEMMA StepCollect ==
  ASSUME WrapperInv, Collect
  PROVE  WrapperInv' /\ UNCHANGED muxerVars
<1> USE DEF WrapperInv, Collect
<1>1. /\ This.kind \in SetKinds => This.id \in SetIds
      /\ VideoType # "H264" => This.kind # "sps"
      BY ThisUnit
<1>2. got' \in [SetKinds -> SetIds \cup {0}] BY <1>1 DEF WrapperTypes
<1>3. VideoType # "H264" => got'["sps"] = 0
      BY <1>1 DEF NoSetsOfH265, WrapperTypes, SetKinds
<1>4. /\ vnext' \in 1..(Len(VideoPackets) + 1) /\ vnal' \in Nat
      /\ vpc' \in {"idle", "collect", "addVideo"}
      /\ vpc' # "idle" =>
           vnext' \in 1..Len(VideoPackets) /\ vnal' \in 1..Len(VideoPackets[vnext'])
      /\ vpc' = "addVideo" <=> ExtraReady(got')
  <2>1. CASE ExtraReady(got') BY <2>1 DEF InHand, WrapperTypes
  <2>2. CASE ~ExtraReady(got') BY <2>2, NextUnit
  <2> QED BY <2>1, <2>2
<1>5. WrapperTypes' BY <1>2, <1>4 DEF WrapperTypes
<1>6. InHand' BY <1>4 DEF InHand
<1>7. NoSetsOfH265' BY <1>3, <1>4 DEF NoSetsOfH265, ExtraReady
<1>8. SetsReady' BY <1>4 DEF SetsReady
<1>9. FileStage' BY <1>4 DEF FileStage, Begun, AudioNamed, Untouched, muxerVars, fileVars
<1>10. Ending' BY DEF Ending, muxerVars, fileVars
<1> QED BY <1>5, <1>6, <1>7, <1>8, <1>9, <1>10

(* The first time the streams are added before the file is opened. *)
LEMMA StepAddVideo ==
  ASSUME WrapperInv, TypeOK, AddVideoStream
  PROVE  WrapperInv' /\ (MuxerStep \/ UNCHANGED muxerVars)
<1> USE DEF WrapperInv, AddVideoStream
<1>1. VideoType = "H264" /\ ExtraReady(got) BY DEF NoSetsOfH265, SetsReady
<1>2. got["sps"] \in SetIds /\ got["pps"] \in SetIds
      BY <1>1 DEF ExtraReady, WrapperTypes, SetKinds
<1>3. WrapperTypes' /\ InHand' BY DEF WrapperTypes, InHand
<1>4. NoSetsOfH265' /\ SetsReady' BY <1>1 DEF NoSetsOfH265, SetsReady
<1>5. CASE videoStream
  <2>1. UNCHANGED muxerVars BY <1>5
  <2>2. FileStage'
        BY <1>5, <2>1 DEF FileStage, Begun, AudioNamed, muxerVars, fileVars
  <2>3. Ending' BY <2>1 DEF Ending, muxerVars, fileVars
  <2> QED BY <2>1, <2>2, <2>3, <1>3, <1>4
<1>6. CASE ~videoStream
  <2>1. AddVideo(got["vps"], got["sps"], got["pps"]) BY <1>6
  <2>2. Untouched BY <1>6 DEF FileStage
  <2>3. AddVideo(got["sps"], got["sps"], got["pps"]) BY <2>1, <1>1 DEF AddVideo
  <2>4. UseAddVideo BY <2>2, <2>3, <1>2 DEF UseAddVideo, Untouched
  <2>5. NextIndex \in {0, 1} BY <2>2, NewIndex DEF Untouched, Streams
  <2>6. index'["video"] # -1 /\ index'["audio"] = -1 /\ ~opened' /\ ~header'
        BY <2>1, <2>2, <2>5 DEF AddVideo, Untouched, TypeOK, Streams
  <2>7. FileStage' BY <1>6, <2>6 DEF FileStage
  <2>8. Ending' BY <2>1 DEF Ending, AddVideo
  <2> QED BY <2>4, <2>7, <2>8, <1>3, <1>4 DEF MuxerStep, Next
<1> QED BY <1>5, <1>6

LEMMA StepAskAudio ==
  ASSUME WrapperInv, AskAudio
  PROVE  WrapperInv' /\ UNCHANGED muxerVars
<1> USE DEF WrapperInv, AskAudio
<1>1. WrapperTypes' BY DEF WrapperTypes
<1>2. InHand' BY DEF InHand
<1>3. NoSetsOfH265' /\ SetsReady' BY DEF NoSetsOfH265, SetsReady
<1>4. FileStage'
      BY DEF FileStage, Begun, AudioNamed, AudioMissing, muxerVars, fileVars, WrapperTypes
<1>5. Ending' BY DEF Ending, muxerVars, fileVars
<1> QED BY <1>1, <1>2, <1>3, <1>4, <1>5

LEMMA StepAddAudio ==
  ASSUME WrapperInv, TypeOK, AddAudioStream
  PROVE  WrapperInv' /\ (MuxerStep \/ UNCHANGED muxerVars)
<1> USE DEF WrapperInv, AddAudioStream
<1>1. /\ index["audio"] = -1 /\ index["video"] # -1 /\ ~opened /\ ~header
      /\ ~videoStream /\ ~audioStream /\ HaveAudio
      BY DEF FileStage
<1>2. WrapperTypes' BY DEF WrapperTypes
<1>3. InHand' /\ NoSetsOfH265' /\ SetsReady' BY DEF InHand, NoSetsOfH265, SetsReady
<1>4. CASE aac = "ready"
  <2>1. AddAudio BY <1>4
  <2>2. UseAddAudio BY <2>1, <1>1 DEF UseAddAudio
  <2>3. NextIndex \in {0, 1} BY <1>1, NewIndex DEF Streams
  <2>4. index'["audio"] # -1 /\ index'["video"] # -1 /\ ~opened' /\ ~header'
        BY <2>1, <2>3, <1>1 DEF AddAudio, TypeOK, Streams
  <2>5. FileStage' BY <1>1, <1>4, <2>4 DEF FileStage, AudioNamed
  <2>6. Ending' BY <2>1 DEF Ending, AddAudio
  <2> QED BY <2>2, <2>5, <2>6, <1>2, <1>3 DEF MuxerStep, Next
<1>5. CASE aac # "ready"
  <2>1. FileStage' BY <1>1, <1>5 DEF FileStage, muxerVars, fileVars
  <2>2. Ending' BY <1>5 DEF Ending, muxerVars, fileVars
  <2> QED BY <2>1, <2>2, <1>2, <1>3, <1>5
<1> QED BY <1>4, <1>5

LEMMA StepOpen ==
  ASSUME WrapperInv, OpenFile
  PROVE  WrapperInv' /\ (MuxerStep \/ UNCHANGED muxerVars)
<1> USE DEF WrapperInv, OpenFile
<1>1. WrapperTypes' /\ InHand' /\ NoSetsOfH265' /\ SetsReady'
      BY DEF WrapperTypes, InHand, NoSetsOfH265, SetsReady
<1>2. CASE videoStream
  <2>1. FileStage' BY <1>2 DEF FileStage, Begun, AudioNamed, muxerVars, fileVars
  <2>2. Ending' BY <1>2 DEF Ending, muxerVars, fileVars
  <2> QED BY <2>1, <2>2, <1>1, <1>2
<1>3. CASE ~videoStream
  <2>1. Open /\ index["video"] # -1 /\ AudioNamed /\ ~opened /\ ~header /\ ~audioStream
        BY <1>3 DEF FileStage
  <2>2. UseOpen BY <2>1 DEF UseOpen
  <2>3. FileStage' BY <1>3, <2>1 DEF FileStage, Begun, AudioNamed, Open
  <2>4. Ending' BY <2>1 DEF Ending, Open
  <2> QED BY <2>2, <2>3, <2>4, <1>1 DEF MuxerStep, Next
<1> QED BY <1>2, <1>3

LEMMA StepHeader ==
  ASSUME WrapperInv, WriteHeader
  PROVE  WrapperInv' /\ MuxerStep
<1> USE DEF WrapperInv, WriteHeader
<1>1. Begun /\ ~header /\ ~videoStream /\ ~audioStream BY DEF FileStage
<1>2. UseSendHeader BY <1>1 DEF UseSendHeader, Begun
<1>3. WrapperTypes' /\ InHand' /\ NoSetsOfH265' /\ SetsReady'
      BY DEF WrapperTypes, InHand, NoSetsOfH265, SetsReady
<1>4. FileStage' BY <1>1 DEF FileStage, Begun, AudioNamed, SendHeader
<1>5. Ending' BY DEF Ending, SendHeader
<1> QED BY <1>2, <1>3, <1>4, <1>5 DEF MuxerStep, Next

LEMMA StepStreams ==
  ASSUME WrapperInv, SetStreams
  PROVE  WrapperInv' /\ UNCHANGED muxerVars
<1> USE DEF WrapperInv, SetStreams
<1>1. Begun /\ header
      BY DEF FileStage
<1>2. WrapperTypes' /\ InHand' /\ NoSetsOfH265' /\ SetsReady'
      BY DEF WrapperTypes, InHand, NoSetsOfH265, SetsReady
<1>3. FileStage'
      BY <1>1, OutputAssumption DEF FileStage, Begun, AudioNamed, muxerVars, fileVars
<1>4. Ending' BY DEF Ending, muxerVars, fileVars
<1> QED BY <1>2, <1>3, <1>4

(* Packets go out after the header, at times Muxer is specified for. *)
LEMMA StepSendNal ==
  ASSUME WrapperInv, \A s \in Streams, n \in Nat : At(s, n) \in Stamps, SendNal
  PROVE  WrapperInv' /\ MuxerStep
<1> USE DEF WrapperInv, SendNal
<1>1. VideoType = "H264" /\ ExtraReady(got) /\ videoStream /\ header
      BY DEF NoSetsOfH265, SetsReady, FileStage
<1>2. ~trailer BY DEF Ending
<1>3. This \in Nals BY <1>1, ThisUnit
<1>4. At("video", clock["video"]) \in Stamps BY DEF WrapperTypes, Streams
<1>5. UseSendVideo BY <1>1, <1>2, <1>3, <1>4 DEF UseSendVideo
<1>6. UNCHANGED fileVars BY DEF SendVideo
<1>7. /\ vnext' \in 1..(Len(VideoPackets) + 1) /\ vnal' \in Nat
      /\ vpc' \in {"idle", "collect"}
      /\ vpc' = "collect" =>
           vnext' \in 1..Len(VideoPackets) /\ vnal' \in 1..Len(VideoPackets[vnext'])
      BY NextUnit
<1>8. WrapperTypes' BY <1>7 DEF WrapperTypes
<1>9. InHand' /\ SetsReady' BY <1>7 DEF InHand, SetsReady
<1>10. NoSetsOfH265' BY <1>1 DEF NoSetsOfH265
<1>11. FileStage' BY <1>1, <1>6, <1>7 DEF FileStage, Begun, AudioNamed, fileVars
<1>12. Ending' BY <1>6 DEF Ending, fileVars
<1> QED BY <1>5, <1>8, <1>9, <1>10, <1>11, <1>12 DEF MuxerStep, Next

(* The parts that speak of the video thread do not notice the others. *)
LEMMA VideoUntouched ==
  ASSUME WrapperInv, UNCHANGED <<vnext, vnal, vpc, got, videoStream, audioStream>>,
         UNCHANGED <<index, opened, header>>
  PROVE  InHand' /\ NoSetsOfH265' /\ SetsReady' /\ FileStage'
BY DEF WrapperInv, InHand, NoSetsOfH265, SetsReady, FileStage, Begun, AudioNamed, Untouched

LEMMA StepAac ==
  ASSUME WrapperInv, MakeAac \/ InitAac
  PROVE  WrapperInv' /\ UNCHANGED muxerVars
<1>1. UNCHANGED <<muxerVars, vnext, vnal, vpc, got, videoStream, audioStream>>
      BY DEF MakeAac, InitAac
<1>2. WrapperTypes' BY DEF WrapperInv, WrapperTypes, MakeAac, InitAac
<1>3. Ending' BY <1>1 DEF WrapperInv, Ending, MakeAac, InitAac, muxerVars, fileVars
<1>4. UNCHANGED <<index, opened, header>> BY <1>1 DEF muxerVars, fileVars
<1>5. InHand' /\ NoSetsOfH265' /\ SetsReady' /\ FileStage' BY <1>1, <1>4, VideoUntouched
<1> QED BY <1>1, <1>2, <1>3, <1>5 DEF WrapperInv

LEMMA StepAudioPacket ==
  ASSUME WrapperInv, \A s \in Streams, n \in Nat : At(s, n) \in Stamps, AudioPacket
  PROVE  WrapperInv' /\ (MuxerStep \/ UNCHANGED muxerVars)
<1> USE DEF AudioPacket
<1>1. clock' \in [Streams -> Nat]
  <2>1. CASE audioStream
    <3>1. PICK d \in Gaps :
            clock' = [clock EXCEPT !["audio"] = IF frames["audio"] = 0 THEN 0 ELSE @ + d]
          BY <2>1 DEF Tick
    <3>2. d \in Nat /\ clock["audio"] \in Nat
          BY OutputAssumption DEF WrapperInv, WrapperTypes, Streams
    <3>3. (IF frames["audio"] = 0 THEN 0 ELSE clock["audio"] + d) \in Nat BY <3>2
    <3> QED BY <3>1, <3>3 DEF WrapperInv, WrapperTypes
  <2>2. CASE ~audioStream BY <2>2 DEF WrapperInv, WrapperTypes
  <2> QED BY <2>1, <2>2
<1>2. WrapperTypes' BY <1>1, OutputAssumption DEF WrapperInv, WrapperTypes
<1>3. UNCHANGED <<index, opened, header, trailer>>
      BY DEF SendAudio, muxerVars, fileVars
<1>4. InHand' /\ NoSetsOfH265' /\ SetsReady' /\ FileStage' BY <1>3, VideoUntouched
<1>5. Ending' BY <1>3 DEF WrapperInv, Ending
<1>6. CASE audioStream
  <2>1. header /\ index["audio"] # -1
        BY <1>6 DEF WrapperInv, FileStage, Begun, AudioNamed
  <2>2. ~trailer BY DEF WrapperInv, Ending
  <2>3. At("audio", clock'["audio"]) \in Stamps BY <1>1 DEF Streams
  <2>4. UseSendAudio BY <1>6, <2>1, <2>2, <2>3 DEF UseSendAudio
  <2> QED BY <2>4, <1>2, <1>4, <1>5 DEF MuxerStep, Next, WrapperInv
<1>7. CASE ~audioStream BY <1>7, <1>2, <1>4, <1>5 DEF WrapperInv
<1> QED BY <1>6, <1>7

LEMMA StepDelete ==
  ASSUME WrapperInv, DeleteSource \/ DeleteVideo \/ DeleteAacDecoder \/ DeleteAacEncoder
  PROVE  WrapperInv' /\ UNCHANGED muxerVars
<1> USE DEF DeleteSource, DeleteVideo, DeleteAacDecoder, DeleteAacEncoder, Goto
<1>1. UNCHANGED <<muxerVars, vnext, vnal, vpc, got, videoStream, audioStream>> OBVIOUS
<1>2. WrapperTypes' BY DEF WrapperInv, WrapperTypes
<1>3. Ending' BY <1>1 DEF WrapperInv, Ending, muxerVars, fileVars
<1>4. UNCHANGED <<index, opened, header>> BY <1>1 DEF muxerVars, fileVars
<1>5. InHand' /\ NoSetsOfH265' /\ SetsReady' /\ FileStage' BY <1>1, <1>4, VideoUntouched
<1> QED BY <1>1, <1>2, <1>3, <1>5 DEF WrapperInv

LEMMA StepEndFile ==
  ASSUME WrapperInv, EndFile
  PROVE  WrapperInv' /\ MuxerStep
<1> USE DEF EndFile, Goto, SendTrailer
<1>1. ~trailer BY DEF WrapperInv, Ending
<1>2. MuxerStep BY <1>1 DEF MuxerStep, Next, UseSendTrailer
<1>3. WrapperTypes' BY DEF WrapperInv, WrapperTypes
<1>4. Ending' BY DEF WrapperInv, Ending
<1>5. InHand' /\ NoSetsOfH265' /\ SetsReady' /\ FileStage' BY VideoUntouched
<1> QED BY <1>2, <1>3, <1>4, <1>5 DEF WrapperInv

(***************************************************************************)
(* Put together: the wrapper's invariant is kept, every step is one that   *)
(* Muxer allows, and so the invariant of the stamps is kept as well.       *)
(***************************************************************************)
LEMMA StepWrapper ==
  ASSUME \A s \in Streams, n \in Nat : At(s, n) \in Stamps, WrapperInv, TypeOK, [OutputNext]_vars
  PROVE  WrapperInv' /\ [MuxerStep]_muxerVars
<1>1. CASE Video
  BY <1>1, StepVideoPacket, StepCollect, StepAddVideo, StepAskAudio, StepAddAudio,
     StepOpen, StepHeader, StepStreams, StepSendNal DEF Video
<1>2. CASE Audio
  BY <1>2, StepAac, StepAudioPacket DEF Audio
<1>3. CASE DeleteSource \/ Teardown
  BY <1>3, StepDelete, StepEndFile DEF Teardown
<1>4. CASE UNCHANGED vars
  <2>1. UNCHANGED <<muxerVars, wrapperVars>> BY <1>4 DEF vars
  <2>2. InHand' /\ NoSetsOfH265' /\ SetsReady' /\ FileStage'
        BY <2>1, VideoUntouched DEF wrapperVars, muxerVars, fileVars
  <2>3. WrapperTypes' /\ Ending'
        BY <2>1 DEF WrapperInv, WrapperTypes, Ending, wrapperVars, muxerVars, fileVars
  <2> QED BY <2>1, <2>2, <2>3 DEF WrapperInv
<1> QED BY <1>1, <1>2, <1>3, <1>4 DEF OutputNext

LEMMA StepMuxer == ClockInv /\ [MuxerStep]_muxerVars => ClockInv'
<1> SUFFICES ASSUME ClockInv, [MuxerStep]_muxerVars PROVE ClockInv' OBVIOUS
<1>1. CASE [Next]_muxerVars BY <1>1, StepClock
<1>2. CASE SendTrailer
  <2>1. TypeOK' /\ UNCHANGED clockVars
        BY <1>2 DEF ClockInv, StampInv, TypeOK, SendTrailer, clockVars
  <2>2. StampInv' BY <2>1, NoWrite DEF ClockInv
  <2> QED BY <2>1, <2>2, NoWriteFollows
<1> QED BY <1>1, <1>2 DEF MuxerStep

FileInv == WrapperInv /\ ClockInv

LEMMA FileInvariant ==
  ASSUME \A s \in Streams, n \in Nat : At(s, n) \in Stamps
  PROVE  SafeSpec => []FileInv /\ [][MuxerStep]_muxerVars
<1>1. OutputInit => FileInv BY InitWrapper, InitClock DEF FileInv, OutputInit
<1>2. FileInv /\ [OutputNext]_vars => FileInv' /\ [MuxerStep]_muxerVars
      BY StepWrapper, StepMuxer DEF FileInv, ClockInv, StampInv
<1> QED BY <1>1, <1>2, PTL DEF SafeSpec

(***************************************************************************)
(* The threads of the wrapper and its destructor use the muxer in the      *)
(* order its header file asks for, without a lock that would make them.    *)
(***************************************************************************)
THEOREM WrapperUsesMuxerInOrder ==
  ASSUME \A s \in Streams, n \in Nat : At(s, n) \in Stamps
  PROVE  SafeSpec => MuxerUsedInOrder
<1>1. OutputInit => Init BY DEF OutputInit
<1> QED BY <1>1, FileInvariant, PTL DEF SafeSpec, MuxerUsedInOrder, MuxerStep

(***************************************************************************)
(* In the file the wrapper writes the stamps of each stream increase       *)
(* strictly: NAL units of one packet, packets of one millisecond, and two  *)
(* threads that send at once.                                              *)
(***************************************************************************)
THEOREM FileStampsIncrease ==
  ASSUME \A s \in Streams, n \in Nat : At(s, n) \in Stamps
  PROVE  SafeSpec => []StampsIncrease
<1>1. FileInv => StampsIncrease BY DEF FileInv, ClockInv, StampInv
<1> QED BY <1>1, FileInvariant, PTL

(***************************************************************************)
(* And they follow the clock of the wrapper.                               *)
(***************************************************************************)
THEOREM FileStampsFollowClock ==
  ASSUME \A s \in Streams, n \in Nat : At(s, n) \in Stamps
  PROVE  SafeSpec => []StampsFollowClock
<1>1. FileInv => StampsFollowClock BY DEF FileInv, ClockInv
<1> QED BY <1>1, FileInvariant, PTL

(***************************************************************************)
(* Every variable of the wrapper and of its muxer keeps its type.          *)
(***************************************************************************)
THEOREM OutputTypeCorrect ==
  ASSUME \A s \in Streams, n \in Nat : At(s, n) \in Stamps
  PROVE  SafeSpec => []OutputTypeOK
<1>1. FileInv => OutputTypeOK
      BY DEF FileInv, ClockInv, StampInv, WrapperInv, WrapperTypes, OutputTypeOK
<1> QED BY <1>1, FileInvariant, PTL

(***************************************************************************)
(* A header names the audio stream exactly when the input has one, however *)
(* late the AAC encoder is.                                                *)
(***************************************************************************)
THEOREM HeaderIsComplete ==
  ASSUME \A s \in Streams, n \in Nat : At(s, n) \in Stamps
  PROVE  SafeSpec => []HeaderComplete
<1>1. FileInv => HeaderComplete
      BY DEF FileInv, WrapperInv, WrapperTypes, FileStage, Begun, AudioNamed, Untouched,
             HeaderComplete
<1> QED BY <1>1, FileInvariant, PTL

(***************************************************************************)
(* The pictures of the file are counted unit by unit.  Position is the     *)
(* unit in hand, or the next one.                                          *)
(***************************************************************************)
Position == IF vpc = "idle" THEN <<vnext, 1>> ELSE <<vnext, vnal>>
Past == {u \in Units : Earlier(u, Position)}

(* Packets as the encoder makes them: an SPS, a PPS and a key picture      *)
(* before any other picture.                                               *)
BeginsWithKey ==
  \A u \in Units : ~InHeader(KindOf(u)) =>
    /\ \A k \in {"sps", "pps"} : \E v \in Units : Earlier(v, u) /\ KindOf(v) = k
    /\ KindOf(u) # "idr" => \E v \in Units : Earlier(v, u) /\ KindOf(v) = "idr"

SetsKept == \A u \in Past : KindOf(u) \in {"sps", "pps"} => got[KindOf(u)] # 0
KeySeen == (\E u \in Past : KindOf(u) = "idr") => foundIdr
CountInv ==
  /\ SetsKept /\ KeySeen
  /\ IsFiniteSet(PicturesBefore(Position))
  /\ Sent("video") = Cardinality(PicturesBefore(Position))

LEMMA UnitFacts ==
  /\ \A u : u \in Units <=>
       \E n \in 1..Len(VideoPackets) : \E i \in 1..Len(VideoPackets[n]) : u = <<n, i>>
  /\ \A n \in 1..Len(VideoPackets) : \A i \in 1..Len(VideoPackets[n]) :
       <<n, i>> \in Units /\ VideoPackets[n][i] \in H264Nals
<1>1. DOMAIN VideoPackets = 1..Len(VideoPackets)
      BY OutputAssumption, LenProperties
<1>2. \A n \in 1..Len(VideoPackets) : DOMAIN VideoPackets[n] = 1..Len(VideoPackets[n])
      BY PacketFacts, LenProperties
<1>3. \A u : u \in Units <=>
        \E n \in 1..Len(VideoPackets) : \E i \in 1..Len(VideoPackets[n]) : u = <<n, i>>
      BY <1>1, <1>2 DEF Units
<1>4. ASSUME NEW n \in 1..Len(VideoPackets), NEW i \in 1..Len(VideoPackets[n])
      PROVE  VideoPackets[n][i] \in H264Nals
      BY PacketFacts, ElementOfSeq
<1> QED BY <1>3, <1>4

(* On from one unit to the next, that unit is past, and no other.          *)
LEMMA Advance ==
  ASSUME WrapperInv, vpc \notin {"idle", "fault"}, NextNal
  PROVE  /\ Position = <<vnext, vnal>> /\ Position \in Units
         /\ \A u \in Units : Earlier(u, Position') <=> Earlier(u, Position) \/ u = Position
         /\ ~Earlier(Position, Position)
<1>1. /\ vnext \in 1..Len(VideoPackets) /\ vnal \in 1..Len(VideoPackets[vnext])
      /\ Len(VideoPackets) \in Nat /\ Len(VideoPackets[vnext]) \in Nat
      BY PacketFacts DEF WrapperInv, InHand
<1>2. Position = <<vnext, vnal>> BY DEF Position
<1>3. Position \in Units BY <1>1, <1>2, UnitFacts
<1>4. \/ vnal < Len(VideoPackets[vnext]) /\ Position' = <<vnext, vnal + 1>>
      \/ vnal = Len(VideoPackets[vnext]) /\ Position' = <<vnext + 1, 1>>
      BY <1>1 DEF NextNal, NextPacket, Position
<1>5. ASSUME NEW n \in 1..Len(VideoPackets), NEW i \in 1..Len(VideoPackets[n])
      PROVE  Earlier(<<n, i>>, Position')
               <=> Earlier(<<n, i>>, Position) \/ <<n, i>> = Position
  <2>1. i \in Nat /\ i >= 1 /\ n \in Nat /\ (n = vnext => i <= Len(VideoPackets[vnext]))
        BY <1>1, PacketFacts
  <2> QED BY <1>1, <1>2, <1>4, <2>1 DEF Earlier
<1>6. ~Earlier(Position, Position) BY <1>1, <1>2 DEF Earlier
<1>7. ASSUME NEW u \in Units
      PROVE  Earlier(u, Position') <=> Earlier(u, Position) \/ u = Position
  <2>1. PICK n \in 1..Len(VideoPackets) : \E i \in 1..Len(VideoPackets[n]) : u = <<n, i>>
        BY UnitFacts
  <2>2. PICK i \in 1..Len(VideoPackets[n]) : u = <<n, i>> BY <2>1
  <2> QED BY <1>5, <2>2
<1> QED BY <1>2, <1>3, <1>6, <1>7

(* What is past and counted when nothing moves.                            *)
LEMMA CountStays ==
  ASSUME CountInv, Position' = Position, UNCHANGED <<got, foundIdr>>,
         UNCHANGED <<written["video"]>>
  PROVE  CountInv'
<1>1. Past' = Past /\ PicturesBefore(Position)' = PicturesBefore(Position)
      BY DEF Past, PicturesBefore
<1>2. SetsKept' /\ KeySeen' BY <1>1 DEF CountInv, SetsKept, KeySeen
<1>3. Sent("video")' = Sent("video") BY DEF Sent
<1> QED BY <1>1, <1>2, <1>3 DEF CountInv

(* A unit that is no picture is passed over, one that is one was sent.     *)
LEMMA CountAdvance ==
  ASSUME WrapperInv, CountInv, vpc \notin {"idle", "fault"}, NextNal, SetsKept', KeySeen',
         IF InHeader(KindOf(Position)) THEN Sent("video")' = Sent("video")
                                       ELSE Sent("video")' = Sent("video") + 1
  PROVE  CountInv'
<1> DEFINE P == PicturesBefore(Position)
<1>1. CASE InHeader(KindOf(Position))
  <2>1. PicturesBefore(Position)' = P BY <1>1, Advance DEF PicturesBefore
  <2> QED BY <1>1, <2>1 DEF CountInv
<1>2. CASE ~InHeader(KindOf(Position))
  <2>1. PicturesBefore(Position)' = P \cup {Position}
        BY <1>2, Advance DEF PicturesBefore
  <2>2. Position \notin P BY Advance DEF PicturesBefore
  <2>3. IsFiniteSet(P) /\ Sent("video") = Cardinality(P) BY DEF CountInv
  <2> HIDE DEF P
  <2>4. IsFiniteSet(P \cup {Position}) /\ Cardinality(P \cup {Position}) = Cardinality(P) + 1
        BY <2>2, <2>3, FS_AddElement
  <2> QED BY <1>2, <2>1, <2>3, <2>4 DEF CountInv
<1> QED BY <1>1, <1>2

(* The unit in hand is seen as it is. *)
LEMMA UnitInHand ==
  ASSUME WrapperInv, vpc \notin {"idle", "fault"}, VideoType = "H264"
  PROVE  /\ Position \in Units /\ This.kind = KindOf(Position)
         /\ This.kind \in {"sps", "pps", "sei", "idr", "slice"}
         /\ InHeader(This.kind) <=> This.kind \in {"sps", "pps", "sei"}
         /\ This.kind \in {"sps", "pps"} => This.id \in SetIds
<1>1. vnext \in 1..Len(VideoPackets) /\ vnal \in 1..Len(VideoPackets[vnext])
      BY DEF WrapperInv, InHand
<1>2. Position = <<vnext, vnal>> BY DEF Position
<1>3. Position \in Units /\ VideoPackets[vnext][vnal] \in H264Nals BY <1>1, <1>2, UnitFacts
<1>4. This = VideoPackets[vnext][vnal] /\ This.kind = KindOf(Position)
      BY <1>2 DEF This, Seen, KindOf
<1> QED BY <1>3, <1>4 DEF H264Nals, Nal, InHeader, SetKinds

LEMMA CountCollect ==
  ASSUME WrapperInv, WrapperInv', CountInv, Collect, VideoType = "H264", BeginsWithKey
  PROVE  CountInv'
<1> DEFINE k == This.kind
<1>1. UNCHANGED muxerVars /\ vpc = "collect" BY DEF Collect
<1>2. /\ Position \in Units /\ k = KindOf(Position)
      /\ k \in {"sps", "pps", "sei", "idr", "slice"}
      /\ InHeader(k) <=> k \in {"sps", "pps", "sei"}
      /\ k \in {"sps", "pps"} => This.id \in SetIds
      BY <1>1, UnitInHand
<1>3. got \in [SetKinds -> SetIds \cup {0}] BY DEF WrapperInv, WrapperTypes
<1>4. /\ \A j \in {"sps", "pps"} : got[j] # 0 => got'[j] # 0
      /\ k \in {"sps", "pps"} => got'[k] # 0
      BY <1>2, <1>3, OutputAssumption DEF Collect, SetKinds, ExtraReady
<1>5. UNCHANGED <<foundIdr, written>> BY <1>1 DEF muxerVars, clockVars
<1>6. CASE ExtraReady(got')
  <2>1. Position' = Position BY <1>1, <1>6 DEF Collect, Position
  <2>2. SetsKept' BY <1>4, <2>1 DEF CountInv, SetsKept, Past
  <2> QED BY <1>5, <2>1, <2>2 DEF CountInv, KeySeen, Past, Sent
<1>7. CASE ~ExtraReady(got')
  <2>1. NextNal BY <1>7 DEF Collect
  <2>2. InHeader(k)
    <3> SUFFICES ASSUME ~InHeader(k) PROVE FALSE OBVIOUS
    <3>1. \A j \in {"sps", "pps"} : \E v \in Past : KindOf(v) = j
          BY <1>2 DEF BeginsWithKey, Past
    <3>2. \A j \in {"sps", "pps"} : got[j] # 0 BY <3>1 DEF CountInv, SetsKept
    <3> QED BY <1>4, <1>7, <3>2 DEF ExtraReady
  <2>3. Past' = Past \cup {Position} BY <1>1, <2>1, Advance DEF Past
  <2>4. SetsKept' BY <1>2, <1>4, <2>3 DEF CountInv, SetsKept
  <2>5. KeySeen' BY <1>2, <1>5, <2>2, <2>3 DEF CountInv, KeySeen
  <2>6. Sent("video")' = Sent("video") BY <1>5 DEF Sent
  <2> QED BY <1>1, <1>2, <2>1, <2>2, <2>4, <2>5, <2>6, CountAdvance
<1> QED BY <1>6, <1>7

LEMMA CountSend ==
  ASSUME WrapperInv, CountInv, StampInv, StampInv', SendNal, VideoType = "H264", BeginsWithKey
  PROVE  CountInv'
<1> DEFINE k == This.kind
           t == At("video", clock["video"])
<1>1. vpc = "send" /\ NextNal /\ SendVideo(This, t) /\ got' = got BY DEF SendNal
<1>2. /\ Position \in Units /\ k = KindOf(Position)
      /\ k \in {"sps", "pps", "sei", "idr", "slice"}
      /\ InHeader(k) <=> k \in {"sps", "pps", "sei"}
      BY <1>1, UnitInHand
<1>3. got["sps"] # 0 /\ got["pps"] # 0 BY <1>1 DEF WrapperInv, SetsReady, ExtraReady
<1>4. Past' = Past \cup {Position} BY <1>1, Advance DEF Past
<1>5. SetsKept' BY <1>1, <1>3 DEF SetsKept
<1>6. foundIdr' = (foundIdr \/ Begins(k)) BY <1>1 DEF SendVideo
<1>7. KeySeen' BY <1>2, <1>4, <1>6 DEF CountInv, KeySeen, Begins
<1>8. CASE InHeader(k)
  <2>1. Sent("video")' = Sent("video") BY <1>1, <1>8 DEF SendVideo, clockVars, Sent
  <2> QED BY <1>1, <1>2, <1>5, <1>7, <1>8, <2>1, CountAdvance
<1>9. CASE ~InHeader(k)
  <2>1. k # "idr" => \E v \in Past : KindOf(v) = "idr"
        BY <1>2, <1>9 DEF BeginsWithKey, Past
  <2>2. foundIdr' BY <1>2, <1>6, <1>9, <2>1 DEF CountInv, KeySeen, Begins
  <2>3. Write("video", t) BY <1>1, <1>9, <2>2 DEF SendVideo
  <2>4. frames'["video"] = frames["video"] + 1 BY <2>3 DEF Write, StampInv, TypeOK, Streams
  <2>5. Sent("video") = frames["video"] /\ Sent("video")' = frames'["video"]
        BY DEF Sent, StampInv, Counted, Streams
  <2>6. Sent("video")' = Sent("video") + 1 BY <2>4, <2>5
  <2> QED BY <1>1, <1>2, <1>5, <1>7, <1>9, <2>6, CountAdvance
<1> QED BY <1>8, <1>9

(* Every other step leaves the position and the video packets alone. *)
LEMMA CountOthers ==
  ASSUME WrapperInv, CountInv, TypeOK, [OutputNext]_vars, ~Collect, ~SendNal
  PROVE  CountInv'
<1>1. UNCHANGED <<got, foundIdr>> /\ written'["video"] = written["video"]
  <2>1. CASE Video \/ DeleteSource \/ Teardown
    <3>1. UNCHANGED got
          BY <2>1 DEF Video, VideoPacket, AddVideoStream, AskAudio, AddAudioStream, OpenFile,
                      WriteHeader, SetStreams, DeleteSource, Teardown, DeleteVideo,
                      DeleteAacDecoder, DeleteAacEncoder, EndFile
    <3>2. UNCHANGED <<foundIdr, written>>
          BY <2>1 DEF Video, VideoPacket, AddVideoStream, AskAudio, AddAudioStream, OpenFile,
                      WriteHeader, SetStreams, DeleteSource, Teardown, DeleteVideo,
                      DeleteAacDecoder, DeleteAacEncoder, EndFile, muxerVars, clockVars,
                      AddVideo, AddAudio, Open, SendHeader, SendTrailer
    <3> QED BY <3>1, <3>2
  <2>2. CASE Audio
    <3>1. UNCHANGED <<got, foundIdr>>
          BY <2>2 DEF Audio, MakeAac, InitAac, AudioPacket, SendAudio, muxerVars
    <3>2. CASE UNCHANGED muxerVars BY <3>1, <3>2 DEF muxerVars, clockVars
    <3>3. CASE SendAudio(At("audio", clock'["audio"]))
      <4>1. Write("audio", At("audio", clock'["audio"])) BY <3>3 DEF SendAudio
      <4>2. written'["video"] = written["video"] BY <4>1 DEF Write, TypeOK, Streams
      <4> QED BY <3>1, <4>2
    <3> QED BY <2>2, <3>2, <3>3 DEF Audio, MakeAac, InitAac, AudioPacket, muxerVars
  <2>3. CASE UNCHANGED vars BY <2>3 DEF vars, wrapperVars, muxerVars, clockVars
  <2> QED BY <2>1, <2>2, <2>3 DEF OutputNext
<1>2. Position' = Position
  <2>1. CASE VideoPacket BY <2>1 DEF VideoPacket, Position
  <2>2. CASE Video /\ ~VideoPacket
        BY <2>2 DEF Video, AddVideoStream, AskAudio, AddAudioStream, OpenFile, WriteHeader,
                    SetStreams, Position
  <2>3. CASE Audio \/ DeleteSource \/ Teardown
        BY <2>3 DEF Audio, MakeAac, InitAac, AudioPacket, DeleteSource, Teardown, DeleteVideo,
                    DeleteAacDecoder, DeleteAacEncoder, EndFile, Position
  <2>4. CASE UNCHANGED vars BY <2>4 DEF vars, wrapperVars, Position
  <2> QED BY <2>1, <2>2, <2>3, <2>4 DEF OutputNext
<1> QED BY <1>1, <1>2, CountStays

LEMMA InitCount == OutputInit => CountInv
<1> SUFFICES ASSUME OutputInit PROVE CountInv OBVIOUS
<1>1. Position = <<1, 1>> BY DEF OutputInit, Position
<1>2. ASSUME NEW u \in Units PROVE ~Earlier(u, Position)
  <2>1. PICK n \in 1..Len(VideoPackets) : \E i \in 1..Len(VideoPackets[n]) : u = <<n, i>>
        BY UnitFacts
  <2>2. PICK i \in 1..Len(VideoPackets[n]) : u = <<n, i>> BY <2>1
  <2>3. n \in Nat /\ n >= 1 /\ i \in Nat /\ i >= 1 BY PacketFacts
  <2> QED BY <1>1, <2>2, <2>3 DEF Earlier
<1>3. Past = {} /\ PicturesBefore(Position) = {} BY <1>2 DEF Past, PicturesBefore
<1>4. Sent("video") = 0 BY EmptySeq DEF OutputInit, Init, Sent, Streams
<1> QED BY <1>3, <1>4, FS_EmptySet DEF CountInv, SetsKept, KeySeen

(***************************************************************************)
(* When the file ends, it holds one packet for every picture the encoder   *)
(* made, whenever the wrapper was destroyed and however the audio threads  *)
(* interleave; and its header names the audio stream if there is one.      *)
(***************************************************************************)
THEOREM FileIsComplete ==
  ASSUME \A s \in Streams, n \in Nat : At(s, n) \in Stamps, VideoType = "H264", BeginsWithKey
  PROVE  SafeSpec => []FileComplete
<1>1. FileInv /\ FileInv' /\ CountInv /\ [OutputNext]_vars => CountInv'
      BY CountCollect, CountSend, CountOthers DEF FileInv, ClockInv, StampInv
<1>2. FileInv /\ CountInv => EveryPictureSent
      BY DEF FileInv, WrapperInv, Ending, CountInv, Position, EveryPictureSent
<1> QED BY <1>1, <1>2, InitCount, FileInvariant, OutputTypeCorrect, HeaderIsComplete, PTL
        DEF SafeSpec, FileComplete
=============================================================================
