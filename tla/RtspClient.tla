----------------------------- MODULE RtspClient -----------------------------
(***************************************************************************)
(* The RTSP client over one TCP connection, rtsp_client.cpp in             *)
(* Media/MediaReader/RtspReader: the dialogue of Connect, then the parser  *)
(* of interleaved packets of ReadPacketTcp, and the H264 depacketiser      *)
(* rtp/h264_demuxer.cpp behind it (h265_demuxer.cpp differs in the size of *)
(* the headers only).                                                      *)
(*                                                                         *)
(* TCP hands the server's answers and its packets over in pieces that have *)
(* nothing to do with their ends.  Connect looks for an answer in what it  *)
(* has; ReadPacketTcp is a state machine over bytes.                       *)
(*                                                                         *)
(* The wire carries items: a line of an RTSP message, or a byte of a       *)
(* packet.  An answer is cut between its lines or inside one; a line comes *)
(* in two parts at most, and how the first reads is Pieces.  The bytes of  *)
(* a packet are what kind of RTP payload it is, the number of its NAL unit *)
(* and whatever follows.  The server is external: it answers or refuses    *)
(* every request, and an answer is of interest by its status and the one   *)
(* header Connect looks for.  RTP over UDP is left out.                    *)
(***************************************************************************)
EXTENDS Integers, FiniteSets, Sequences, SequencesExt

CONSTANTS
  Media,   \* the media the session description offers
  Auth,    \* whether the server asks for credentials
  Breaks,  \* whether the connection may break
  Cuts,    \* bound: of how many answers TCP may cut lines
  Refusals,\* bound: how many requests the server may refuse
  Stream   \* what the server sends once it plays: packets and texts

VideoChannel == 0
AudioChannel == 2

ASSUME ClientAssumption ==
  /\ Media \subseteq {"video", "audio"}
  /\ Auth \in BOOLEAN /\ Breaks \in BOOLEAN
  /\ Cuts \in Nat /\ Refusals \in Nat
  /\ Stream \in Seq([text : BOOLEAN, channel : Nat, body : Seq(Nat)])

VARIABLES
  stat,    \* rtsp_cmd_stat_, or "failed"
  todo,    \* what Connect does next: "step" or "recv"
  buf,     \* buffer_cmd_, the bytes received and not used, in lines
  part,    \* how the last line of buf reads when only a part of it has come, or <<>>
  realm,   \* realm_ and nonce_ are known
  session, \* session_: how much of it is known, 0 when empty
  setup,   \* the media whose setup flag is set
  asked,   \* history: the requests sent
  served,  \* how many of them the server has answered
  refused, \* history: how many of them it has refused
  wire,    \* what is on its way to the client
  trouble, \* history: an answer came in several pieces, or the connection broke
  cut,     \* history: a Session line was cut
  dropped, \* history: how many items of the stream Connect left in its buffer
  rx       \* the state of the parser and the depacketiser

dialogue == <<stat, todo, buf, part, realm, session, setup, asked>>
server == <<served, refused>>
clientVars == <<dialogue, server, wire, trouble, cut, dropped, rx>>

-----------------------------------------------------------------------------
(* The wire.                                                               *)

Line(kind, v) == [line |-> kind, v |-> v]
Byte(v) == Line("byte", v)
Dollar == 36

Id == 2           \* the session the server gives: its two characters
Credentials == 2  \* realm and nonce, as opposed to one of them

(* RTP over TCP: a '$', the channel, two bytes of length, the packet. *)
Bytes(item) ==
  IF item.text
  THEN <<Line("text", 0), Line("text", 0)>>
  ELSE <<Byte(Dollar), Byte(item.channel), Byte(Len(item.body) \div 256),
         Byte(Len(item.body) % 256)>> \o [i \in DOMAIN item.body |-> Byte(item.body[i])]

StreamBytes == FlattenSeq([i \in DOMAIN Stream |-> Bytes(Stream[i])])

Body == <<Line("body", 0), Line("body", 0)>>

Unauthorized == <<Line("status", 401), Line("authenticate", Credentials), Line("blank", 0)>>

Answer(r) ==
  CASE r.what = "OPTIONS"  -> <<Line("status", 200), Line("blank", 0)>>
    [] r.what = "DESCRIBE" ->
         IF Auth /\ ~r.auth
         THEN Unauthorized
         ELSE <<Line("status", 200), Line("length", Len(Body)), Line("blank", 0)>> \o Body
    [] r.what = "SETUP"    -> <<Line("status", 200), Line("session", Id), Line("blank", 0)>>
    [] r.what = "PLAY"     -> <<Line("status", 200), Line("session", Id), Line("blank", 0)>>
                              \o StreamBytes

(* A refusal has none of the headers, or asks for other credentials. *)
Refusal(r) ==
  {<<Line("status", 454), Line("blank", 0)>>}
    \cup {a \in {Unauthorized} : Auth /\ r.what = "DESCRIBE"}

(* A session that is not the server's may be refused at any time. *)
Known(r) == r.session \in {0, Id}

ServerAnswers ==
  /\ served < Len(asked)
  /\ \/ /\ wire' = wire \o Answer(asked[served + 1])
        /\ refused' = refused
     \/ /\ refused < Refusals \/ ~Known(asked[served + 1])
        /\ \E a \in Refusal(asked[served + 1]) : wire' = wire \o a
        /\ refused' = refused + 1
  /\ served' = served + 1
  /\ UNCHANGED <<dialogue, trouble, cut, dropped, rx>>

-----------------------------------------------------------------------------
(* Connect.                                                                *)

ClientInit ==
  /\ stat = "NONE" /\ todo = "step" /\ buf = <<>> /\ part = <<>>
  /\ realm = FALSE /\ session = 0 /\ setup = {} /\ asked = <<>>
  /\ served = 0 /\ refused = 0 /\ wire = <<>>
  /\ trouble = FALSE /\ cut = FALSE /\ dropped = 0
  /\ rx = [state |-> "EMPTY", hdr |-> <<>>, channel |-> 0, len |-> 0, body |-> <<>>,
           nal |-> <<>>, started |-> FALSE, ready |-> FALSE,
           packets |-> <<>>, units |-> <<>>]

(* How a line reads of which only a beginning has come: it is not known    *)
(* yet, or its code or its value is cut short.  The other lines read as if *)
(* they had not come: a Content-Length is not looked at before the blank   *)
(* line is there.                                                          *)
Cuttable == {"status", "authenticate", "session"}
Pieces(l) ==
  {Line("text", 0)}
    \cup (IF l.line = "status" THEN {Line("status", l.v \div 10), l}
          ELSE {Line(l.line, v) : v \in 0..l.v})

Seen == IF part = <<>> THEN buf ELSE [buf EXCEPT ![Len(buf)] = part[1]]

(* ParseRTSPMessage: skip what is left of the message before, take the     *)
(* status and the lines up to the blank one, or what there is of them; the *)
(* last line is taken whether its end has come or not.                     *)
FirstLine(kind, from, to) ==
  LET at == {i \in from..to : Seen[i].line = kind}
  IN  IF at = {} THEN 0 ELSE Min(at)

Status == FirstLine("status", 1, Len(buf))
Blank == FirstLine("blank", Status + 1, Len(buf))
Used == IF Blank = 0 THEN Len(buf) ELSE Blank
After(n) == SubSeq(buf, n + 1, Len(buf))

(* What the answer used leaves.  The rest of a line that was used before   *)
(* its end still comes, and is text to the next search for a status.       *)
Use(n) ==
  IF part # <<>> /\ n >= Len(buf)
  THEN buf' = <<Line("text", 0)>> /\ part' = buf'
  ELSE buf' = After(n) /\ part' = part

(* GetValueByKey; 0 when there is no such header. *)
Value(key) ==
  LET at == FirstLine(key, Status + 1, Used)
  IN  IF at = 0 THEN 0 ELSE Seen[at].v

(* Send a request.  buf keeps what the answer before did not use. *)
Ask(what, media, auth) ==
  asked' = Append(asked, [what |-> what, media |-> media, auth |-> auth, session |-> session'])

Await(s) == stat' = s /\ todo' = "recv"

(* An answer without what is needed: wait for more of it. *)
Incomplete == /\ todo' = "recv"
              /\ UNCHANGED <<stat, buf, part, realm, session, setup, asked>>

Fail == stat' = "failed" /\ UNCHANGED <<todo, buf, part, realm, session, setup, asked>>

NoStatus == stat # "NONE" /\ Status = 0 /\ Fail

SendOptions ==
  /\ stat = "NONE"
  /\ Await("OPTIONS")
  /\ UNCHANGED <<buf, part, realm, session, setup>>
  /\ Ask("OPTIONS", "none", FALSE)

DecodeOptions ==
  /\ stat = "OPTIONS" /\ Status # 0
  /\ Await("DESCRIBE")
  /\ Use(Used)
  /\ UNCHANGED <<realm, session, setup>>
  /\ Ask("DESCRIBE", "none", FALSE)

(* 401: ask again with credentials.  Made from half of a header they are   *)
(* as good as none.                                                        *)
DecodeUnauthorized ==
  /\ stat = "DESCRIBE" /\ Status # 0 /\ Seen[Status].v = 401
  /\ IF Value("authenticate") = 0
     THEN Incomplete
     ELSE /\ realm' = (realm \/ Value("authenticate") = Credentials)
          /\ Use(Used)
          /\ Await("DESCRIBE")
          /\ UNCHANGED <<session, setup>>
          /\ Ask("DESCRIBE", "none", realm')

SetupOf(media) == IF media = "video" THEN "STEUP_VIDEO" ELSE "STEUP_ADUIO"

(* The description is taken when its body is there as a whole; the first   *)
(* medium is set up.  Variant: the body has to be longer than it is.       *)
BodyLonger ==
  Blank # 0 /\ Value("length") # 0 /\ Len(buf) - Used > Value("length")
BodyThere ==
  Blank # 0 /\ Value("length") # 0 /\ Len(buf) - Used >= Value("length")

DecodeDescribe ==
  /\ stat = "DESCRIBE" /\ Status # 0 /\ Seen[Status].v # 401
  /\ IF ~BodyThere THEN Incomplete
     ELSE IF Media = {} THEN Fail
     ELSE LET first == IF "video" \in Media THEN "video" ELSE "audio"
          IN  /\ Await(SetupOf(first))
              /\ Use(Used + Value("length"))
              /\ setup' = {first}
              /\ UNCHANGED <<realm, session>>
              /\ Ask("SETUP", first, realm)

(* The medium that is still to be set up.  Variant: there is only one.     *)
NoMore == {}
StillToSetUp == Media \ setup

DecodeSetup ==
  /\ \E media \in Media : stat = SetupOf(media)
  /\ Status # 0
  /\ IF Value("session") = 0 THEN Incomplete
     ELSE /\ Use(Used)
          /\ session' = IF session = 0 THEN Value("session") ELSE session
          /\ realm' = realm
          /\ IF StillToSetUp = {}
             THEN Await("PLAY") /\ setup' = setup /\ Ask("PLAY", "none", realm)
             ELSE \E media \in StillToSetUp :
                    /\ Await(SetupOf(media))
                    /\ setup' = setup \cup {media}
                    /\ Ask("SETUP", media, realm)

(* With the answer to PLAY the dialogue ends.  What else is in buf is not  *)
(* looked at again, and forgotten here.                                    *)
DecodePlay ==
  /\ stat = "PLAY" /\ Status # 0
  /\ IF Value("session") = 0 THEN Incomplete
     ELSE /\ stat' = "PLAYING" /\ buf' = <<>> /\ part' = <<>>
          /\ UNCHANGED <<todo, realm, session, setup, asked>>

Decode ==
  /\ todo = "step" /\ stat \notin {"PLAYING", "failed"}
  /\ \/ SendOptions \/ DecodeOptions \/ DecodeUnauthorized \/ DecodeDescribe
     \/ DecodeSetup \/ DecodePlay \/ NoStatus
  /\ dropped' = IF stat' = "PLAYING" THEN Len(After(Used)) ELSE dropped
  /\ UNCHANGED <<server, wire, trouble, cut, rx>>

(* The first n lines of the wire come, behind what is left in buf and the  *)
(* rest of its last line.                                                  *)
Come(n) ==
  /\ buf' = buf \o SubSeq(wire, 1, n)
  /\ wire' = SubSeq(wire, n + 1, Len(wire))
  /\ todo' = "step"
  /\ UNCHANGED <<stat, realm, session, setup, asked, server, dropped, rx>>

Receive ==
  /\ todo = "recv" /\ stat # "failed"
  /\ \E n \in 0..Len(wire) :
       /\ n > 0 \/ part # <<>>
       /\ Come(n)
       /\ trouble' = (trouble \/ (n < Len(wire) /\ wire[n + 1].line \notin {"byte", "text"}))
  /\ part' = <<>> /\ cut' = cut

(* The last of them is not there to its end.  Bound: Cuts. *)
ReceiveCut ==
  /\ todo = "recv" /\ stat # "failed" /\ Len(asked) <= Cuts
  /\ \E n \in 1..Len(wire) :
       /\ wire[n].line \in Cuttable
       /\ Come(n)
       /\ \E l \in Pieces(wire[n]) : part' = <<l>>
       /\ cut' = (cut \/ wire[n].line = "session")
  /\ trouble' = TRUE

(* The connection breaks, or a request cannot be sent. *)
Break ==
  /\ Breaks /\ stat \notin {"PLAYING", "failed"}
  /\ Fail
  /\ trouble' = TRUE
  /\ UNCHANGED <<server, wire, cut, dropped, rx>>

-----------------------------------------------------------------------------
(* ReadPacketTcp.                                                          *)

(* The kinds of RTP payload: a NAL unit of its own, or a fragment. *)
Sps == 1
Slice == 2
Start == 3
Middle == 4
End == 5

(* RtspClient::OnVideoData: nothing before the first SPS.  Variant: all.   *)
GiveAll(r, unit) == [r EXCEPT !.units = Append(@, unit)]
Give(r, unit) ==
  LET ready == r.ready \/ unit[1] = Sps
  IN  [r EXCEPT !.ready = ready, !.units = IF ready THEN Append(@, unit) ELSE @]

(* H264Demuxer::InputData.  A unit of its own is put together in the same  *)
(* buffer as the fragments before it.                                      *)
Depacketise(r, body) ==
  CASE body[1] = Start                -> [r EXCEPT !.started = TRUE, !.nal = @ \o body]
    [] body[1] = End /\ r.started     ->
         Give([r EXCEPT !.started = FALSE, !.nal = <<>>], r.nal \o body)
    [] body[1] = Middle /\ r.started  -> [r EXCEPT !.nal = @ \o body]
    [] body[1] \in {Sps, Slice}       ->
         Give([r EXCEPT !.nal = [i \in DOMAIN @ |-> IF i <= Len(body) THEN body[i] ELSE @[i]]],
              body)
    [] OTHER                          -> r

(* A packet is complete.  Other channels than the two are ignored. *)
Delivered(r) ==
  [IF r.channel = VideoChannel THEN Depacketise(r, r.body) ELSE r
   EXCEPT !.packets = IF r.channel \in {VideoChannel, AudioChannel}
                      THEN Append(@, r.body) ELSE @]

(* Forget the packet.  Variant: its bytes stay.                            *)
ForgetLength(r) == [r EXCEPT !.state = "EMPTY", !.len = 0]
Forget(r) == [r EXCEPT !.state = "EMPTY", !.len = 0, !.body = <<>>]

(* One byte, in the state the parser is in. *)
Take(r, b) ==
  CASE r.state \in {"EMPTY", "MESSAGE"} ->
         IF b = Byte(Dollar) THEN [r EXCEPT !.state = "HEADER", !.hdr = <<b>>]
                             ELSE [r EXCEPT !.state = "MESSAGE"]
    [] r.state = "HEADER" /\ Len(r.hdr) < 3 -> [r EXCEPT !.hdr = Append(@, b)]
    [] r.state = "HEADER" /\ Len(r.hdr) = 3 ->
         [r EXCEPT !.state = "CONTENT", !.channel = r.hdr[2].v,
                   !.len = 256 * r.hdr[3].v + b.v, !.hdr = <<>>]
    [] OTHER -> [r EXCEPT !.body = Append(@, b.v)]

(* A full packet is noticed with the byte that follows it.  Variant: that  *)
(* byte is lost.                                                           *)
SwallowByte(r, b) ==
  IF r.state = "CONTENT" /\ Len(r.body) >= r.len THEN Forget(Delivered(r)) ELSE Take(r, b)
Parse(r, b) ==
  IF r.state = "CONTENT" /\ Len(r.body) >= r.len
  THEN Take(Forget(Delivered(r)), b)
  ELSE Take(r, b)

ReadPacketTcp ==
  /\ stat = "PLAYING"
  /\ \E n \in 1..Len(wire) :
       LET parsed[i \in 0..n] == IF i = 0 THEN rx ELSE Parse(parsed[i - 1], wire[i])
       IN  /\ rx' = parsed[n]
           /\ wire' = SubSeq(wire, n + 1, Len(wire))
  /\ UNCHANGED <<dialogue, server, trouble, cut, dropped>>

Connect == Decode \/ Receive \/ ReceiveCut
ClientNext == Connect \/ ReadPacketTcp \/ Break \/ ServerAnswers

(* The server answers what it is asked, and Connect goes on.  When the     *)
(* receive thread reads is of no matter to what is promised here.          *)
ClientSafeSpec == ClientInit /\ [][ClientNext]_clientVars
ClientSpec == ClientSafeSpec /\ WF_clientVars(Connect) /\ WF_clientVars(ServerAnswers)
-----------------------------------------------------------------------------
(* Properties.                                                             *)

Requests ==
  [what : {"OPTIONS", "DESCRIBE", "SETUP", "PLAY"}, media : Media \cup {"none"},
   auth : BOOLEAN, session : 0..Id]
Lines ==
  [line : {"status", "authenticate", "length", "session", "blank", "body", "text", "byte"}, v : Nat]

(* The type of every variable of the client. *)
ClientTypeOK ==
  /\ stat \in {"NONE", "OPTIONS", "DESCRIBE", "PLAY", "PLAYING", "failed"}
            \cup {SetupOf(media) : media \in Media}
  /\ todo \in {"step", "recv"}
  /\ buf \in Seq(Lines) /\ wire \in Seq(Lines)
  /\ part = <<>> \/ (buf # <<>> /\ part \in [{1} -> Lines])
  /\ realm \in BOOLEAN /\ trouble \in BOOLEAN /\ cut \in BOOLEAN
  /\ session \in 0..Id /\ setup \subseteq Media
  /\ asked \in Seq(Requests) /\ served \in 0..Len(asked) /\ refused \in Nat
  /\ dropped \in Nat
  /\ rx.state \in {"EMPTY", "HEADER", "CONTENT", "MESSAGE"}
  /\ Len(rx.hdr) < 4 /\ Len(rx.body) <= rx.len

(* PLAY is asked for once, when every medium of the description has been   *)
(* set up exactly once, and with credentials when the server wants them,   *)
(* however its answers were cut.  It carries the session of the server;    *)
(* only if a Session line was cut, which DecodeSTEUP does not notice, it   *)
(* may carry no more than the beginning of it.                             *)
PlayIsPrepared ==
  ClientTypeOK /\ \A i \in DOMAIN asked : asked[i].what = "PLAY" =>
    /\ i = Len(asked)
    /\ asked[i].session # 0 /\ (~cut => asked[i].session = Id)
    /\ asked[i].auth = Auth
    /\ \A media \in Media :
         Cardinality({j \in DOMAIN asked : asked[j].what = "SETUP" /\ asked[j].media = media}) = 1

(* An attempt to connect comes to an end, and to a good one unless an      *)
(* answer came in pieces or the connection broke.  Only a server that has  *)
(* refused a request can leave it waiting for ever for a header, which it  *)
(* does: recv has no time limit here.                                      *)
Stuck == /\ todo = "recv" /\ refused > 0
         /\ served = Len(asked) /\ wire = <<>> /\ part = <<>>
ConnectEnds == <>[](stat = "PLAYING" \/ (stat = "failed" /\ trouble) \/ Stuck)

(* The packets given to the depacketisers are, whole and in order, exactly *)
(* those that begin behind what Connect left in its buffer and that at     *)
(* least one byte has followed: however TCP cuts the stream, the parser    *)
(* finds the first whole packet, and loses and joins none after it.        *)
Offset == [i \in 1..(Len(Stream) + 1) |->
             Len(FlattenSeq([j \in 1..(i - 1) |-> Bytes(Stream[j])]))]
Read == Len(StreamBytes) - Len(wire)
Followed ==
  IF stat = "PLAYING" THEN Cardinality({i \in DOMAIN Stream : Offset[i + 1] < Read}) ELSE 0
Carried(i, channels) ==
  ~Stream[i].text /\ Stream[i].channel \in channels /\ Offset[i] >= dropped
Bodies(channels) ==
  LET bodies[i \in 0..Len(Stream)] ==
        IF i = 0 THEN <<>>
        ELSE IF Carried(i, channels) THEN Append(bodies[i - 1], Stream[i].body)
        ELSE bodies[i - 1]
  IN  bodies
PacketsWhole == rx.packets = Bodies({VideoChannel, AudioChannel})[Followed]

(* The NAL units given to the proxy are those of the packets above: a      *)
(* packet that is one, or all fragments from a start to its end; a unit    *)
(* whose start was lost is left out, and so is what comes before an SPS.   *)
Starts(video, k) ==
  {s \in 1..k : /\ video[s][1] = Start
                /\ \A j \in (s + 1)..(k - 1) : video[j][1] = Middle}
UnitAt(video, k) ==
  CASE video[k][1] \in {Sps, Slice} -> <<video[k]>>
    [] video[k][1] = End /\ Starts(video, k) # {} ->
         <<FlattenSeq(SubSeq(video, CHOOSE s \in Starts(video, k) : TRUE, k))>>
    [] OTHER -> <<>>
UnitsOf(video) ==
  LET sps == SelectInSeq(video, LAMBDA body : body[1] = Sps)
  IN  IF sps = 0 THEN <<>>
      ELSE FlattenSeq([k \in 1..(Len(video) - sps + 1) |-> UnitAt(video, sps + k - 1)])
UnitsWhole == rx.units = UnitsOf(Bodies({VideoChannel})[Followed])

(* The parser looks for a '$' from where Connect stopped.  When that is in *)
(* the middle of a packet, a '$' in the rest of it is taken for the        *)
(* beginning of another, and nothing is promised of such a stream.         *)
CleanCut ==
  \A i \in DOMAIN Stream : Offset[i] < dropped =>
    \A j \in (dropped + 1)..Offset[i + 1] : StreamBytes[j] # Byte(Dollar)

(* Otherwise what comes out of the client is whole, packets and units.     *)
StreamWhole == CleanCut => PacketsWhole /\ UnitsWhole

(* RFC 6184: the fragments of a unit follow each other on their channel.   *)
Video(i) == ~Stream[i].text /\ Stream[i].channel = VideoChannel
FragmentsTogether ==
  /\ \A i \in DOMAIN Stream : Video(i) => Stream[i].body # <<>>
  /\ \A i, j \in DOMAIN Stream :
       /\ i < j /\ Video(i) /\ Video(j) /\ \A k \in (i + 1)..(j - 1) : ~Video(k)
       /\ Stream[i].body[1] \in {Start, Middle}
       => Stream[j].body[1] \in {Middle, End}
=============================================================================
