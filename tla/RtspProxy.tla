------------------------------ MODULE RtspProxy ------------------------------
(***************************************************************************)
(* The RTSP proxy, rtsp_client_proxy.cpp in Media/MediaReader/RtspReader,  *)
(* with the life of the clients it makes (rtsp_client.cpp; what a client   *)
(* says to the server and reads from it is module RtspClient).             *)
(*                                                                         *)
(* The owner's thread makes the first client and connects it, waits until  *)
(* the frame rate is known and sets its listener.  The reconnect thread    *)
(* looks once a second whether the client is still connected; if not it    *)
(* deletes the client, makes a new one and connects that.  Each client     *)
(* that has connected runs a receive thread, which calls the proxy for     *)
(* every NAL unit.  They share plain members without a lock.               *)
(*                                                                         *)
(* A unit is an SPS or a slice.  Of the time stamps the model keeps which  *)
(* connection they come from, of their sum which intervals are in it.      *)
(***************************************************************************)
EXTENDS Integers, FiniteSets

CONSTANTS
  MaxConnects, \* bound: clients made; the network does not fail with the last
  Probe        \* PROBEFRAME, how many intervals are summed

ASSUME ProxyAssumption == MaxConnects \in Nat \ {0} /\ Probe \in Nat \ {0}

VARIABLES
  conn,      \* the number of the client, counted from 1
  client,    \* client_: whether it exists, and its members
  link,      \* whether the client's connection delivers data
  thread,    \* thread[n]: where the receive thread of the n-th client is
  unit,      \* the NAL unit it has in hand
  count,     \* probe_cnt_
  summed,    \* the number of intervals in interval_sum_
  spanned,   \* whether one of them goes from one connection to another, or was
             \* in the sum already when the count began again
  last,      \* the connection last_timestamp_ came from, 0 when there is none
  fps,       \* whether fps_ is known
  ready,     \* video_ready_
  listening, \* whether data_listner_ is set
  first,     \* history: the first unit the listener was given
  run,       \* run_flag_ of the proxy
  tpc,       \* where the reconnect thread is
  wpc,       \* where the owner is
  fault      \* what ended the process, "none" if nothing has

receiver == <<thread, unit>>
probing == <<count, summed, spanned, last, fps>>
giving == <<ready, listening, first>>
proxyVars == <<conn, client, link, receiver, probing, giving, run, tpc, wpc, fault>>

NewClient == [exists |-> TRUE, sdp |-> FALSE, connected |-> FALSE, run |-> TRUE,
              tid |-> FALSE, callback |-> FALSE, ready |-> FALSE]

ProxyInit ==
  /\ conn = 1 /\ client = NewClient /\ link = FALSE
  /\ thread = [n \in 1..MaxConnects |-> "none"] /\ unit = "none"
  /\ count = 0 /\ summed = 0 /\ spanned = FALSE /\ last = 0 /\ fps = FALSE
  /\ ready = FALSE /\ listening = FALSE /\ first = "none"
  /\ run = TRUE
  /\ tpc = "none" /\ wpc = "connect" /\ fault = "none"

MayFail == conn < MaxConnects

(* The two threads that connect and delete clients, as one: a caller is    *)
(* where at says, and moves to the place named.                            *)
At(pc) == wpc = pc \/ tpc = pc
Move(from, to) ==
  IF wpc = from THEN wpc' = to /\ tpc' = tpc ELSE tpc' = to /\ wpc' = wpc

-----------------------------------------------------------------------------
(* RtspClient::Connect and SetCallBack.                                    *)

ConnectFails ==
  /\ At("connect") /\ MayFail
  /\ \E described \in BOOLEAN : client' = [client EXCEPT !.sdp = described]
  /\ Move("connect", "callback")
  /\ UNCHANGED <<conn, link, receiver, probing, giving, run, fault>>

(* The server plays: start the receive thread. *)
ConnectPlays ==
  /\ At("connect")
  /\ client' = [client EXCEPT !.sdp = TRUE]
  /\ link' = TRUE
  /\ thread' = [thread EXCEPT ![conn] = "spawned"]
  /\ Move("connect", "connected")
  /\ UNCHANGED <<conn, unit, probing, giving, run, fault>>

(* Only then say so. *)
Connected ==
  /\ At("connected")
  /\ client' = [client EXCEPT !.connected = TRUE]
  /\ Move("connected", "callback")
  /\ UNCHANGED <<conn, link, receiver, probing, giving, run, fault>>

SetCallBack ==
  /\ At("callback")
  /\ client' = [client EXCEPT !.callback = TRUE]
  /\ IF wpc = "callback" THEN wpc' = "start" /\ tpc' = tpc ELSE tpc' = "sleep" /\ wpc' = wpc
  /\ UNCHANGED <<conn, link, receiver, probing, giving, run, fault>>

Connecting == ConnectFails \/ ConnectPlays \/ Connected \/ SetCallBack

-----------------------------------------------------------------------------
(* RtspClient::~RtspClient.                                                *)

StopReceiving ==
  /\ At("delete")
  /\ client' = [client EXCEPT !.run = FALSE]
  /\ Move("delete", "joinTest")
  /\ UNCHANGED <<conn, link, receiver, probing, giving, run, fault>>

Deleted == client' = [client EXCEPT !.exists = FALSE]

(* The thread is joined only if it says that it runs; std::thread ends the *)
(* process when it is destroyed with a thread that was started and not     *)
(* joined.                                                                 *)
JoinTest ==
  /\ At("joinTest")
  /\ IF client.tid
     THEN Move("joinTest", "joinReceiver") /\ UNCHANGED <<client, fault>>
     ELSE IF thread[conn] = "none"
     THEN Move("joinTest", "deleted") /\ Deleted /\ UNCHANGED fault
     ELSE fault' = "terminate" /\ UNCHANGED <<client, tpc, wpc>>
  /\ UNCHANGED <<conn, link, receiver, probing, giving, run>>

(* Variant: the thread is not waited for.                                  *)
SkipJoin ==
  /\ At("joinReceiver")
  /\ Deleted
  /\ Move("joinReceiver", "deleted")
  /\ UNCHANGED <<conn, link, receiver, probing, giving, run, fault>>

JoinReceiver ==
  /\ At("joinReceiver") /\ thread[conn] = "ended"
  /\ Deleted
  /\ Move("joinReceiver", "deleted")
  /\ UNCHANGED <<conn, link, receiver, probing, giving, run, fault>>

Deleting == StopReceiving \/ JoinTest \/ JoinReceiver

-----------------------------------------------------------------------------
(* The reconnect thread.                                                   *)

CheckRun ==
  /\ tpc = "check"
  /\ tpc' = IF run THEN "stat" ELSE "done"
  /\ UNCHANGED <<conn, client, link, receiver, probing, giving, run, wpc, fault>>

(* A client that is not connected is replaced. *)
CheckStat ==
  /\ tpc = "stat"
  /\ tpc' = IF client.connected THEN "sleep" ELSE "probing"
  /\ UNCHANGED <<conn, client, link, receiver, probing, giving, run, wpc, fault>>

(* While the frame rate is not known the count of intervals begins again,  *)
(* and only the count, in two stores that the receive thread of the client *)
(* may come between, and before, with the rate it has found.  A store that *)
(* falls into the increment of the count by that thread is lost.           *)
CheckProbing ==
  /\ tpc = "probing"
  /\ tpc' = IF count < Probe /\ ~fps THEN "clearCount" ELSE "delete"
  /\ UNCHANGED <<conn, client, link, receiver, probing, giving, run, wpc, fault>>

ClearCount ==
  /\ tpc = "clearCount"
  /\ tpc' = "clearFps"
  /\ count' \in {0} \cup {k \in {count} : thread[conn] = "read"}
  /\ spanned' = (spanned \/ summed # 0)
  /\ UNCHANGED <<conn, client, link, receiver, summed, last, fps, giving, run, wpc, fault>>

ClearFps ==
  /\ tpc = "clearFps"
  /\ tpc' = "delete"
  /\ fps' = FALSE
  /\ UNCHANGED <<conn, client, link, receiver, count, summed, spanned, last, giving, run, wpc, fault>>

MakeClient ==
  /\ tpc = "deleted"
  /\ conn' = conn + 1
  /\ client' = NewClient /\ link' = FALSE
  /\ tpc' = "connect"
  /\ UNCHANGED <<receiver, probing, giving, run, wpc, fault>>

Sleep ==
  /\ tpc = "sleep"
  /\ tpc' = "check"
  /\ UNCHANGED <<conn, client, link, receiver, probing, giving, run, wpc, fault>>

Reconnect ==
  CheckRun \/ CheckStat \/ CheckProbing \/ ClearCount \/ ClearFps \/ MakeClient \/ Sleep

-----------------------------------------------------------------------------
(* The receive thread, RecvPacketThd.                                      *)

Moves(n, from, to) == thread[n] = from /\ thread' = [thread EXCEPT ![n] = to]

Begin(n) ==
  /\ Moves(n, "spawned", "loop")
  /\ client' = [client EXCEPT !.tid = TRUE]
  /\ UNCHANGED <<conn, link, unit, probing, giving, run, tpc, wpc, fault>>

Loop(n) ==
  /\ Moves(n, "loop", IF client.run THEN "read" ELSE "leave")
  /\ UNCHANGED <<conn, client, link, unit, probing, giving, run, tpc, wpc, fault>>

Leave(n) ==
  /\ Moves(n, "leave", "ended")
  /\ client' = [client EXCEPT !.tid = FALSE]
  /\ UNCHANGED <<conn, link, unit, probing, giving, run, tpc, wpc, fault>>

(* An error, or nothing for two seconds.  Variant: the thread ends.        *)
ReadErrorEnds(n) ==
  /\ ~link
  /\ Moves(n, "read", "leave")
  /\ client' = [client EXCEPT !.connected = FALSE]
  /\ UNCHANGED <<conn, link, unit, probing, giving, run, tpc, wpc, fault>>

ReadError(n) ==
  /\ ~link
  /\ Moves(n, "read", "loop")
  /\ client' = [client EXCEPT !.connected = FALSE]
  /\ UNCHANGED <<conn, link, unit, probing, giving, run, tpc, wpc, fault>>

(* RtspVideoData adds up the intervals between slices, until it has Probe  *)
(* of them; the rate follows in a step of its own.                         *)
Counting == count < Probe /\ ~fps
Count(kind) ==
  IF kind # "slice" \/ ~Counting THEN UNCHANGED probing
  ELSE /\ last' = conn
       /\ fps' = fps
       /\ IF last = 0 THEN UNCHANGED <<count, summed, spanned>>
          ELSE /\ count' = count + 1
               /\ summed' = summed + 1
               /\ spanned' = (spanned \/ last # conn)

(* RtspClient::OnVideoData gives nothing before the first SPS or without a *)
(* call back; RtspVideoData begins. *)
ReadUnit(n, kind) ==
  /\ link
  /\ LET seen == client.ready \/ kind = "sps"
     IN  /\ client' = [client EXCEPT !.ready = seen]
         /\ IF seen /\ client.callback
            THEN /\ unit' = kind
                 /\ ready' = (ready \/ kind = "sps")
                 /\ Count(kind)
                 /\ Moves(n, "read", IF count' # count /\ count' = Probe THEN "rate" ELSE "gate")
            ELSE Moves(n, "read", "loop") /\ UNCHANGED <<unit, ready, probing>>
  /\ UNCHANGED <<conn, link, listening, first, run, tpc, wpc, fault>>

(* fps_ is found from the sum.  (The build keeps the count it has just     *)
(* compared, so a count taken back in between is not divided by.)          *)
Rate(n) ==
  /\ Moves(n, "rate", "gate")
  /\ fps' = TRUE
  /\ UNCHANGED <<conn, client, link, unit, count, summed, spanned, last, giving, run, tpc, wpc, fault>>

Gate(n) ==
  /\ Moves(n, "gate", IF ready THEN "give" ELSE "loop")
  /\ UNCHANGED <<conn, client, link, unit, probing, giving, run, tpc, wpc, fault>>

GiveUnit(n) ==
  /\ Moves(n, "give", IF listening THEN "loop" ELSE "clear")
  /\ first' = IF listening /\ first = "none" THEN unit ELSE first
  /\ UNCHANGED <<conn, client, link, unit, probing, ready, listening, run, tpc, wpc, fault>>

(* Without a listener, wait for the next SPS.  Variant: go on.             *)
KeepReady(n) ==
  /\ Moves(n, "clear", "loop")
  /\ UNCHANGED <<conn, client, link, unit, probing, giving, run, tpc, wpc, fault>>

Clear(n) ==
  /\ Moves(n, "clear", "loop")
  /\ ready' = FALSE
  /\ UNCHANGED <<conn, client, link, unit, probing, listening, first, run, tpc, wpc, fault>>

RunReceiver(n) ==
  \/ Begin(n) \/ Loop(n) \/ Leave(n) \/ ReadError(n)
  \/ \E kind \in {"sps", "slice"} : ReadUnit(n, kind)
  \/ Rate(n) \/ Gate(n) \/ GiveUnit(n) \/ Clear(n)

(* The connection breaks or falls silent, and a silent one may speak again *)
(* at any time, its client given up or not: the receive thread reads on    *)
(* until it is told to stop.                                               *)
LinkFails ==
  /\ link /\ MayFail
  /\ link' = FALSE
  /\ UNCHANGED <<conn, client, receiver, probing, giving, run, tpc, wpc, fault>>

LinkReturns ==
  /\ ~link /\ thread[conn] \notin {"none", "ended"}
  /\ link' = TRUE
  /\ UNCHANGED <<conn, client, receiver, probing, giving, run, tpc, wpc, fault>>

-----------------------------------------------------------------------------
(* The owner, the wrapper.                                                 *)

StartThread ==
  /\ wpc = "start"
  /\ tpc' = "check" /\ wpc' = "probe"
  /\ UNCHANGED <<conn, client, link, receiver, probing, giving, run, fault>>

ProbeVideoFps ==
  /\ wpc = "probe" /\ fps
  /\ ready' = FALSE
  /\ wpc' = "listen"
  /\ UNCHANGED <<conn, client, link, receiver, probing, listening, first, run, tpc, fault>>

SetDataListner ==
  /\ wpc = "listen"
  /\ listening' = TRUE
  /\ wpc' = "run"
  /\ UNCHANGED <<conn, client, link, receiver, probing, ready, first, run, tpc, fault>>

(* What the listener was given makes the wrapper ask for the audio type,   *)
(* on the thread of the video encoder; the question needs the client and   *)
(* its description.                                                        *)
GetAudioType ==
  /\ wpc = "run" /\ first # "none"
  /\ ~client.exists \/ ~client.sdp
  /\ fault' = "client"
  /\ UNCHANGED <<conn, client, link, receiver, probing, giving, run, tpc, wpc>>

DestroyProxy ==
  /\ wpc = "run"
  /\ run' = FALSE
  /\ wpc' = "joinThread"
  /\ UNCHANGED <<conn, client, link, receiver, probing, giving, tpc, fault>>

JoinThread ==
  /\ wpc = "joinThread" /\ tpc = "done"
  /\ wpc' = "delete"
  /\ UNCHANGED <<conn, client, link, receiver, probing, giving, run, tpc, fault>>

Wrapper == StartThread \/ ProbeVideoFps \/ SetDataListner \/ JoinThread

Receivers == \E n \in 1..MaxConnects : RunReceiver(n)
ProxyNext ==
  /\ fault = "none"
  /\ \/ Connecting \/ Deleting \/ Reconnect \/ Receivers
     \/ LinkFails \/ LinkReturns
     \/ Wrapper \/ GetAudioType \/ DestroyProxy

(* Every thread runs; a server that plays goes on sending SPS and slices.  *)
WrapperStep ==
  fault = "none" /\ (Wrapper \/ (tpc \in {"none", "done"} /\ (Connecting \/ Deleting)))
ReconnectStep ==
  fault = "none" /\ (Reconnect \/ (tpc \notin {"none", "done"} /\ (Connecting \/ Deleting)))
Sends(kind) == fault = "none" /\ \E n \in 1..MaxConnects : ReadUnit(n, kind)

ProxySafeSpec == ProxyInit /\ [][ProxyNext]_proxyVars
ProxySpec ==
  /\ ProxySafeSpec
  /\ WF_proxyVars(WrapperStep) /\ WF_proxyVars(ReconnectStep)
  /\ WF_proxyVars(fault = "none" /\ Receivers)
  /\ SF_proxyVars(Sends("sps")) /\ SF_proxyVars(Sends("slice"))

-----------------------------------------------------------------------------
(* Properties.                                                             *)

Connects == {"connect", "connected", "callback"}
Deletes == {"delete", "joinTest", "joinReceiver", "deleted"}
Units == {"none", "sps", "slice"}
Clients == [exists : BOOLEAN, sdp : BOOLEAN, connected : BOOLEAN, run : BOOLEAN,
           tid : BOOLEAN, callback : BOOLEAN, ready : BOOLEAN]

(* The type of every variable of the proxy, its clients and threads. *)
ProxyTypeOK ==
  /\ conn \in 1..MaxConnects
  /\ client \in Clients
  /\ link \in BOOLEAN
  /\ thread \in [1..MaxConnects -> {"none", "spawned", "loop", "leave", "ended", "read",
                                   "rate", "gate", "give", "clear"}]
  /\ unit \in Units /\ first \in Units
  /\ count \in 0..Probe /\ summed \in Nat /\ spanned \in BOOLEAN
  /\ last \in 0..MaxConnects /\ fps \in BOOLEAN
  /\ ready \in BOOLEAN /\ listening \in BOOLEAN /\ run \in BOOLEAN
  /\ tpc \in Connects \cup Deletes \cup {"none", "check", "stat", "probing", "clearCount",
                                     "clearFps", "sleep", "done"}
  /\ wpc \in Connects \cup Deletes \cup {"start", "probe", "listen", "run", "joinThread"}
  /\ fault \in {"none", "terminate", "client"}

(* Only the receive thread of the client that exists is at work: none is   *)
(* left behind by a reconnection or by the destructor to call a proxy that *)
(* has another client, or is gone.                                         *)
OneReceiver ==
  ProxyTypeOK /\ \A n \in 1..MaxConnects :
    thread[n] \notin {"none", "ended"} => n = conn /\ client.exists

(* The first unit the listener is ever given is an SPS, so the decoder     *)
(* never starts in the middle of a group of pictures, whatever the receive *)
(* thread had in hand when the owner set the listener.                     *)
FirstUnitIsSps == first # "slice"

(* A connection that is dead is replaced, although the flag that says so   *)
(* is cleared by one thread and set by another without order, unless the   *)
(* proxy is destroyed.                                                     *)
DeadLinkReplaced == (~link /\ wpc = "run") ~> (link \/ ~run \/ fault # "none")

(* The count is at its end and the rate is not known, nor about to be: no  *)
(* interval is counted any more, by any client.                            *)
Stranded == count = Probe /\ ~fps /\ \A n \in 1..MaxConnects : thread[n] # "rate"

(* Once the network has stopped failing the frame rate becomes known and   *)
(* the owner's constructor ends, unless the probing is stranded.           *)
ProbeEnds == (wpc = "probe") ~> (wpc # "probe" \/ fault # "none" \/ Stranded)

(* One thing only strands it: the reconnect thread takes back a rate that  *)
(* a client it had found dead delivered while it looked at the count.      *)
StrandedByReset == [][~Stranded /\ Stranded' => tpc = "clearFps" /\ fps]_proxyVars

(* The frame rate is computed from PROBEFRAME intervals, unless one of     *)
(* them is from one connection to the next, or the count was taken back    *)
(* while the sum was kept.                                                 *)
FpsFromProbe == [](fps => spanned \/ summed = Probe)

(* All together: the proxy recovers. *)
Recovers == DeadLinkReplaced /\ ProbeEnds /\ StrandedByReset /\ FpsFromProbe
=============================================================================
