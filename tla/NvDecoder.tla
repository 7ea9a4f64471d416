------------------------------ MODULE NvDecoder ------------------------------
(***************************************************************************)
(* The decoder of the NVIDIA SDK: HardCodec/Decoder/NVIDIADecoder.cpp on   *)
(* NvDecoder of HardCodec/Nvcodec_utils/NvDec.                             *)
(*                                                                         *)
(* Decode gives a packet to a parser, which calls back: for a sequence     *)
(* header that differs from the one before, for a picture to decode, and   *)
(* for each picture to display.  A picture to display is copied into the   *)
(* next frame of a stock that grows as needed and is used again by every   *)
(* Decode.  DecodeVideo then takes the frames one by one, converts them    *)
(* and calls the listener.                                                 *)
(*                                                                         *)
(* A packet and its picture are one number; of a picture's geometry the    *)
(* heights are kept, coded and displayed, and a frame is as large as its   *)
(* height; widths go the same way through the same lines.  The parser is   *)
(* external: it keeps ParserDelay pictures back until the end of the       *)
(* stream or the next sequence.  An exception in a callback, or a failing  *)
(* CUDA call, ends the process.                                            *)
(***************************************************************************)
EXTENDS Integers, Sequences, FiniteSets, SequencesExt

CONSTANTS
  Streams,    \* the videos: the sequence header in force at each packet
  ParserDelay \* pictures the parser keeps back

Headers == [coded : Nat \ {0}, display : Nat \ {0}]
ASSUME NvDecoderAssumption == Streams \subseteq Seq(Headers) /\ ParserDelay \in Nat

VARIABLES
  stream,     \* the video that is played
  decAdded,   \* packets put in so far
  es,         \* es_packets_
  decoding,   \* the packet the thread has popped (0: none, or the flush)
  parser,     \* the pictures the parser keeps
  header,     \* the sequence header the parser has called back for
  format,     \* m_videoFormat
  lumaHeight, \* m_nLumaHeight (0: no decoder yet)
  maxHeight,  \* m_nMaxHeight
  stock,      \* m_vpFrame, each frame with its size and picture
  decoded,    \* m_nDecodedFrame, pictures displayed and not taken
  returned,   \* m_nDecodedFrameReturned
  overrun,    \* history: a frame was written or read past its end
  decAbort,   \* abort_
  decPc,      \* where the thread is
  decFault    \* an exception has ended the process

formatVars == <<header, format, lumaHeight, maxHeight>>
stockVars == <<stock, decoded, returned, overrun>>
threadVars == <<decoding, parser, formatVars, stockVars, decPc, decFault>>
decVars == <<stream, decAdded, es, threadVars, decAbort>>

NumPackets == Len(stream)
NoHeader == [coded |-> 0, display |-> 0]

DecInit ==
  /\ stream \in Streams
  /\ decAdded = 0 /\ es = <<>> /\ decoding = 0 /\ parser = <<>>
  /\ header = NoHeader /\ format = NoHeader /\ lumaHeight = 0 /\ maxHeight = 0
  /\ stock = <<>> /\ decoded = 0 /\ returned = 0 /\ overrun = FALSE
  /\ decAbort = FALSE /\ decPc = "top" /\ decFault = FALSE

(* InputVideoData.  Variants: at the front; not if one waits.              *)
PushFirst(q, n) == <<n>> \o q
PushIfIdle(q, n) == IF q = <<>> THEN <<n>> ELSE q
Push(q, n) == Append(q, n)

InputVideoData ==
  /\ decAdded < NumPackets
  /\ decAdded' = decAdded + 1
  /\ es' = Push(es, decAdded + 1)
  /\ UNCHANGED <<stream, threadVars, decAbort>>

-----------------------------------------------------------------------------
(* The decode thread.                                                      *)

DecStep(from, to) == decPc = from /\ decPc' = to /\ UNCHANGED <<stream, decAdded, decAbort>>

DecTop ==
  /\ ~decAbort /\ DecStep("top", "enter")
  /\ UNCHANGED <<es, decoding, parser, formatVars, stockVars, decFault>>

DecIdle ==
  /\ es = <<>> /\ DecStep("enter", "top")
  /\ UNCHANGED <<es, decoding, parser, formatVars, stockVars, decFault>>

(* Decode starts with nothing in the stock.  Variant: it goes on counting. *)
GoesOn == returned
StartsAt == 0

(* The loop ends on abort_; the parser is then told that the stream ends.  *)
DecFlush ==
  /\ decAbort /\ DecStep("top", "parse")
  /\ decoded' = 0 /\ returned' = StartsAt
  /\ UNCHANGED <<es, decoding, parser, formatVars, stock, overrun, decFault>>

DecPop ==
  /\ es # <<>> /\ DecStep("enter", "parse")
  /\ decoding' = Head(es) /\ es' = Tail(es)
  /\ decoded' = 0 /\ returned' = StartsAt
  /\ UNCHANGED <<parser, formatVars, stock, overrun, decFault>>

(* Whether the parser gives up a picture before it goes on. *)
NewSequence == decoding # 0 /\ stream[decoding] # header
Displays == IF decoding = 0 \/ (decPc = "parse" /\ NewSequence)
            THEN parser # <<>>
            ELSE decPc = "display" /\ Len(parser) > ParserDelay

(* HandleVideoSequence makes the decoder of the first header, *)
CreateDecoder ==
  /\ lumaHeight = 0 /\ ~Displays /\ NewSequence /\ DecStep("parse", "parse")
  /\ header' = stream[decoding]
  /\ format' = header' /\ lumaHeight' = header'.display /\ maxHeight' = header'.coded
  /\ UNCHANGED <<es, decoding, parser, stockVars, decFault>>

(* and ReconfigureDecoder does not follow a coded size above the first, *)
ReconfigureThrows ==
  /\ lumaHeight # 0 /\ ~Displays /\ NewSequence /\ DecStep("parse", "parse")
  /\ stream[decoding].coded > maxHeight
  /\ decFault' = TRUE
  /\ UNCHANGED <<es, decoding, parser, formatVars, stockVars>>

(* takes over a display size that comes without another coded size, and    *)
(* does not remember that it has,                                          *)
FollowDisplay ==
  /\ lumaHeight # 0 /\ ~Displays /\ NewSequence /\ DecStep("parse", "parse")
  /\ stream[decoding].coded = format.coded /\ stream[decoding].coded <= maxHeight
  /\ header' = stream[decoding]
  /\ lumaHeight' = IF stream[decoding].display # format.display
                   THEN stream[decoding].display ELSE lumaHeight
  /\ UNCHANGED <<es, decoding, parser, format, maxHeight, stockVars, decFault>>

(* and has another coded size scaled to the first pictures' size.  Variant *)
(* of the height: the new one's.                                           *)
NewHeight == header'.display
ScaledHeight == lumaHeight

ReconfigureScaled ==
  /\ lumaHeight # 0 /\ ~Displays /\ NewSequence /\ DecStep("parse", "parse")
  /\ stream[decoding].coded # format.coded /\ stream[decoding].coded <= maxHeight
  /\ header' = stream[decoding]
  /\ format' = [format EXCEPT !.coded = stream[decoding].coded]
  /\ lumaHeight' = ScaledHeight
  /\ UNCHANGED <<es, decoding, parser, maxHeight, stockVars, decFault>>

(* HandlePictureDecode. *)
HandlePictureDecode ==
  /\ decoding # 0 /\ ~NewSequence /\ DecStep("parse", "display")
  /\ parser' = Append(parser, decoding)
  /\ UNCHANGED <<es, decoding, formatVars, stockVars, decFault>>

(* HandlePictureDisplay: the picture is copied into the next frame of the  *)
(* stock, or into a new frame.                                             *)
Copied == [size |-> lumaHeight, pic |-> Head(parser)]

HandlePictureDisplay ==
  /\ Displays /\ decPc \in {"parse", "display"} /\ DecStep(decPc, decPc)
  /\ parser' = Tail(parser)
  /\ decoded' = decoded + 1
  /\ stock' = IF decoded' > Len(stock) THEN Append(stock, Copied)
              ELSE [stock EXCEPT ![decoded'].pic = Head(parser)]
  /\ overrun' = (overrun \/ stock'[decoded'].size < lumaHeight)
  /\ UNCHANGED <<es, decoding, formatVars, returned, decFault>>

(* Decode returns how many frames there are. *)
DecodeReturns ==
  /\ ~Displays /\ (decPc = "display" \/ (decPc = "parse" /\ decoding = 0))
  /\ DecStep(decPc, "frames")
  /\ UNCHANGED <<es, decoding, parser, formatVars, stockVars, decFault>>

(* GetFrame, and the conversion of as many lines as the container has told *)
(* the video has, which is what its first header says; OnRGBData.          *)
ContainerHeight == stream[1].display
Picture == stock[returned + 1].pic

GetFrame ==
  /\ decoded > 0 /\ DecStep("frames", "frames")
  /\ decoded' = decoded - 1 /\ returned' = returned + 1
  /\ overrun' = (overrun \/ stock[returned'].size < ContainerHeight)
  /\ UNCHANGED <<es, decoding, parser, formatVars, stock, decFault>>

DecodeEnds ==
  /\ decoded = 0 /\ DecStep("frames", IF decoding = 0 THEN "done" ELSE "top")
  /\ decoding' = 0
  /\ UNCHANGED <<es, parser, formatVars, stockVars, decFault>>

(* All but GetFrame, which calls the listener. *)
DecSteps == DecTop \/ DecFlush \/ DecIdle \/ DecPop \/ CreateDecoder
            \/ ReconfigureThrows \/ FollowDisplay \/ ReconfigureScaled \/ HandlePictureDecode
            \/ HandlePictureDisplay \/ DecodeReturns \/ DecodeEnds

-----------------------------------------------------------------------------
(* The destructor.                                                         *)

DecDestroy ==
  /\ decAbort' = TRUE
  /\ UNCHANGED <<stream, decAdded, es, threadVars>>

(* The thread has ended: the stock and the packets are freed. *)
DecJoin ==
  /\ decPc = "done"
  /\ stock' = <<>> /\ es' = <<>>
  /\ UNCHANGED <<stream, decAdded, decoding, parser, formatVars, decoded, returned,
                 overrun, decPc, decFault, decAbort>>

-----------------------------------------------------------------------------
(* Properties.                                                             *)

(* The type of every variable. *)
DecTypeOK ==
  /\ stream \in Streams /\ decAdded \in 0..NumPackets
  /\ es \in Seq(1..NumPackets) /\ parser \in Seq(1..NumPackets) /\ decoding \in 0..NumPackets
  /\ header \in Headers \cup {NoHeader} /\ format \in Headers \cup {NoHeader}
  /\ lumaHeight \in Nat /\ maxHeight \in Nat
  /\ stock \in Seq([size : Nat, pic : 1..NumPackets])
  /\ decoded \in Nat /\ returned \in Nat
  /\ overrun \in BOOLEAN /\ decAbort \in BOOLEAN /\ decFault \in BOOLEAN
  /\ decPc \in {"top", "enter", "parse", "display", "frames", "done"}

(* In a video whose displayed height changes only along with its coded     *)
(* height no frame is written or read past its end, although all pictures  *)
(* go through frames made for the first ones; and in any video the frames  *)
(* that are still to be taken are in the stock, and the stock is no larger *)
(* than what one Decode can display.                                       *)
(*                                                                         *)
(* A displayed height that changes without the coded one is left out by    *)
(* Plain: the new height is taken over (line 381) and the header is not,   *)
(* so a later frame may really overrun, and likewise with the width (line  *)
(* 380).  The run has such a video.                                        *)
Plain == \A i \in 2..NumPackets :
           stream[i].display # stream[i - 1].display => stream[i].coded # stream[i - 1].coded
FramesWhole ==
  /\ DecTypeOK
  /\ Plain => ~overrun
  /\ decPc # "done" => returned + decoded <= Len(stock)
  /\ Len(stock) <= ParserDelay + 1
=============================================================================
