----------------------------- MODULE NvPipeline ------------------------------
(***************************************************************************)
(* The video path of Warpper/MediaWrapper.cpp with the NVIDIA SDK: the     *)
(* decode thread of NvDecoder calls OnRGBData, which makes the encoder     *)
(* for the first picture and gives it every picture.  The wrapper deletes  *)
(* the decoder and then the encoder, if there is one.                      *)
(***************************************************************************)
EXTENDS NvDecoder, NvEncoder

VARIABLE opc \* where the owner is

vars == <<decVars, encVars, opc>>

Init == DecInit /\ EncInit /\ opc = "open"

(* GetFrame, and OnRGBData with the picture in the frame. *)
OnRGBData == GetFrame /\ AddVideoFrame(Picture) /\ UNCHANGED opc

OnVideoData == opc = "open" /\ InputVideoData /\ UNCHANGED <<encVars, opc>>

Decoder == (DecSteps /\ UNCHANGED <<encVars, opc>>) \/ OnRGBData
Encoder == EncSteps /\ UNCHANGED <<decVars, opc>>

Destroy ==
  /\ opc = "open" /\ opc' = "joinDecoder"
  /\ DecDestroy /\ UNCHANGED encVars

(* The decoder is gone; abort_ of the encoder. *)
JoinDecoder ==
  /\ opc = "joinDecoder" /\ opc' = IF made THEN "joinEncoder" ELSE "dead"
  /\ DecJoin
  /\ IF made THEN EncDestroy ELSE UNCHANGED encVars

JoinEncoder ==
  /\ opc = "joinEncoder" /\ opc' = "dead"
  /\ EncJoin /\ UNCHANGED decVars

Teardown == JoinDecoder \/ JoinEncoder
Fault == decFault \/ encFault
Next == ~Fault /\ (OnVideoData \/ Decoder \/ Encoder \/ Destroy \/ Teardown)

(* Both threads and the hardware run, and a destructor that has started    *)
(* waits for the threads.                                                  *)
SafeSpec == Init /\ [][Next]_vars
Spec == SafeSpec /\ WF_vars(~Fault /\ Decoder)
                 /\ WF_vars(~Fault /\ Worker /\ UNCHANGED <<decVars, opc>>)
                 /\ WF_vars(~Fault /\ Hardware /\ UNCHANGED <<decVars, opc>>)
                 /\ WF_vars(~Fault /\ Teardown)

-----------------------------------------------------------------------------
(* Properties.                                                             *)

One(x) == IF x = 0 THEN <<>> ELSE <<x>>

(* The pictures in the frames that are still to be taken. *)
ToTake == [i \in 1..decoded |-> stock[returned + i].pic]

(* The slots sent and not fetched hold the pictures in their order. *)
InRing == [i \in 1..(iToSend - iGot) |-> input[Slot(iGot + i - 1)]]

(* The packet the thread has popped, until the parser has taken it. *)
Parsing == IF decPc = "parse" THEN One(decoding) ELSE <<>>

InDecoder == ToTake \o (parser \o (Parsing \o es))
InPath == fetched \o (InRing \o (One(encoding) \o (bgr \o InDecoder)))

(* The worker never waits for a packet that the hardware keeps back: what  *)
(* is put in is encoded or held by the parser, the hardware or the output  *)
(* delay, unless it is dropped or the wrapper is destroyed, in which case  *)
(* both destructors return.                                                *)
Progress ==
  /\ <>[](Fault \/ decAbort
           \/ /\ es = <<>> /\ bgr = <<>> /\ fetched = <<>> /\ encoding = 0
              /\ Len(parser) <= ParserDelay /\ iToSend - iGot <= OutputDelay)
  /\ (opc = "joinDecoder") ~> (Fault \/ opc = "dead")

(* The whole path as a channel that may drop pictures but neither repeats  *)
(* nor reorders them, although frames and surfaces are used again.         *)
LF == INSTANCE LossyFifo WITH
        inside <- InPath, out <- packets, sent <- decAdded

PathIsFifo == LF!Spec
=============================================================================
