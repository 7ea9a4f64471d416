------------------------------ MODULE Playback ------------------------------
(***************************************************************************)
(* What MediaReader promises its listener, without threads, lists or flags *)
(* (Media/MediaReader/FileReader/MediaReader.h and its use in              *)
(* Warpper/MediaWrapper.cpp): the packets of each stream come one by one,  *)
(* in file order; those that come before a listener is attached are lost;  *)
(* the end is reported after the last packet of every stream.              *)
(***************************************************************************)
EXTENDS Integers, Sequences

CONSTANTS File, Streams

VARIABLES
  place,     \* the last packet of each stream that was passed on (0: none)
  heard,     \* the packets the listener was given
  attached,  \* whether there is a listener
  over       \* whether the end has been reported

vars == <<place, heard, attached, over>>

(* The packets of a stream that are still to come, and the next of them. *)
Left(s) == {i \in 1..Len(File) : File[i] = s /\ i > place[s]}
IsNext(i, s) == \A j \in Left(s) : i <= j

Init ==
  /\ place = [s \in Streams |-> 0]
  /\ heard = [s \in Streams |-> <<>>]
  /\ attached = FALSE
  /\ over = FALSE

Attach ==
  /\ ~attached
  /\ attached' = TRUE
  /\ UNCHANGED <<place, heard, over>>

Pass(s) ==
  \E i \in Left(s) :
    /\ IsNext(i, s)
    /\ place' = [place EXCEPT ![s] = i]
    /\ heard' = IF attached THEN [heard EXCEPT ![s] = Append(@, i)] ELSE heard
    /\ UNCHANGED <<attached, over>>

End ==
  /\ attached /\ ~over
  /\ \A s \in Streams : Left(s) = {}
  /\ over' = TRUE
  /\ UNCHANGED <<place, heard, attached>>

Next == Attach \/ End \/ \E s \in Streams : Pass(s)

SafeSpec == Init /\ [][Next]_vars

Spec ==
  /\ SafeSpec
  /\ WF_vars(Attach) /\ WF_vars(End)
  /\ \A s \in Streams : WF_vars(Pass(s))
=============================================================================
