------------------------------ MODULE LossyFifo ------------------------------
(***************************************************************************)
(* What a codec stage of the pipeline promises, without threads or lists:  *)
(* the items put into it come out in the order they went in; on the way    *)
(* any run of neighbouring items may be lost, and nothing is made up or    *)
(* repeated.  Items are numbered in the order they are put in.             *)
(***************************************************************************)
EXTENDS Integers, Sequences

VARIABLES
  inside,  \* the items in the stage, oldest first
  out,     \* the items that have come out
  sent     \* how many items have been put in

vars == <<inside, out, sent>>

Init == inside = <<>> /\ out = <<>> /\ sent = 0

(* The parts of q before and after the items at positions i..j. *)
Without(q, i, j) == SubSeq(q, 1, i - 1) \o SubSeq(q, j + 1, Len(q))

(* Items i..j are lost. *)
Lose ==
  /\ \E i, j \in 1..Len(inside) : i <= j /\ inside' = Without(inside, i, j)
  /\ UNCHANGED <<out, sent>>

(* An item is put in, possibly in the place of the newest ones. *)
Put ==
  /\ sent' = sent + 1
  /\ \E n \in 0..Len(inside) : inside' = Append(SubSeq(inside, 1, n), sent + 1)
  /\ UNCHANGED out

(* The oldest item comes out. *)
Get ==
  /\ inside # <<>>
  /\ out' = Append(out, Head(inside))
  /\ inside' = Tail(inside)
  /\ UNCHANGED sent

Next == Lose \/ Put \/ Get
Spec == Init /\ [][Next]_vars
=============================================================================
