----------------------------- MODULE FrameQueue -----------------------------
(***************************************************************************)
(* What the network card and its driver promise together about reception: *)
(* frames that are taken are handed to the protocols in the order of their *)
(* arrival, each once and unchanged.                                       *)
(***************************************************************************)
EXTENDS Sequences

CONSTANTS Frames,   \* what may arrive
          NoFrame   \* nothing was handed over yet

VARIABLES queue,    \* taken and not handed over
          last      \* what was handed over last

vars == <<queue, last>>

Init == queue = <<>> /\ last = NoFrame

Take(f) == queue' = Append(queue, f) /\ UNCHANGED last

HandOver == /\ queue # <<>>
            /\ last' = Head(queue) /\ queue' = Tail(queue)

Next == (\E f \in Frames : Take(f)) \/ HandOver

Spec == Init /\ [][Next]_vars

(* What was taken is handed over in the end.                               *)
Progress == WF_vars(HandOver)
=============================================================================
