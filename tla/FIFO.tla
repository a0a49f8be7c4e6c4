-------------------------------- MODULE FIFO --------------------------------
(***************************************************************************)
(* What the users of Common::LFQueue (utils/lock_free_queue.h) rely on: an *)
(* element handed over by the producer thread becomes visible at one       *)
(* instant, and the consumer thread gets the elements once each, in the    *)
(* order in which they became visible.                                     *)
(***************************************************************************)
EXTENDS Sequences

CONSTANT Values          \* what may be queued

VARIABLES q,             \* visible and not yet taken
          got            \* everything taken so far, in order

Init == q = <<>> /\ got = <<>>

Put(v) == q' = Append(q, v) /\ UNCHANGED got

Get == /\ q # <<>>
       /\ got' = Append(got, Head(q))
       /\ q' = Tail(q)

Next == Get \/ \E v \in Values : Put(v)

Spec == Init /\ [][Next]_<<q, got>>
=============================================================================
