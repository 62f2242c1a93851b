-------------------------- MODULE MCSubscriberLoop --------------------------
(* Queues and their owners for the runs of SubscriberLoop.                 *)
EXTENDS SubscriberLoop, TLC

CONSTANTS w1, q1, q2

\* One thread pops two queues, or there is one queue.
OneThread == q1 :> w1 @@ q2 :> w1
OneQueue == q1 :> w1
=============================================================================
