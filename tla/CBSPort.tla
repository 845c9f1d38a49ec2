------------------------------- MODULE CBSPort -------------------------------
(***************************************************************************)
(* CBSEngine as an EgressPort: a frame is inside from the moment it is     *)
(* queued until send_fn is called.                                         *)
(***************************************************************************)
EXTENDS CBSEngine

Outer(i) == [frame |-> i.frame, tc |-> i.tc, held |-> TRUE]

QueueFrames == UNION {{Outer(queues[tc][k]) : k \in DOMAIN queues[tc]} : tc \in TC}
PortFrames == IF drain.pc = "send" THEN {Outer(drain.item)} ELSE {}
Inside == QueueFrames \union PortFrames

Port == INSTANCE EgressPort WITH
          Classes <- TC,
          fixed <- TRUE,
          accepted <- arrived,
          waiting <- Inside,
          left <- out,
          discarded <- dropped

\* However the configuration changes, a frame handed to check_and_send leaves once or
\* is refused once, and the queued frames of a class leave in the order in which
\* the callers queued them.
PortSpec == Port!Spec

=============================================================================
