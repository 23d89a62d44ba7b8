-------------------------- MODULE MCWimSendThread --------------------------
(***************************************************************************)
(* Instances of WimSendThread for TLC.  The packets are two messages       *)
(* (sendIM, priority 1) and two requests of one other method, an ordinary  *)
(* one (45) and a more urgent one (40): keys collide in both queues, and   *)
(* the second queue is ordered by priority and not by arrival alone.       *)
(***************************************************************************)
EXTENDS WimSendThread

CONSTANTS im1, im2, info1, info2, sendIM, getInfo

MethodOf == (im1 :> sendIM) @@ (im2 :> sendIM) @@ (info1 :> getInfo) @@ (info2 :> getInfo)
PriorityOf == (im1 :> 1) @@ (im2 :> 1) @@ (info1 :> 45) @@ (info2 :> 40)

MCMethod == [p \in Packets |-> MethodOf[p]]
MCPriority == [p \in Packets |-> PriorityOf[p]]
=============================================================================
