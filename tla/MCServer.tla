------------------------------- MODULE MCServer -------------------------------
(* Workers that were forked after bjoern.listen() and share its socket.     *)
EXTENDS Server

Forked == [w \in Workers |-> CHOOSE s \in Sockets : TRUE]

(* Room for one connection in one of the workers only; the others, where   *)
(* no connection is refused, are those that are signalled.                 *)
Tight == CHOOSE w \in Workers : TRUE
OneTight == [w \in Workers |-> IF w = Tight THEN 1 ELSE 2]
Roomy == Workers \ {Tight}

=============================================================================
