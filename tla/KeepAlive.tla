------------------------------- MODULE KeepAlive -------------------------------
(***************************************************************************)
(* What a persistent connection promises, whatever HTTP looks like on the  *)
(* wire: the application is called for one message after the other, each   *)
(* call is over, with its reply delivered whole, before the next begins,   *)
(* and a message that asks for the end of the connection is the last one.  *)
(***************************************************************************)
EXTENDS Naturals

CONSTANT N         (* Messages that the client may send. *)

VARIABLES
  keep,      (* Which messages leave the connection open.                   *)
  called,    (* Messages the application has been called for.               *)
  replied,   (* Replies delivered whole.                                    *)
  open       (* Whether the server has closed the connection.               *)

vars == <<keep, called, replied, open>>

Init ==
  /\ keep \in [1..N -> BOOLEAN]
  /\ called = 0
  /\ replied = 0
  /\ open = TRUE

Call ==
  /\ open /\ called = replied /\ called < N
  /\ called = 0 \/ keep[called]
  /\ called' = called + 1
  /\ UNCHANGED <<keep, replied, open>>

(* The connection may go with the last byte of the reply.                  *)
Reply ==
  /\ open /\ replied < called
  /\ replied' = called
  /\ open' \in BOOLEAN
  /\ UNCHANGED <<keep, called>>

(* Without a reply that is whole: the client left, the message was not     *)
(* understood, or the body is delimited by the end of the connection.      *)
Close ==
  /\ open
  /\ open' = FALSE
  /\ UNCHANGED <<keep, called, replied>>

Next == Call \/ Reply \/ Close

Spec == Init /\ [][Next]_vars

(* A call that has begun ends, with its reply or with the connection; and  *)
(* after the last message the connection ends.                             *)
Pending == replied < called
Last == called > 0 /\ called = replied /\ ~keep[called]

FairSpec ==
  /\ Spec
  /\ WF_vars(Pending /\ (Reply \/ Close))
  /\ WF_vars(Last /\ Close)

=============================================================================
