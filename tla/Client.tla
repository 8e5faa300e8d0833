------------------------------- MODULE Client ---------------------------------
(***************************************************************************)
(* The other end of the connection, external to bjoern: the socket, and a  *)
(* client that sends its messages one at a time (the next one when the     *)
(* reply to the last is whole) and decodes what comes back the way         *)
(* RFC 2616 says.  `view' is what it is in the middle of.                  *)
(***************************************************************************)
EXTENDS Request

CONSTANTS
  Hangups,   (* It may shut down its sending side early, and still read.    *)
  Resets     (* The connection may be reset at any time.                    *)

ASSUME ClientAssumption == {Hangups, Resets} \subseteq BOOLEAN

VARIABLES
  sent,      (* Position up to which the client has sent its messages.      *)
  sock,      (* The connection as bjoern's system calls see it.             *)
  view,      (* What the client waits for, or how a body is delimited.      *)
  left,      (* Pieces of the body that are still to come.                  *)
  replies,   (* Replies received whole.                                     *)
  interim    (* The message to which 100 Continue was the last answer.      *)

inbox == <<view, left, replies, interim>>
clientVars == <<sent, sock, inbox>>

Views == {"wait", "length", "chunked", "close", "garbled"}

ClientInit ==
  /\ reqs \in [Messages -> Requests]
  /\ sent = 0
  /\ sock = "open"
  /\ view = "wait"
  /\ left = 0
  /\ replies = 0
  /\ interim = 0

-----------------------------------------------------------------------------
(* Sending.  Whether and for how long a client that has asked for it waits *)
(* for 100 Continue before it sends the body is up to the client.          *)

(* Where a part of the stream can end.                                     *)
Stop(to) == \A m \in Messages : to = At(m, 3) => reqs[m].body

MayBegin(m) ==
  view = "wait" /\ \A b \in Messages : b < m => reqs[b].keep

ClientSend(to) ==
  /\ sock = "open"
  /\ sent < to /\ Stop(to)
  /\ \E m \in Messages :
       /\ m = replies + 1
       /\ to <= At(m, 4)
       /\ sent <= 4 * replies => MayBegin(m)
  /\ sent' = to
  /\ UNCHANGED <<reqs, sock, inbox>>

ClientClose ==
  /\ sock = "open"
  /\ Hangups \/ (view = "wait" /\ sent = 4 * replies)
  /\ sock' = "closed"
  /\ UNCHANGED <<reqs, sent, inbox>>

ClientReset ==
  /\ Resets /\ sock # "reset"
  /\ sock' = "reset"
  /\ UNCHANGED <<reqs, sent, inbox>>

-----------------------------------------------------------------------------
(* Receiving the buffer b, of a response with `total' pieces in its body.  *)

Asked == sent > 4 * replies

LegalHead(b, total) ==
  /\ view = "wait"
  /\ b.pieces <= total
  /\ b.pieces > 0 => (b.cruft <=> b.framing = "chunked")
  /\ b.framing = "chunked" => reqs[replies + 1].minor = 1

LegalBody(b) ==
  /\ view \in {"length", "chunked", "close"}
  /\ b.cruft <=> view = "chunked"
  /\ b.pieces <= left

Legal(b, total) ==
  /\ Asked
  /\ \/ b.part \in {"continue", "error"} /\ view = "wait"
     \/ b.part = "head" /\ LegalHead(b, total)
     \/ b.part = "body" /\ LegalBody(b)
     \/ b.part = "end" /\ view = "chunked" /\ left = 0

(* The body goes on in framing `as' with `rest' pieces to come.            *)
GoesOn(as, rest) ==
  /\ UNCHANGED interim
  /\ left' = rest
  /\ IF as = "length" /\ rest = 0
     THEN view' = "wait" /\ replies' = replies + 1
     ELSE view' = as /\ UNCHANGED replies

Receive(b, total) ==
  \/ /\ ~Legal(b, total)
     /\ view' = "garbled"
     /\ UNCHANGED <<left, replies, interim>>
  \/ /\ Legal(b, total) /\ b.part = "continue"
     /\ interim' = replies + 1
     /\ UNCHANGED <<view, left, replies>>
  \/ /\ Legal(b, total) /\ b.part = "error"
     /\ GoesOn("close", 0)
  \/ /\ Legal(b, total) /\ b.part = "head"
     /\ GoesOn(b.framing, total - b.pieces)
  \/ /\ Legal(b, total) /\ b.part = "body"
     /\ GoesOn(view, left - b.pieces)
  \/ /\ Legal(b, total) /\ b.part = "end"
     /\ GoesOn("length", 0)

(* Bytes handed to a connection that is reset are lost.                    *)
Deliver(b, total) ==
  IF sock = "reset" THEN UNCHANGED inbox ELSE Receive(b, total)

-----------------------------------------------------------------------------
InboxTypeOK ==
  /\ view \in Views
  /\ left \in Nat
  /\ replies \in 0..MaxRequests
  /\ interim \in 0..MaxRequests

ClientTypeOK ==
  /\ sent \in 0..4 * MaxRequests
  /\ sock \in {"open", "closed", "reset"}
  /\ InboxTypeOK

=============================================================================
