----------------------------- MODULE MCConnection -----------------------------
(* Requests and applications for the model checking of Connection.         *)
EXTENDS Connection

Req(minor, keep, expect, body, bad) ==
  [minor |-> minor, keep |-> keep, expect |-> expect, body |-> body,
   bad |-> bad]

App(ret, length, pieces) ==
  [ret |-> ret, start |-> TRUE, length |-> length, nobody |-> FALSE,
   pieces |-> pieces, fails |-> FALSE]

Failing(a) == [a EXCEPT !.fails = TRUE]
Unstarted(a) == [a EXCEPT !.start = FALSE]
NoBody(a) == [a EXCEPT !.nobody = TRUE]

(* Every version and wish to go on, with and without a body; some that are *)
(* not HTTP from the headers or the body on.                               *)
PlainRequests ==
  {Req(minor, keep, "none", FALSE, 0) : minor \in {0, 1}, keep \in BOOLEAN}
  \cup {Req(1, TRUE, "none", TRUE, bad) : bad \in {0, 2, 3}}

(* Messages with a body and an Expect header (HTTP/1.0 has none).          *)
ExpectRequests ==
  {Req(1, keep, expect, TRUE, 0) :
     keep \in BOOLEAN, expect \in {"continue", "other"}}
  \cup {Req(0, TRUE, "continue", TRUE, 0), Req(0, FALSE, "none", FALSE, 0),
        Req(1, TRUE, "none", FALSE, 0), Req(1, TRUE, "none", FALSE, 2)}

(* Messages of either kind, on a connection that may break.                *)
InterruptedRequests == PlainRequests \cup ExpectRequests

(* Expect without a body to wait for.                                      *)
ExpectNoBody == {Req(1, TRUE, "continue", FALSE, 0)}

(* Expect, and a header that is not HTTP.                                  *)
ExpectMalformed == {Req(1, TRUE, "continue", TRUE, 3)}

AnyRequests ==
  {Req(1, TRUE, "continue", FALSE, 0), Req(1, TRUE, "continue", TRUE, 0),
   Req(1, TRUE, "continue", TRUE, 3), Req(1, TRUE, "none", FALSE, 0),
   Req(1, TRUE, "other", TRUE, 0), Req(0, TRUE, "none", FALSE, 0)}

-----------------------------------------------------------------------------
PlainApps ==
  {App("bytes", TRUE, 0), App("bytes", FALSE, 1), App("iter", TRUE, 0),
   App("iter", FALSE, 0), App("iter", TRUE, 2), App("iter", FALSE, 2),
   NoBody(App("bytes", FALSE, 0)), NoBody(App("iter", FALSE, 0))}

FailingApps ==
  {Unstarted(App("raise", FALSE, 0)), App("raise", TRUE, 0),
   Unstarted(App("bytes", FALSE, 1)), Unstarted(App("iter", FALSE, 2)),
   Failing(App("iter", FALSE, 0)), Failing(App("iter", FALSE, 1)),
   Failing(App("iter", TRUE, 2))}

(* Files whose length is known.                                            *)
FileApps ==
  {App("file", TRUE, 0), App("file", TRUE, 2),
   Failing(App("file", TRUE, 1)), Failing(App("file", TRUE, 2))}

(* Files whose length is not.                                              *)
UnknownFileApps == {App("file", FALSE, 1), App("file", FALSE, 2)}

IteratorApps == PlainApps \cup FailingApps

CoreApps == IteratorApps \cup FileApps

(* One of each way that an answer takes through wsgi.c and server.c.       *)
SomeApps ==
  {App("bytes", TRUE, 1), App("bytes", FALSE, 1), App("iter", FALSE, 2),
   App("iter", TRUE, 2), Failing(App("iter", FALSE, 1)),
   App("file", TRUE, 2), App("raise", FALSE, 0)}

AnyApps ==
  SomeApps \cup UnknownFileApps
  \cup {Unstarted(App("file", TRUE, 1)), Failing(App("file", TRUE, 1)),
        Unstarted(App("iter", FALSE, 1)), NoBody(App("iter", FALSE, 0))}

=============================================================================
