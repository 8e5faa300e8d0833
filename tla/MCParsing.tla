------------------------------ MODULE MCParsing ------------------------------
(* Messages for the model checking of Parsing.                              *)
EXTENDS Parsing

Header(name, value) == [name |-> name, value |-> value]

Message(minor, path, query, hs, body) ==
  [minor |-> minor, path |-> path, query |-> query, headers |-> hs,
   body |-> body, length |-> TRUE, garbled |-> FALSE]

Accepted == Header(<<"X", "-", "Y">>, <<"v", "w">>)
Ignored == Header(<<"X", "_", "Y">>, <<"u">>)
Length == Header(<<"CONTENT", "-", "LENGTH">>, <<"2">>)
Expecting(value) == Header(<<"EXPECT">>, value)

Get == Message(1, <<"c", "esc", "c">>, <<"q", "r">>, <<Accepted, Ignored>>, <<>>)
Post == Message(1, <<"c">>, <<>>, <<Expecting(Expectation), Length>>, <<"a", "b">>)
Prefix == Message(1, <<"c">>, <<>>, <<Expecting(<<"100-">>), Accepted>>, <<"a">>)
Unmet == Message(1, <<"c">>, <<>>, <<Expecting(<<"200-", "ok">>)>>, <<"a">>)
Old ==
  Message(0, <<"esc">>, <<>>, <<Expecting(<<"200-", "ok">>), Accepted, Accepted>>, <<>>)
Invalid == Message(1, <<"c", "bad", "c">>, <<>>, <<>>, <<>>)
Chunked == [Post EXCEPT !.length = FALSE]
Garbled == [Post EXCEPT !.garbled = TRUE]

SomeParts ==
  {"X", "-", "Y", "_", "CONTENT", "LENGTH", "EXPECT", "v", "w", "u", "2",
   "100-", "200-", "continue", "ok", "q", "r", "a", "b"}

(* No message that expects 100 Continue is without a body: the reply to     *)
(* one would not be whole, which is the subject of expect_no_body.cfg.      *)
Kinds == {Get, Post, Prefix, Unmet, Old, Invalid, Chunked, Garbled}

=============================================================================
