--------------------------- MODULE MCStartResponse ---------------------------
(* Arguments for the model checking of StartResponse.                       *)
EXTENDS StartResponse

With(exc, stat, hs) ==
  [arity |-> TRUE, exc |-> exc, status |-> stat, headers |-> hs]

(* One of each outcome, with and without exc_info.                         *)
SomeArgs ==
  {With(exc, stat, hs) : exc \in {"none", "tuple"}, stat \in {"text"},
                         hs \in {"bad", "length", "plain"}}
  \cup {With("none", "nobody", "plain"), With("none", "short", "prefix"),
        With("bad", "text", "plain"), With("tuple", "bad", "plain"),
        [With("none", "text", "prefix") EXCEPT !.arity = FALSE],
        With("none", "text", "prefix")}

=============================================================================
