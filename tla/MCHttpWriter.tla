---------------------------- MODULE MCHttpWriter ----------------------------
(* A small instance of HttpWriter. *)
EXTENDS HttpWriter

\* Bound: at most MaxCalls texts in a request, of at most MaxText bytes.
MaxCalls == 2
MaxText == 3
SomeRequests ==
    {ends \in UNION {[1 .. n -> 0 .. MaxCalls * MaxText] : n \in 0 .. MaxCalls} :
        \A c \in DOMAIN ends : ends[c] - (IF c = 1 THEN 0 ELSE ends[c - 1]) \in 0 .. MaxText}

\* No field, one or two fields, with requests that are empty, that fill the
\* buffer to the last byte and that need it twice; and three short ones.
SomeRequestLists ==
    UNION {[1 .. n -> SomeRequests] : n \in 0 .. 2} \cup {<<<<2>>, <<1, 3>>, <<2>>>>}
=============================================================================
