------------------------------ MODULE MCConfig ------------------------------
(* Bytes 0 and 1 are the switches' values, 1 and 2 two tempos, 3 is garbage. *)
(* Two banks of two profiles; lines of eleven tokens.                      *)
EXTENDS Config

MCValue == 0 .. 3
MCValid == <<{0, 1}, {0, 1}, {1, 2}, {0, 1}>>
MCFallback == <<0, 0, 1, 0>>
\* No record; the one byte of 0.20; a garbled one; and a full one.
MCLegacy == {<<>>, <<1>>, <<1, 3, 2>>, <<0, 1, 1>>}
MCProfiles == 0 .. 1
MCDefault == [g \in 0 .. 3 |-> 0]

\* A request, one with an opening brace in a string, one with both braces and
\* an escaped quote, and two that are longer than a line, which ends in the
\* string or right behind it.
MCShapes == {
    <<"open", "q", "r", "q", "close">>,
    <<"open", "q", "r", "q", "q", "open", "q", "close">>,
    <<"open", "q", "r", "q", "q", "open", "b", "q", "close", "q", "close">>,
    <<"open", "q", "r", "q", "q", "x", "x", "x", "x", "x", "x", "q", "close">>,
    <<"open", "q", "r", "q", "q", "x", "x", "x", "x", "x", "x", "x", "q", "close">>}

MCScenes == {
    {"cut", "settings"},
    {"settings", "tempo", "brightness", "fault", "crash"},
    {"store", "profile", "port", "fault"},
    {"lights", "cut", "quoting", "port"}}

Ask(t, n, v, p) == [t |-> t, n |-> n, v |-> v, p |-> p]

MCRequests ==
    {Ask(t, None, None, None) : t \in {"hello", "getactive", "list", "resetall", "bogus"}}
      \cup {Ask(t, n, None, None) : t \in {"read", "reset"}, n \in {0, 4}}
      \cup {Ask("setactive", n, None, None) : n \in 0 .. 2}
      \cup {Ask("write", n, None, p) : n \in {0, 4}, p \in {1, None}}
      \cup {Ask(t, None, v, None) : t \in {"mode", "playrole", "midithru"}, v \in {None, 0, 1, 2}}
      \cup {Ask("monset", None, v, None) : v \in {None, 0, 1}}
      \cup {Ask("led", n, v, None) : n \in {0, 1}, v \in {None, 0, 1}}
      \cup {Ask("ledmask", n, None, None) : n \in {1, 2}}
      \cup {Ask("ledrelease", None, None, None)}
=============================================================================
