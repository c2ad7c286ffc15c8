--------------------------- MODULE SetWalkRefinement ----------------------------
(***************************************************************************)
(* Every call of ServiceClient walks its set as SetWalk says: the          *)
(* refinement mapping, told from what the call put on the wire.            *)
(***************************************************************************)
EXTENDS ServiceClient

\* The attempts of a call, from the one after its last pause on.
SincePause(c) ==
    LET n == Len(sent[c])
    IN  {i \in 1 .. n : \A k \in i .. n - 1 : sent[c][k].pause = None}

Walk(c) ==
    INSTANCE SetWalk WITH
        len    <- inner.len,
        budget <- IF sent[c] = << >> THEN 0 ELSE Budget(c),
        at     <- IF sent[c] = << >> THEN None ELSE sent[c][Len(sent[c])].endpoint,
        asked  <- {sent[c][i].endpoint : i \in SincePause(c)},
        rested <- sent[c] # << >> /\ sent[c][Len(sent[c])].pause # None,
        sends  <- Len(sent[c])

\* "After a full cycle of rotations (every endpoint in the set answered with a
\* rotation outcome in a row) the client pauses before starting the next
\* cycle": each call is a behaviour of SetWalk, whatever endpoints answer and
\* whatever retries in place come in between.
WalksTheSet ==
    /\ \A c \in Calls : Walk(c)!Init
    /\ [][\A c \in Calls : [Walk(c)!Next]_(Walk(c)!wvars)]_vars
=============================================================================
