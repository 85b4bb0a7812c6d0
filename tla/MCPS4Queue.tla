----------------------------- MODULE MCPS4Queue -----------------------------
(* PS4Queue with its packages: a base game, its patch, and another game.    *)
EXTENDS PS4Queue

CONSTANTS base, patch, other

MCContents == {base, patch, other}

\* Job 1 the base game, job 2 its patch, further jobs another game.
BaseAndPatch ==
    [j \in JobIds |->
        CASE j = 1 -> [content |-> base, title |-> "A", kind |-> "game"]
          [] j = 2 -> [content |-> patch, title |-> "A", kind |-> "dependent"]
          [] j > 2 -> [content |-> other, title |-> "B", kind |-> "other"]]

\* Every job installs the same game: their tasks collide on the console.
SameGame ==
    [j \in JobIds |-> [content |-> base, title |-> "A", kind |-> "game"]]
=============================================================================
