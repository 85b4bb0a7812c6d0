---------------------------- MODULE MCConsoles ----------------------------
(***************************************************************************)
(* The instance of Consoles that TLC checks.                               *)
(***************************************************************************)
EXTENDS Consoles

\* Two addresses between the first and the last one, and too many.
MCNetworks == {[first |-> 4, bits |-> 2], [first |-> 0, bits |-> 1]}

\* Visits to one of the consoles: all kinds, and the two of RemoteGames write its
\* address in another way.
MCVisits ==
    LET text(plain) == [ip |-> 5, plain |-> plain]
    IN  [kind : Kinds \ {"app.RemoteGames"}, text : {text(TRUE)}]
        \cup [kind : {"app.RemoteGames", "ps5.RemoteGames"}, text : {text(FALSE)}]
=============================================================================
