------------------------- MODULE MCInvestigationBoard -------------------------
(***************************************************************************)
(* Three entities of two types on two boards, with room for a third.       *)
(***************************************************************************)
EXTENDS InvestigationBoard, TLC

CONSTANTS a, b, c

MCTypeOf == a :> "email" @@ b :> "domain" @@ c :> "email"
MCFound == a :> {b, c} @@ b :> {c} @@ c :> {a}
MCBoards == 1..3

\* Board 3 has no row yet.  A check of board 2 grows it; one of board 1 would make it
\* too large.
MCStored ==
    <<[NoGraph EXCEPT !.nodes = {a, b}, !.edges = {<<a, b>>}],
      [NoGraph EXCEPT !.nodes = {c}],
      None>>

===============================================================================
