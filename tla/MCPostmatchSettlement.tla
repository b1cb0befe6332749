----------------------- MODULE MCPostmatchSettlement -----------------------
(***************************************************************************)
(* Instances of PostmatchSettlement for TLC.                               *)
(***************************************************************************)
EXTENDS PostmatchSettlement, TLC

CONSTANTS m1, m2, d1, d2, p1, p2

\* One prediction for the first Map only.
OnePred == (p1 :> m1)
\* Two mapping versions of the same Map, each with its prediction.
TwoPreds == (p1 :> m1) @@ (p2 :> m1)

\* No prediction at all.
NoPreds == <<>>
============================================================================
