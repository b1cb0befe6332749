--------------------------- MODULE SettlementLedger ---------------------------
(***************************************************************************)
(* What the settlement tables promise to whoever reads them, without the   *)
(* worker, the providers and the clock: a Map is open until it is decided  *)
(* for one team or sent to review, both for good; one Official Match ID    *)
(* decides at most one Map; and a prediction is settled once, after its    *)
(* Map is decided, for the side of the draft that the winning team played. *)
(***************************************************************************)
CONSTANTS Maps, DotaIds, Sides, Preds, PredMap

VARIABLES
    link,      \* [Maps -> DotaIds]: the official match of a Map
    radiant,   \* [Preds -> Sides]: the team that plays radiant
    verdict,   \* [Maps -> Verdicts]
    settled    \* [Preds -> Outcomes]

vars == <<link, radiant, verdict, settled>>

Init ==
    /\ link \in [Maps -> DotaIds] /\ radiant \in [Preds -> Sides]
    /\ verdict = [m \in Maps |-> "open"]
    /\ settled = [p \in Preds |-> "none"]

\* One transaction may send several Maps to review.
Review(S) ==
    /\ \A m \in S : verdict[m] = "open"
    /\ verdict' = [m \in Maps |-> IF m \in S THEN "review" ELSE verdict[m]]
    /\ UNCHANGED <<link, radiant, settled>>

Decide(m, side) ==
    /\ verdict[m] = "open"
    /\ \A n \in Maps \ {m} : link[n] = link[m] => verdict[n] \notin Sides
    /\ verdict' = [verdict EXCEPT ![m] = side]
    /\ UNCHANGED <<link, radiant, settled>>

Settle(p) ==
    /\ settled[p] = "none" /\ verdict[PredMap[p]] \in Sides
    /\ settled' = [settled EXCEPT ![p] = IF verdict[PredMap[p]] = radiant[p]
                                         THEN "radiant" ELSE "dire"]
    /\ UNCHANGED <<link, radiant, verdict>>

Next ==
    \/ \E S \in SUBSET Maps : Review(S)
    \/ \E m \in Maps, side \in Sides : Decide(m, side)
    \/ \E p \in Preds : Settle(p)

Spec == Init /\ [][Next]_vars
=============================================================================
