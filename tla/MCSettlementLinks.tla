--------------------------- MODULE MCSettlementLinks ---------------------------
(***************************************************************************)
(* Two Maps that compete for one official match, and the draft anchor that *)
(* the post-match worker reads.  They share no state here, so a behaviour  *)
(* is one of the component that scene names, and the other keeps its       *)
(* initial state.                                                          *)
(*                                                                         *)
(* The draft anchor has two scenes: one delivery at a time, which may be   *)
(* that of a stored frame, on a map that may be excluded; and two watchers *)
(* whose deliveries overlap.                                               *)
(***************************************************************************)
EXTENDS MCPostmatchSettlement, DraftAnchor

CONSTANTS x, y, v1, v2

VARIABLE scene

\* The last two frames are of the same moment.
MCCapturedAt == 1 :> 1 @@ 2 :> 2 @@ 3 :> 3 @@ 4 :> 3

\* Neither Maps nor watchers are told from one another.
MCSymmetry == Permutations(Maps) \cup Permutations(Watchers)

\* Nor are drafts: the one that is stored first is called x.
FirstIsX == Stored = {} => \A f \in Stored' : observations'[f].draft = x

\* One delivery at a time, of the frames from the second on.
OneDelivery ==
    \A v \in Watchers : reading'[v] # NoDelivery =>
        /\ reading'[v].frame # 1
        /\ \A other \in Watchers \ {v} : reading'[other] = NoDelivery

\* Any number at a time, of frames that are not stored yet, on a map that stays.
Overlapping ==
    /\ invalidated' = {}
    /\ \A v \in Watchers :
        reading[v] = NoDelivery /\ reading'[v] # NoDelivery
            => reading'[v].frame \notin Stored

MCInit ==
    /\ scene \in {"links", "anchor", "watchers"}
    /\ Init /\ AnchorInit
    /\ scene # "links" => odWinner = [m \in Maps |-> "team_one"]

MCNext ==
    /\ UNCHANGED scene
    /\ \/ scene = "links" /\ Next /\ UNCHANGED anchorVars
       \/ /\ AnchorNext /\ FirstIsX /\ UNCHANGED vars
          /\ \/ scene = "anchor" /\ OneDelivery
             \/ scene = "watchers" /\ Overlapping

MCSpec == MCInit /\ [][MCNext]_<<scene, vars, anchorVars>>
=============================================================================
