----------------------------- MODULE IngestLedger -----------------------------
(***************************************************************************)
(* What match_ingest_status promises to whoever reads it, without the      *)
(* workers, their fences and the clock: a match is new until its first     *)
(* attempt; from then on it is owed another one until its budget is spent, *)
(* its complete detail is stored or it is rejected, whatever becomes of    *)
(* the attempts.  What is stored only improves, a match in question stays  *)
(* in question, and no match is ever taken back to a stage it has left.    *)
(***************************************************************************)
CONSTANTS Matches, Contents, NoContent, MissingOf

VARIABLES
    stage,     \* [Matches -> Stages]
    detail,    \* [Matches -> Contents \cup {NoContent}]
    review     \* [Matches -> BOOLEAN]

vars == <<stage, detail, review>>

Stages == {"new", "owed", "spent", "complete", "rejected"}

Init ==
    /\ stage = [m \in Matches |-> "new"]
    /\ detail = [m \in Matches |-> NoContent]
    /\ review = [m \in Matches |-> FALSE]

Attempt(m) ==
    /\ stage[m] = "new"
    /\ stage' = [stage EXCEPT ![m] = "owed"]
    /\ UNCHANGED <<detail, review>>

Spend(m) ==
    /\ stage[m] = "owed"
    /\ stage' = [stage EXCEPT ![m] = "spent"]
    /\ UNCHANGED <<detail, review>>

Better(c, d) ==
    d = NoContent \/ (MissingOf[c] \subseteq MissingOf[d]
                      /\ MissingOf[c] # MissingOf[d])

\* A complete detail ends the attempts that are owed.
Store(m, c) ==
    /\ stage[m] # "new" /\ Better(c, detail[m])
    /\ detail' = [detail EXCEPT ![m] = c]
    /\ stage' = [stage EXCEPT ![m] = IF @ # "rejected" /\ MissingOf[c] = {}
                                     THEN "complete" ELSE @]
    /\ UNCHANGED review

\* Another detail that lacks as much contradicts the stored one.
Question(m) ==
    /\ detail[m] # NoContent
    /\ review' = [review EXCEPT ![m] = TRUE]
    /\ UNCHANGED <<stage, detail>>

Reject(m) ==
    /\ stage[m] # "new"
    /\ stage' = [stage EXCEPT ![m] = "rejected"]
    /\ review' = [review EXCEPT ![m] = TRUE]
    /\ UNCHANGED detail

Next ==
    \E m \in Matches :
        \/ Attempt(m) \/ Spend(m) \/ Question(m) \/ Reject(m)
        \/ \E c \in Contents : Store(m, c)

Spec == Init /\ [][Next]_vars
=============================================================================
