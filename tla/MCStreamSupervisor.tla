-------------------------- MODULE MCStreamSupervisor --------------------------
(* Rows for the instances of StreamSupervisor that TLC checks: a live match  *)
(* that must be refreshed, a match to come with and without a stored stream, *)
(* and one that is over.                                                     *)
EXTENDS StreamSupervisor

Row(status, fresh, url, window) ==
    [status |-> status, fresh |-> fresh, url |-> url, video |-> FALSE,
     window |-> window]

MCRows == {Row("2", TRUE, FALSE, FALSE), Row("1", TRUE, FALSE, TRUE),
           Row("closed", TRUE, TRUE, FALSE)}

MCDelays == <<1>>
=============================================================================
