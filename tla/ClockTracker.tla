----------------------------- MODULE ClockTracker -----------------------------
(***************************************************************************)
(* vision/map_state.py: which of the game clocks that are read off the     *)
(* frames of a stream is believed.                                         *)
(*                                                                         *)
(* One reading may be wrong.  A clock is confirmed when the last readings  *)
(* that were accepted agree; one that runs ahead is accepted when the next *)
(* ones agree with it, and two that fall back freeze the tracker until it  *)
(* is reset for a map.  Before the horn the clock counts down, and some    *)
(* broadcasts show it without its sign: a falling clock has its sign       *)
(* turned until it rises again from zero.                                  *)
(*                                                                         *)
(* A reading is one with enough confidence; the others change nothing.  It *)
(* is negative when the reader has seen the sign (_parse_digits), so both  *)
(* kinds of broadcast, and a misread sign, may mix.                        *)
(* Whether the game is paused (same_count) is left out.                    *)
(***************************************************************************)
EXTENDS Integers, FiniteSets, Sequences, SequencesExt

CONSTANTS
    Readings,       \* seconds that may be read, negative with a sign
    Confirmations,  \* readings that must agree, 2
    MaxReadings,    \* bound: readings between two resets
    NoClock         \* not a number

ASSUME ReadingAssumption ==
    /\ Readings \subseteq Int /\ NoClock \notin Int
    /\ Confirmations \in Nat \ {0} /\ MaxReadings \in Nat

VARIABLES
    tracker,    \* MapStateTracker
    confirmed,  \* what the last reading confirmed
    history     \* for the properties: the readings since the reset

clockVars == <<tracker, confirmed, history>>

Clocks == {NoClock} \cup Readings \cup {-s : s \in Readings}
Window == UNION {[1 .. n -> Clocks \ {NoClock}] : n \in 0 .. Confirmations}

NewTracker == [last |-> NoClock, last_raw |-> NoClock, recent |-> <<>>,
          jump |-> <<>>, frozen |-> FALSE, regressions |-> 0,
          countdown |-> FALSE, detecting |-> TRUE]

ClockInit == tracker = NewTracker /\ confirmed = NoClock /\ history = <<>>

\* A deque of at most Confirmations elements.
Push(window, s) ==
    LET all == Append(window, s)
    IN  SubSeq(all, IF Len(all) > Confirmations THEN 2 ELSE 1, Len(all))

\* Mutant: a window that is not full yet counts as well.
Mutant_Agree(window) ==
    \A i, j \in DOMAIN window : window[i] - window[j] <= 3

Agree(window) ==
    /\ Len(window) = Confirmations
    /\ \A i, j \in DOMAIN window : window[i] - window[j] <= 3

-----------------------------------------------------------------------------
(* The sign of a reading, and what it does to the countdown.               *)

StartsOver(t) == [t EXCEPT !.last = NoClock, !.recent = <<>>, !.jump = <<>>,
                           !.regressions = 0]

\* The countdown ends: the counter rises again from zero.
CountdownEnds(t, raw) == t.countdown /\ t.last_raw <= 3 /\ raw > t.last_raw

\* A countdown without its sign is seen: the counter falls by no more than
\* three, and not below zero.
CountdownBegins(t, raw) ==
    /\ ~t.countdown /\ t.detecting
    /\ t.last_raw # NoClock
    /\ 0 <= raw /\ raw < t.last_raw /\ t.last_raw <= 180 /\ t.last_raw - raw <= 3

\* The counter rises, or is past what a countdown shows.
DetectionEnds(t, raw) ==
    /\ ~t.countdown /\ t.detecting
    /\ raw > 180 \/ (t.last_raw # NoClock /\ raw > t.last_raw)

Prepared(t, raw) ==
    LET next ==
        IF CountdownEnds(t, raw)
        THEN [StartsOver(t) EXCEPT !.countdown = FALSE, !.detecting = FALSE]
        ELSE IF CountdownBegins(t, raw)
        THEN [StartsOver(t) EXCEPT !.countdown = TRUE, !.last = -t.last_raw,
                                   !.recent = <<-t.last_raw>>]
        ELSE IF DetectionEnds(t, raw) THEN [t EXCEPT !.detecting = FALSE]
        ELSE t
    IN  [next EXCEPT !.last_raw = raw]

-----------------------------------------------------------------------------
(* update.                                                                 *)

\* More than ten seconds ahead: believed when the next ones agree.
Jumps(t, seconds) ==
    LET jump == Push(t.jump, seconds)
    IN  IF Agree(jump)
        THEN /\ tracker' = [t EXCEPT !.recent = jump, !.jump = <<>>,
                                     !.last = seconds, !.regressions = 0]
             /\ confirmed' = seconds
        ELSE tracker' = [t EXCEPT !.jump = jump] /\ confirmed' = NoClock

\* More than three seconds behind: the second one freezes the tracker.
FallsBack(t) ==
    /\ tracker' = [t EXCEPT !.jump = <<>>, !.regressions = @ + 1,
                            !.frozen = t.regressions + 1 >= 2]
    /\ confirmed' = NoClock

Follows(t, seconds) ==
    LET recent == Push(t.recent, seconds)
    IN  /\ tracker' = [t EXCEPT !.jump = IF t.last = NoClock THEN @ ELSE <<>>,
                                !.recent = recent, !.last = seconds,
                                !.regressions = 0]
        /\ confirmed' = IF Agree(recent) THEN seconds ELSE NoClock

update(raw) ==
    LET t == Prepared(tracker, raw)
        seconds == IF t.countdown THEN -raw ELSE raw
    IN  /\ ~tracker.frozen /\ Len(history) < MaxReadings
        /\ IF t.last # NoClock /\ seconds > t.last + 10 THEN Jumps(t, seconds)
           ELSE IF t.last # NoClock /\ seconds < t.last - 3 THEN FallsBack(t)
           ELSE Follows(t, seconds)
        /\ history' = Append(history, raw)

\* A replay, a new map, a clock that fell back: the watcher resets the tracker.
reset_map ==
    /\ tracker' = NewTracker /\ confirmed' = NoClock /\ history' = <<>>

ClockNext == reset_map \/ \E raw \in Readings : update(raw)

ClockSpec == ClockInit /\ [][ClockNext]_clockVars

-----------------------------------------------------------------------------
(* Properties.                                                             *)

\* The tracker holds at most so many readings, and whatever it has confirmed is a
\* clock or nothing (MapStateTracker.__init__).
ClockTypeOK ==
    /\ tracker \in [last: Clocks, last_raw: Readings \cup {NoClock},
                    recent: Window, jump: Window, frozen: BOOLEAN,
                    regressions: 0 .. 2, countdown: BOOLEAN, detecting: BOOLEAN]
    /\ confirmed \in Clocks
    /\ history \in Seq(Readings)

\* A confirmed clock is never the word of a single frame: of the readings since
\* the last reset, the last one and as many others as are asked for show it up
\* to three seconds, and the sign that was read is turned only if one of these
\* readings, none of them below zero, was followed by one up to three seconds
\* smaller - whatever was misread in between.
ConfirmedIsSupported ==
    confirmed # NoClock =>
        /\ Cardinality({i \in DOMAIN history :
                history[i] - Last(history) \in -3 .. 3}) >= Confirmations
        /\ confirmed \in {Last(history), -Last(history)}
        /\ confirmed # Last(history) =>
            \E i \in 1 .. Len(history) - 1 :
                /\ 0 <= history[i + 1] /\ history[i] <= 180
                /\ history[i + 1] \in (history[i] - 3) .. (history[i] - 1)
=============================================================================
