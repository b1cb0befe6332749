----------------------------- MODULE DraftAnchor -----------------------------
(***************************************************************************)
(* The draft anchor of one map (live_betting/storage.py): which draft and  *)
(* which side the recognised frames agree on, and from when on they do not.*)
(*                                                                         *)
(* Frames are stored in the order they arrive, the anchor is to follow the *)
(* order in which they were captured: two watchers may read one stream     *)
(* (one left behind by a killed supervisor), and a slow one delivers late. *)
(* So every confirmed frame rebuilds the anchor from the anchor itself,    *)
(* the recorded conflicts and the observations that are confirmed so far.  *)
(*                                                                         *)
(* A frame stands for a confirmed observation with a registered file; the  *)
(* others are stored and change nothing here.  Frames are numbered in the  *)
(* order of (captured_at, source_frame_ref).                               *)
(*                                                                         *)
(* One delivery is one transaction at READ COMMITTED and locks nothing: it *)
(* reads the anchor, the conflicts and the observations one after another, *)
(* each as committed by then, and overwrites the anchor with what it made  *)
(* of them.  What another watcher committed in between is lost from it.    *)
(***************************************************************************)
EXTENDS Integers, FiniteSets

CONSTANTS
    Frames,       \* observations, naturals in their event order
    CapturedAt,   \* [Frames -> Nat]: captured_at, in that order
    Drafts,       \* the ten heroes that a frame may show
    Watchers,     \* processes that read the stream
    NoFrame, Never

ASSUME FrameAssumption ==
    /\ Frames \subseteq Nat /\ IsFiniteSet(Frames) /\ NoFrame \notin Frames
    /\ CapturedAt \in [Frames -> Nat] /\ Never \notin Nat
    /\ \A f, g \in Frames : f < g => CapturedAt[f] <= CapturedAt[g]

VARIABLES
    observations,  \* vision_observations: row of a frame that has arrived
    anchor,        \* vision_draft_anchors
    conflicts,     \* vision_draft_conflicts: what a recorded frame showed
    invalidated,   \* vision_observation_invalidations
    reading,       \* what the open transaction of a watcher has read
    stale,         \* the last delivery was made of rows that had changed since
    everStale      \* and so was one before it (both are never read)

anchorTables == <<observations, anchor, conflicts, invalidated>>
anchorVars == <<anchorTables, reading, stale, everStale>>

ShownSides == {"none", "team_one", "team_two"}
Shown == [draft: Drafts, side: ShownSides]
Observations == [draft: Drafts, side: ShownSides, confirmed: BOOLEAN]
Anchors == [frame: Frames, draft: Drafts, side: ShownSides,
            sideFrame: Frames \cup {NoFrame},
            status: {"anchored", "conflict"}, conflictAt: Nat \cup {Never}]
NoAnchor == [frame |-> NoFrame]
Rows == UNION {[S -> Shown] : S \in SUBSET Frames}
Deliveries == [next: {"conflicts", "observations", "write"}, frame: Frames,
               anchor: Anchors \cup {NoAnchor}, conflicts: Rows,
               confirmed: Rows, invalidated: SUBSET Frames]
NoDelivery == [next |-> "nothing"]

AnchorInit ==
    /\ observations = <<>>
    /\ anchor = NoAnchor
    /\ conflicts = <<>>
    /\ invalidated = {}
    /\ reading = [w \in Watchers |-> NoDelivery]
    /\ stale = FALSE /\ everStale = FALSE

Stored == DOMAIN observations
Confirmed == {f \in Stored : observations[f].confirmed}
Anchored == anchor # NoAnchor
ShownBy(f) == [draft |-> observations[f].draft, side |-> observations[f].side]

\* The first of a set of frames in event order.
First(S) == CHOOSE f \in S : \A g \in S : f <= g

-----------------------------------------------------------------------------
(* _rebuild_vision_draft_anchor.                                           *)

\* What the candidates of a delivery r showed.  The anchor's own entry carries
\* the side of the anchor, and is replaced by the frame's conflict or confirmed
\* row, if any.
Candidates(r, shown) ==
    LET keys == {r.frame, r.anchor.frame} \cup DOMAIN r.conflicts
                    \cup DOMAIN r.confirmed
    IN  [k \in keys \ r.invalidated |->
            IF k = r.frame THEN shown
            ELSE IF k \in DOMAIN r.conflicts THEN r.conflicts[k]
            ELSE IF k \in DOMAIN r.confirmed THEN r.confirmed[k]
            ELSE [draft |-> r.anchor.draft, side |-> r.anchor.side]]

\* Mutant: the frame that arrived first stays the canonical one.
Mutant_Canonical(c) ==
    IF anchor.frame \in DOMAIN c THEN anchor.frame ELSE First(DOMAIN c)

Canonical(c) == First(DOMAIN c)

\* The candidates that show the canonical draft and a side.
Sided(c) ==
    LET draft == c[Canonical(c)].draft
    IN  {k \in DOMAIN c : c[k].side # "none" /\ c[k].draft = draft}
SideFrame(c) ==
    LET sided == Sided(c) IN IF sided = {} THEN NoFrame ELSE First(sided)
Side(c) ==
    LET f == SideFrame(c) IN IF f = NoFrame THEN "none" ELSE c[f].side

\* conflict_candidates: another draft, or another side than the first.
Clashing(c) ==
    LET draft == c[Canonical(c)].draft
        side == Side(c)
    IN  {k \in DOMAIN c : c[k].draft # draft \/ c[k].side \notin {"none", side}}

\* conflict_cutoff; a conflict whose frames are all invalidated stays.
Cutoff(r, c) ==
    LET clashing == Clashing(c)
    IN  IF clashing # {} THEN CapturedAt[First(clashing)]
        ELSE IF r.anchor.status = "conflict" THEN r.anchor.conflictAt ELSE Never

Before(k, cutoff) == cutoff = Never \/ CapturedAt[k] < cutoff

Trusted(r, c) ==
    LET cutoff == Cutoff(r, c)
    IN  {k \in DOMAIN c \ Clashing(c) : Before(k, cutoff)}

\* The rows of vision_draft_conflicts that are written: whatever clashes, and
\* all that comes after, but for the canonical frame.
Recorded(r, c) == (DOMAIN c \ Trusted(r, c)) \ {Canonical(c)}

\* The rows of observations are read again before they are updated, those of
\* conflicts are kept if they are there.  The row of the anchor is locked from
\* its update to the commit, so that this is one step.  c is bound by a
\* quantifier so that TLC evaluates it once.
Rebuild(r, shown) ==
    \E c \in {Candidates(r, shown)} :
    LET cutoff == Cutoff(r, c)
        trusted == Trusted(r, c)
        recorded == Recorded(r, c)
    IN  /\ conflicts' = [k \in DOMAIN conflicts \cup recorded |->
                            IF k \in DOMAIN conflicts THEN conflicts[k]
                            ELSE c[k]]
        /\ anchor' = [frame |-> Canonical(c), draft |-> c[Canonical(c)].draft,
                      side |-> Side(c), sideFrame |-> SideFrame(c),
                      status |-> IF cutoff = Never THEN "anchored"
                                 ELSE "conflict",
                      conflictAt |-> cutoff]
        /\ observations' = [k \in Stored \cup {r.frame} |->
                [draft |-> IF k = r.frame THEN shown.draft
                           ELSE observations[k].draft,
                 side |-> IF k = r.frame THEN shown.side
                          ELSE observations[k].side,
                 confirmed |-> IF k \in DOMAIN c THEN k \in trusted
                               ELSE observations[k].confirmed]]

FirstFrame(f, shown) ==
    /\ anchor' = [frame |-> f, draft |-> shown.draft, side |-> shown.side,
                  sideFrame |-> IF shown.side = "none" THEN NoFrame ELSE f,
                  status |-> "anchored", conflictAt |-> Never]
    /\ observations' = [k \in {f} |-> [draft |-> shown.draft,
                                       side |-> shown.side, confirmed |-> TRUE]]
    /\ UNCHANGED conflicts

-----------------------------------------------------------------------------
(* One delivery, statement by statement.                                   *)

\* insert_vision_observation, for a confirmed frame.  Its file is registered
\* first, so that a second delivery of the frame waits for the end of this one.
insert_vision_observation(w, f) ==
    /\ reading[w] = NoDelivery
    /\ \A v \in Watchers : reading[v] # NoDelivery => reading[v].frame # f
    /\ reading' = [reading EXCEPT ![w] =
            [next |-> IF Anchored THEN "conflicts" ELSE "write",
             frame |-> f, anchor |-> anchor, conflicts |-> <<>>,
             confirmed |-> <<>>, invalidated |-> {}]]
    /\ UNCHANGED <<anchorTables, stale, everStale>>

reads_conflicts(w) ==
    /\ reading[w].next = "conflicts"
    /\ reading' = [reading EXCEPT ![w].next = "observations",
                                  ![w].conflicts = conflicts]
    /\ UNCHANGED <<anchorTables, stale, everStale>>

\* The confirmed rows, then those that are invalidated: who excludes the map in
\* between invalidates all rows that were read.
reads_observations(w) ==
    /\ reading[w].next = "observations"
    /\ reading' = [reading EXCEPT ![w].next = "write",
                                  ![w].confirmed =
                                      [k \in Confirmed |-> ShownBy(k)],
                                  ![w].invalidated = invalidated]
    /\ UNCHANGED <<anchorTables, stale, everStale>>

\* What was read is what there is.
UpToDate(r) ==
    /\ r.anchor = anchor
    /\ Anchored => /\ r.conflicts = conflicts /\ r.invalidated = invalidated
                   /\ r.confirmed = [k \in Confirmed |-> ShownBy(k)]

\* What the frame showed matters from here on.  A watcher that starts again
\* replays its journal: rows that are stored are delivered again as they were.
\* When all that is known has been invalidated, nothing is rebuilt.
writes(w) ==
    LET r == reading[w] IN
    /\ r.next = "write"
    /\ \E shown \in Shown :
        /\ r.frame \in Stored => shown = ShownBy(r.frame)
        /\ IF r.anchor = NoAnchor THEN ~Anchored /\ FirstFrame(r.frame, shown)
           ELSE IF DOMAIN Candidates(r, shown) # {} THEN Rebuild(r, shown)
           ELSE UNCHANGED <<observations, anchor, conflicts>>
    /\ stale' = ~UpToDate(r)
    /\ everStale' = (everStale \/ stale')
    /\ reading' = [reading EXCEPT ![w] = NoDelivery]
    /\ UNCHANGED invalidated

\* The watcher is killed or its statement fails: of two that insert the first
\* anchor one does, and of two that wait for each other's conflicts.
rolls_back(w) ==
    /\ reading[w] # NoDelivery
    /\ reading' = [reading EXCEPT ![w] = NoDelivery]
    /\ UNCHANGED <<anchorTables, stale, everStale>>

-----------------------------------------------------------------------------
(* Invalidation.                                                           *)

\* The official maps of the series are known, and this map is not one of them.
ExcludeMap ==
    /\ Stored \ invalidated # {} \/ Confirmed # {}
    /\ invalidated' = invalidated \cup Stored
    /\ observations' = [k \in Stored |->
                            [observations[k] EXCEPT !.confirmed = FALSE]]
    /\ UNCHANGED <<anchor, conflicts, reading, stale, everStale>>

\* scripts/invalidate_vision_observations.py, for the confirmed frames after a
\* moment.  It writes the rows, then calls _invalidate_vision_dependents of the
\* store, which no class defines: the transaction is rolled back.
invalidate(after) ==
    /\ \E f \in Confirmed : CapturedAt[f] > after
    /\ UNCHANGED anchorVars

\* The same script with --freeze-draft, when no frame is in the range: it calls
\* _invalidate_draft_dependents, which no class defines either.
freeze_draft_map ==
    /\ Confirmed \ invalidated # {}
    /\ UNCHANGED anchorVars

AnchorNext ==
    \/ \E w \in Watchers :
        \/ \E f \in Frames : insert_vision_observation(w, f)
        \/ reads_conflicts(w) \/ reads_observations(w)
        \/ writes(w) \/ rolls_back(w)
    \/ \E f \in Frames : invalidate(CapturedAt[f])
    \/ ExcludeMap \/ freeze_draft_map

AnchorSpec == AnchorInit /\ [][AnchorNext]_anchorVars

-----------------------------------------------------------------------------
(* What the post-match worker reads: _vision_drafts at a causal cutoff.    *)

Intrinsic ==
    {k \in DOMAIN conflicts :
        \/ conflicts[k].draft # anchor.draft
        \/ conflicts[k].side \notin {"none", anchor.side}}

ConflictTimes ==
    {CapturedAt[k] : k \in IF Intrinsic # {} THEN Intrinsic
                           ELSE DOMAIN conflicts}
        \cup (IF anchor.status = "conflict" THEN {anchor.conflictAt} ELSE {})

\* Mutant: a map that is in conflict now is not read at all.
Mutant_ConflictFree(cutoff) == ConflictTimes = {}

ConflictFree(cutoff) == \A t \in ConflictTimes : t > cutoff

\* A confirmed frame that shows the anchor's draft and side, captured at the
\* latest at the cutoff and after every frame that was invalidated by then.
Witness(f, cutoff) ==
    /\ f \in Confirmed \ invalidated
    /\ CapturedAt[f] \in CapturedAt[anchor.sideFrame] .. cutoff
    /\ \A i \in invalidated :
        CapturedAt[i] <= cutoff => CapturedAt[i] < CapturedAt[f]
    /\ observations[f].draft = anchor.draft
    /\ observations[f].side = anchor.side

vision_drafts(cutoff) ==
    IF /\ Anchored /\ anchor.side # "none"
       /\ CapturedAt[anchor.frame] <= cutoff
       /\ CapturedAt[anchor.sideFrame] <= cutoff
       /\ ConflictFree(cutoff)
       /\ \E f \in Frames : Witness(f, cutoff)
    THEN {[draft |-> anchor.draft, side |-> anchor.side]} ELSE {}

-----------------------------------------------------------------------------
(* Properties.                                                             *)

\* The tables are well-formed: only a stored frame is in conflict or invalidated,
\* the anchor, if there is one, has every column, and what is read has too.
AnchorTypeOK ==
    /\ Stored \subseteq Frames /\ observations \in [Stored -> Observations]
    /\ anchor \in Anchors \cup {NoAnchor}
    /\ DOMAIN conflicts \subseteq Stored
    /\ conflicts \in [DOMAIN conflicts -> Shown]
    /\ invalidated \subseteq Stored
    /\ reading \in [Watchers -> Deliveries \cup {NoDelivery}]
    /\ stale \in BOOLEAN /\ everStale \in BOOLEAN

\* What the anchor ought to say of a set of frames, with no history at all.
Truth == [f \in Stored |-> ShownBy(f)]

\* No two of the frames are of the same moment.
Distinct == \A f, g \in Stored : CapturedAt[f] = CapturedAt[g] => f = g

\* The last delivery worked with what was there.  If one before it did not, no
\* two frames may be of the same moment: the canonical frame, unconfirmed then,
\* would be known by the anchor only, and is forgotten when that is overwritten.
Mended == ~stale /\ (everStale => Distinct)

\* The order of arrival leaves no trace, and an update that two watchers have
\* lost is made good by the next delivery that reads what it overwrites: as
\* long as no frame is invalidated the anchor, its cutoff and the confirmed
\* frames are those of the set of frames that has arrived
\* (_rebuild_vision_draft_anchor, whose inputs are only what the earlier
\* rebuilds left confirmed or recorded).  A side from the time of the conflict
\* on is left out: when the canonical frame itself is of that moment, the code
\* may attribute to it the side of another.
AnchorFollowsEventTime ==
    (Mended /\ Stored # {} /\ invalidated = {}) =>
    LET truth == Truth
        clashing == Clashing(truth)
        cutoff == IF clashing = {} THEN Never ELSE CapturedAt[First(clashing)]
        sided == {f \in Sided(truth) : Before(f, cutoff)}
    IN
        /\ anchor.frame = First(Stored)
        /\ anchor.draft = truth[anchor.frame].draft
        /\ anchor.conflictAt = cutoff
        /\ anchor.status = IF cutoff = Never THEN "anchored" ELSE "conflict"
        /\ IF sided = {}
           THEN anchor.sideFrame = NoFrame \/ ~Before(anchor.sideFrame, cutoff)
           ELSE anchor.sideFrame = First(sided) /\ anchor.side = Side(truth)
        /\ Confirmed = {f \in Stored \ clashing : Before(f, cutoff)}

\* What was read at a causal cutoff is read again: a frame that is captured
\* later neither adds a draft to that reading nor takes it away, even when it
\* brings the map into conflict (_vision_drafts).  Not so while a lost update
\* waits to be made good, nor for a map that was excluded once: a new conflict
\* then replaces the moment of an old one.
CausalReadIsStable ==
    [][\A c \in {CapturedAt[f] : f \in Frames} :
        /\ Mended /\ Mended' /\ invalidated' = {}
        /\ \A f \in (DOMAIN observations') \ Stored : CapturedAt[f] > c
        => vision_drafts(c)' = vision_drafts(c)]_anchorVars
=============================================================================
